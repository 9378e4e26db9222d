--------------------------- MODULE AccountProofs ---------------------------
(***************************************************************************)
(* Proofs about the accounts, for any number of them and any number of     *)
(* requests at once.                                                       *)
(*                                                                         *)
(* AccountAdmin.  A request that writes holds the locks its write relies   *)
(* on, so the counts it made under them are still right.                   *)
(*                                                                         *)
(* Members.  Every copy of an account (in a list, a draft, a save or an    *)
(* answer) is no newer than the account, and one of the same version was   *)
(* read with the same status; and what a save was checked against is true  *)
(* as long as it holds the lock on the profile.                            *)
(***************************************************************************)
EXTENDS AccountAdmin, Members, FiniteSetTheorems, TLAPS

----------------------------------------------------------------------------
(* Account administration: lemmas about the operators *)

\* A count above one means that a super remains when any one is taken away.
LEMMA AnotherRemains ==
    ASSUME NEW S \in SUBSET Users, NEW u \in S, MoreThanOne(S)
    PROVE  S \ {u} # {}
  <1>1. IsFiniteSet(S)
    BY FS_Subset, UsersAreFinite
  <1>2. Cardinality(S \ {u}) = Cardinality(S) - 1
    BY <1>1, FS_RemoveElement
  <1>3. Cardinality(S) \in Nat
    BY <1>1, FS_CardinalityType
  <1>4. Cardinality(S \ {u}) # 0
    BY <1>2, <1>3 DEF MoreThanOne
  <1>5. QED  BY <1>4, FS_EmptySet

LEMMA WriteType ==
    ASSUME TypeOK, NEW j \in Jobs, Write(j)
    PROVE  /\ account' \in [Users -> AccountStates]
           /\ tier' \in [Users -> Tiers]
           /\ manager' \in [Users -> BOOLEAN]
  <1>1. /\ AccountAfter(j.op, account[j.target]) \in AccountStates
        /\ TierAfter(j.op, tier[j.target]) \in Tiers
        /\ ManagerAfter(j.op, manager[j.target]) \in BOOLEAN
    BY DEF TypeOK, Jobs, AccountAfter, TierAfter, ManagerAfter, AccountStates, Tiers
  <1>2. QED  BY <1>1 DEF TypeOK, Write, Jobs

LEMMA IdleType == Idle \in Jobs
  BY RootIsUser DEF Idle, Jobs, Steps, Ops, RowOps, Tiers

LEMMA RollbackType ==
    ASSUME TypeOK, NEW w \in Workers, Rollback(w)
    PROVE  TypeOK'
  BY IdleType DEF TypeOK, Rollback, End, Release

\* Only the target of a write changes, and only an operation that removes takes
\* an active super away.
LEMMA WriteFrame ==
    ASSUME TypeOK, NEW j \in Jobs, Write(j)
    PROVE  /\ ActiveSupers \ {j.target} \subseteq ActiveSupers'
           /\ \A u \in Users \ {j.target} : u \in ActiveSupers' <=> u \in ActiveSupers
           /\ ~(j.op \in Removals /\ j.target \in ActiveSupers) =>
                 ActiveSupers \subseteq ActiveSupers'
  <1>1. j.target \in Users /\ j.op \in Ops
    BY DEF Jobs
  <1>2. \A u \in Users \ {j.target} : account'[u] = account[u] /\ tier'[u] = tier[u]
    BY DEF Write, TypeOK
  <1>3. ASSUME j.op \notin Removals, j.target \in ActiveSupers
        PROVE  j.target \in ActiveSupers'
    <2>1. account[j.target] = "active" /\ tier[j.target] = "super"
      BY <1>3 DEF ActiveSupers
    <2>2. /\ account'[j.target] = AccountAfter(j.op, account[j.target])
          /\ tier'[j.target] = TierAfter(j.op, tier[j.target])
      BY <1>1 DEF Write, TypeOK
    <2>3. account'[j.target] = "active" /\ tier'[j.target] = "super"
      BY <2>1, <2>2, <1>3 DEF AccountAfter, TierAfter, Removals
    <2>4. QED  BY <1>1, <2>3 DEF ActiveSupers
  <1>4. QED  BY <1>1, <1>2, <1>3 DEF ActiveSupers

----------------------------------------------------------------------------
(* Type correctness *)

\* The services keep every variable within its type, whatever runs at once.
THEOREM AccountTypes == Spec => []TypeOK
<1>1. Init => TypeOK
  BY RootIsUser, IdleType DEF Init, TypeOK, AccountStates, Tiers
<1>2. ASSUME TypeOK, [Next]_vars
      PROVE  TypeOK'
  <2>1. CASE UNCHANGED vars
    BY <2>1, <1>2 DEF TypeOK, vars
  <2>2. ASSUME NEW w \in Workers, NEW u \in Users, NEW target \in Users,
               NEW op \in Offered, Authenticate(w, u, op, target)
        PROVE  TypeOK'
    <3>1. [step |-> "ready", op |-> op, target |-> target, actor |-> u,
           actorTier |-> tier[u]] \in Jobs
      BY <1>2, OfferedAreOperations DEF TypeOK, Jobs, Steps
    <3>2. QED  BY <3>1, <2>2, <1>2 DEF TypeOK, Authenticate
  <2>3. ASSUME NEW w \in Workers, TakeSuperLock(w)
        PROVE  TypeOK'
    BY <2>3, <1>2 DEF TypeOK, TakeSuperLock, Jobs, Steps
  <2>4. ASSUME NEW w \in Workers, LockRow(w)
        PROVE  TypeOK'
    <3>1. CASE Accepts(job[w])
      BY <3>1, <2>4, <1>2 DEF TypeOK, LockRow, Jobs, Steps
    <3>2. CASE ~Accepts(job[w])
      BY <3>2, <2>4, <1>2, RollbackType DEF LockRow
    <3>3. QED  BY <3>1, <3>2
  <2>5. ASSUME NEW w \in Workers, Commit(w)
        PROVE  TypeOK'
    <3>1. CASE ActorRemains(job[w])
      <4>1. job[w] \in Jobs
        BY <1>2 DEF TypeOK
      <4>2. Write(job[w]) /\ End(w) /\ Release(w)
        BY <3>1, <2>5 DEF Commit
      <4>3. QED  BY <4>1, <4>2, <1>2, WriteType, IdleType DEF TypeOK, End, Release
    <3>2. CASE ~ActorRemains(job[w])
      BY <3>2, <2>5, <1>2, RollbackType DEF Commit
    <3>3. QED  BY <3>1, <3>2
  <2>6. ASSUME NEW w \in Workers, DeadlockAbort(w)
        PROVE  TypeOK'
    BY <2>6, <1>2, RollbackType DEF DeadlockAbort
  <2>7. QED  BY <1>2, <2>1, <2>2, <2>3, <2>4, <2>5, <2>6 DEF Next
<1>3. QED  BY <1>1, <1>2, PTL DEF Spec

----------------------------------------------------------------------------
(* The last active super *)

\* A transaction that is about to take an active super away leaves another one.
AnotherSuperRemains ==
    \A w \in Workers :
       job[w].step = "locked" /\ job[w].op \in Removals /\ job[w].target \in ActiveSupers
          => ActiveSupers \ {job[w].target} # {}

SupersInv == LockDiscipline /\ RowsExclusive /\ AnotherSuperRemains /\ AlwaysAnActiveSuper

\* A step that writes no account keeps what the locks protect, if the locks
\* themselves are kept and every request with a checked removal keeps its own.
LEMMA NoWriteKeepsSupers ==
    ASSUME SupersInv, UNCHANGED <<account, tier>>,
           \A w \in Workers :
              job'[w].step = "locked" => job[w].step = "locked" /\ job'[w] = job[w]
    PROVE  (RowsExclusive /\ AnotherSuperRemains /\ AlwaysAnActiveSuper)'
  <1>1. ActiveSupers' = ActiveSupers
    BY DEF ActiveSupers
  <1>2. RowsExclusive'
    BY DEF SupersInv, RowsExclusive, RowIsTaken
  <1>3. AnotherSuperRemains'
    BY <1>1 DEF SupersInv, AnotherSuperRemains
  <1>4. QED  BY <1>1, <1>2, <1>3 DEF SupersInv, AlwaysAnActiveSuper

\* The end of a transaction keeps the discipline of SUPER_LOCK.
LEMMA EndKeepsDiscipline ==
    ASSUME TypeOK, LockDiscipline, NEW w \in Workers, End(w), Release(w)
    PROVE  LockDiscipline'
  <1>1. job'[w] = Idle /\ \A v \in Workers \ {w} : job'[v] = job[v]
    BY DEF TypeOK, End
  <1>2. ASSUME NEW v \in Workers \ {w}
        PROVE  superLock' = v <=> superLock = v
    BY <1>2, NoWorkerIsNotAWorker DEF Release
  <1>3. superLock' # w
    BY NoWorkerIsNotAWorker DEF Release
  <1>4. QED  BY <1>1, <1>2, <1>3 DEF LockDiscipline, Idle

LEMMA RollbackKeepsSupers ==
    ASSUME TypeOK, SupersInv, NEW w \in Workers, Rollback(w)
    PROVE  SupersInv'
  <1>1. LockDiscipline'
    BY EndKeepsDiscipline DEF Rollback, SupersInv
  <1>2. (RowsExclusive /\ AnotherSuperRemains /\ AlwaysAnActiveSuper)'
    BY NoWriteKeepsSupers DEF Rollback, End, Idle, TypeOK
  <1>3. QED  BY <1>1, <1>2 DEF SupersInv

\* Only the holder of SUPER_LOCK removes supers, and its own row is its own.
LEMMA CommitKeepsSupers ==
    ASSUME TypeOK, SupersInv, NEW w \in Workers, job[w].step = "locked",
           Write(job[w]), End(w), Release(w)
    PROVE  SupersInv'
  <1> DEFINE j == job[w]
             removes == j.op \in Removals /\ j.target \in ActiveSupers
  <1>1. j \in Jobs
    BY DEF TypeOK
  <1>2. /\ ActiveSupers \ {j.target} \subseteq ActiveSupers'
        /\ \A u \in Users \ {j.target} : u \in ActiveSupers' <=> u \in ActiveSupers
        /\ ~removes => ActiveSupers \subseteq ActiveSupers'
    BY <1>1, WriteFrame
  <1>3. job'[w] = Idle /\ \A v \in Workers \ {w} : job'[v] = job[v]
    BY DEF TypeOK, End
  <1>4. LockDiscipline'
    BY EndKeepsDiscipline DEF SupersInv
  <1>5. RowsExclusive'
    BY <1>3 DEF SupersInv, RowsExclusive, RowIsTaken, Idle
  <1>6. ASSUME NEW v \in Workers, job'[v].step = "locked", job'[v].op \in Removals,
               job'[v].target \in ActiveSupers'
        PROVE  ActiveSupers' \ {job'[v].target} # {}
    <2>1. v # w /\ job'[v] = job[v]
      BY <1>3, <1>6 DEF Idle
    <2>2. job[v] \in Jobs /\ job[v].target \in Users
      BY DEF TypeOK, Jobs
    <2>3. job[v].target # j.target
      BY <2>1, <1>6 DEF SupersInv, RowsExclusive, RowIsTaken
    <2>4. ActiveSupers \ {job[v].target} # {}
      BY <1>2, <1>6, <2>1, <2>2, <2>3 DEF SupersInv, AnotherSuperRemains
    <2>5. ~removes
      BY <2>1, <1>6 DEF SupersInv, LockDiscipline, Removals, LockOps
    <2>6. QED  BY <1>2, <2>1, <2>4, <2>5
  <1>7. ActiveSupers' # {}
    <2>1. CASE removes
      BY <2>1, <1>2 DEF SupersInv, AnotherSuperRemains
    <2>2. CASE ~removes
      BY <2>2, <1>2 DEF SupersInv, AlwaysAnActiveSuper
    <2>3. QED  BY <2>1, <2>2
  <1>8. QED  BY <1>4, <1>5, <1>6, <1>7
             DEF SupersInv, AnotherSuperRemains, AlwaysAnActiveSuper

\* A transaction that goes on after its checks has a free row and, if it is to
\* remove an active super, has counted another one.
LEMMA LockRowKeepsSupers ==
    ASSUME TypeOK, SupersInv, NEW w \in Workers, LockRow(w), Accepts(job[w])
    PROVE  SupersInv'
  <1>1. /\ job' = [job EXCEPT ![w].step = "locked"]
        /\ UNCHANGED <<account, tier, manager, superLock>>
        /\ ~RowIsTaken(w, job[w].target)
    BY DEF LockRow
  <1>2. /\ \A v \in Workers \ {w} : job'[v] = job[v]
        /\ job'[w].step = "locked"
        /\ job'[w].op = job[w].op
        /\ job'[w].target = job[w].target
    BY <1>1 DEF TypeOK, Jobs
  <1>3. LockDiscipline'
    <2>1. job[w].step = "guarded" \/ (job[w].step = "ready" /\ job[w].op \in RowOps)
      BY DEF LockRow
    <2>2. RowOps \cap LockOps = {}
      BY DEF RowOps, LockOps
    <2>3. QED  BY <1>1, <1>2, <2>1, <2>2 DEF SupersInv, LockDiscipline
  <1>4. RowsExclusive'
    BY <1>1, <1>2 DEF SupersInv, RowsExclusive, RowIsTaken
  <1>5. ActiveSupers' = ActiveSupers
    BY <1>1 DEF ActiveSupers
  <1>6. ASSUME NEW v \in Workers, job'[v].step = "locked", job'[v].op \in Removals,
               job'[v].target \in ActiveSupers
        PROVE  ActiveSupers \ {job'[v].target} # {}
    <2>1. CASE v = w
      <3>1. Guarded(job[w].op, job[w].target)
        BY <1>2, <1>6, <2>1 DEF Guarded, Removals, ActiveSupers
      <3>2. MoreThanOne(ActiveSupers)
        BY <3>1 DEF Accepts
      <3>3. ActiveSupers \in SUBSET Users
        BY DEF ActiveSupers
      <3>4. QED  BY <1>6, <2>1, <3>2, <3>3, AnotherRemains
    <2>2. CASE v # w
      BY <1>2, <1>6, <2>2 DEF SupersInv, AnotherSuperRemains
    <2>3. QED  BY <2>1, <2>2
  <1>7. QED  BY <1>3, <1>4, <1>5, <1>6
             DEF SupersInv, AnotherSuperRemains, AlwaysAnActiveSuper

LEMMA TakeLockKeepsSupers ==
    ASSUME TypeOK, SupersInv, NEW w \in Workers, TakeSuperLock(w)
    PROVE  SupersInv'
  <1>1. /\ \A v \in Workers \ {w} : job'[v] = job[v]
        /\ job'[w].step = "guarded"
        /\ job'[w].op = job[w].op /\ job[w].op \in LockOps
        /\ superLock = NoWorker /\ superLock' = w
    BY DEF TypeOK, Jobs, TakeSuperLock, LockIsFree
  <1>2. LockDiscipline'
    BY <1>1, NoWorkerIsNotAWorker DEF SupersInv, LockDiscipline
  <1>3. (RowsExclusive /\ AnotherSuperRemains /\ AlwaysAnActiveSuper)'
    <2>1. UNCHANGED <<account, tier>>
      BY DEF TakeSuperLock
    <2>2. \A v \in Workers :
             job'[v].step = "locked" => job[v].step = "locked" /\ job'[v] = job[v]
      BY <1>1
    <2>3. QED  BY <2>1, <2>2, NoWriteKeepsSupers
  <1>4. QED  BY <1>2, <1>3 DEF SupersInv

LEMMA AuthenticateKeepsSupers ==
    ASSUME TypeOK, SupersInv, NEW w \in Workers, NEW u, NEW op, NEW target,
           Authenticate(w, u, op, target)
    PROVE  SupersInv'
  <1>1. /\ \A v \in Workers \ {w} : job'[v] = job[v]
        /\ job'[w].step = "ready" /\ job[w].step = "idle"
        /\ superLock' = superLock
    BY DEF TypeOK, Authenticate
  <1>2. LockDiscipline'
    BY <1>1 DEF SupersInv, LockDiscipline
  <1>3. (RowsExclusive /\ AnotherSuperRemains /\ AlwaysAnActiveSuper)'
    <2>1. UNCHANGED <<account, tier>>
      BY DEF Authenticate
    <2>2. \A v \in Workers :
             job'[v].step = "locked" => job[v].step = "locked" /\ job'[v] = job[v]
      BY <1>1
    <2>3. QED  BY <2>1, <2>2, NoWriteKeepsSupers
  <1>4. QED  BY <1>2, <1>3 DEF SupersInv

\* The invariant that keeps a super: operations count under SUPER_LOCK, and no
\* operation without that lock takes a super away.
LEMMA ASuperRemains == Spec => []SupersInv
<1>1. Init => SupersInv
  <2>1. ASSUME Init PROVE Root \in ActiveSupers
    BY <2>1, RootIsUser DEF Init, ActiveSupers
  <2>2. ASSUME Init PROVE LockDiscipline /\ RowsExclusive /\ AnotherSuperRemains
    BY <2>2, NoWorkerIsNotAWorker
       DEF Init, Idle, LockDiscipline, RowsExclusive, AnotherSuperRemains
  <2>3. QED  BY <2>1, <2>2 DEF SupersInv, AlwaysAnActiveSuper
<1>2. ASSUME TypeOK, SupersInv, [Next]_vars
      PROVE  SupersInv'
  <2>1. CASE UNCHANGED vars
    BY <2>1, <1>2 DEF vars, SupersInv, LockDiscipline, RowsExclusive, RowIsTaken,
                      AnotherSuperRemains, AlwaysAnActiveSuper, ActiveSupers
  <2>2. ASSUME NEW w \in Workers, LockRow(w)
        PROVE  SupersInv'
    <3>1. CASE Accepts(job[w])
      BY <3>1, <2>2, <1>2, LockRowKeepsSupers
    <3>2. CASE ~Accepts(job[w])
      BY <3>2, <2>2, <1>2, RollbackKeepsSupers DEF LockRow
    <3>3. QED  BY <3>1, <3>2
  <2>3. ASSUME NEW w \in Workers, Commit(w)
        PROVE  SupersInv'
    <3>1. CASE ActorRemains(job[w])
      BY <3>1, <2>3, <1>2, CommitKeepsSupers DEF Commit
    <3>2. CASE ~ActorRemains(job[w])
      BY <3>2, <2>3, <1>2, RollbackKeepsSupers DEF Commit
    <3>3. QED  BY <3>1, <3>2
  <2>4. ASSUME NEW w \in Workers, DeadlockAbort(w)
        PROVE  SupersInv'
    BY <2>4, <1>2, RollbackKeepsSupers DEF DeadlockAbort
  <2>5. QED  BY <1>2, <2>1, <2>2, <2>3, <2>4, TakeLockKeepsSupers, AuthenticateKeepsSupers
             DEF Next
<1>3. QED  BY <1>1, <1>2, AccountTypes, PTL DEF Spec

\* More users that are active and super do not fail a count that fewer passed.
LEMMA CountGrows ==
    ASSUME NEW S \in SUBSET Users, NEW T \in SUBSET Users, S \subseteq T, MoreThanOne(S)
    PROVE  MoreThanOne(T)
  <1>1. IsFiniteSet(S) /\ IsFiniteSet(T)
    BY FS_Subset, UsersAreFinite
  <1>2. /\ Cardinality(S) \in Nat /\ Cardinality(T) \in Nat
        /\ Cardinality(S) <= Cardinality(T)
    BY <1>1, FS_Subset, FS_CardinalityType
  <1>3. QED  BY <1>2 DEF MoreThanOne

\* A request j is accepted still if its target is as it was and, where it
\* counted the supers, they are no fewer.
LEMMA AcceptedStill ==
    ASSUME TypeOK, NEW j \in Jobs, Accepts(j),
           account'[j.target] = account[j.target], tier'[j.target] = tier[j.target],
           Guarded(j.op, j.target) => ActiveSupers \subseteq ActiveSupers'
    PROVE  /\ IF j.op \in Births THEN account'[j.target] = "unborn"
              ELSE account'[j.target] \in {"active", "disabled"}
           /\ j.op \notin Births => TierAllows(j.op, tier'[j.target], j.actorTier)
           /\ NotSelf(j)
           /\ Guarded(j.op, j.target)' => MoreThanOne(ActiveSupers')
           /\ j.op = "delete" => j.target \notin Referenced
  <1>1. ASSUME Guarded(j.op, j.target)'
        PROVE  MoreThanOne(ActiveSupers')
    <2>1. Guarded(j.op, j.target)
      BY <1>1 DEF Guarded
    <2>2. ActiveSupers \in SUBSET Users /\ ActiveSupers' \in SUBSET Users
      BY DEF ActiveSupers
    <2>3. QED  BY <2>1, <2>2, CountGrows DEF Accepts
  <1>2. QED  BY <1>1 DEF Accepts, Exists

\* The checks of a transaction hold until it commits: the row lock keeps its
\* target as it was, and SUPER_LOCK keeps others from removing supers that it
\* counted.
THEOREM ChecksStand == Spec => []ChecksHoldToTheEnd
<1>1. Init => ChecksHoldToTheEnd
  BY DEF Init, Idle, ChecksHoldToTheEnd
<1>2. ASSUME TypeOK, SupersInv, ChecksHoldToTheEnd, [Next]_vars
      PROVE  ChecksHoldToTheEnd'
  <2> SUFFICES ASSUME NEW v \in Workers, job'[v].step = "locked"
               PROVE  Accepts(job[v])'
    BY DEF ChecksHoldToTheEnd
  <2>1. ASSUME UNCHANGED <<account, tier>>, job'[v] = job[v]
        PROVE  Accepts(job[v])'
    BY <2>1, <1>2 DEF ChecksHoldToTheEnd, Accepts, Exists, Guarded, ActiveSupers
  <2>2. ASSUME NEW w \in Workers, LockRow(w), Accepts(job[w])
        PROVE  Accepts(job[v])'
    <3>1. /\ job' = [job EXCEPT ![w].step = "locked"]
          /\ UNCHANGED <<account, tier>>
      BY <2>2 DEF LockRow
    <3>2. CASE v = w
      <4>1. /\ job'[v].op = job[v].op /\ job'[v].target = job[v].target
            /\ job'[v].actor = job[v].actor /\ job'[v].actorTier = job[v].actorTier
        BY <3>1, <3>2, <1>2 DEF TypeOK, Jobs
      <4>2. QED  BY <2>2, <3>1, <3>2, <4>1
                 DEF Accepts, Exists, NotSelf, Guarded, ActiveSupers
    <3>3. CASE v # w
      BY <3>1, <3>3, <2>1, <1>2 DEF TypeOK
    <3>4. QED  BY <3>2, <3>3
  <2>3. ASSUME NEW w \in Workers, Rollback(w)
        PROVE  Accepts(job[v])'
    BY <2>3, <2>1, <1>2 DEF Rollback, End, Idle, TypeOK
  <2>4. ASSUME NEW w \in Workers, Commit(w), ActorRemains(job[w])
        PROVE  Accepts(job[v])'
    <3>1. Write(job[w]) /\ End(w) /\ job[w].step = "locked"
      BY <2>4 DEF Commit
    <3>2. v # w /\ job'[v] = job[v] /\ job[v].step = "locked"
      BY <3>1, <1>2 DEF TypeOK, End, Idle
    <3>3. job[w] \in Jobs /\ job[v] \in Jobs
      BY <1>2 DEF TypeOK
    <3>4. job[v].target # job[w].target
      BY <3>1, <3>2, <1>2 DEF SupersInv, RowsExclusive, RowIsTaken
    <3>5. /\ account'[job[v].target] = account[job[v].target]
          /\ tier'[job[v].target] = tier[job[v].target]
      BY <3>1, <3>3, <3>4, <1>2 DEF Write, TypeOK, Jobs
    <3>6. Guarded(job[v].op, job[v].target) => ActiveSupers \subseteq ActiveSupers'
      <4>1. ASSUME Guarded(job[v].op, job[v].target)
            PROVE  job[w].op \notin Removals
        <5>1. superLock = v
          BY <4>1, <3>2, <1>2 DEF SupersInv, LockDiscipline, Guarded, LockOps
        <5>2. QED  BY <5>1, <3>1, <3>2, <1>2
                   DEF SupersInv, LockDiscipline, Removals, LockOps
      <4>2. QED  BY <4>1, <3>1, <3>3, <1>2, WriteFrame
    <3>7. Accepts(job[v])
      BY <3>2, <1>2 DEF ChecksHoldToTheEnd
    <3>8. QED  BY <3>2, <3>3, <3>5, <3>6, <3>7, <1>2, AcceptedStill
               DEF Accepts, Exists, Guarded
  <2>5. CASE UNCHANGED vars
    BY <2>5, <2>1 DEF vars
  <2>6. ASSUME NEW w \in Workers, TakeSuperLock(w)
        PROVE  Accepts(job[v])'
    BY <2>6, <2>1, <1>2 DEF TakeSuperLock, TypeOK, Jobs
  <2>7. ASSUME NEW w \in Workers, NEW u, NEW op, NEW target, Authenticate(w, u, op, target)
        PROVE  Accepts(job[v])'
    BY <2>7, <2>1, <1>2 DEF Authenticate, TypeOK
  <2>8. QED  BY <1>2, <2>2, <2>3, <2>4, <2>5, <2>6, <2>7
             DEF Next, LockRow, Commit, DeadlockAbort
<1>3. QED  BY <1>1, <1>2, AccountTypes, ASuperRemains, PTL DEF Spec

\* There is an active super at all times, because the locks protect the last
\* one: buildDeletionCheck, setStatus and setTier count under SUPER_LOCK, and
\* no operation without that lock takes a super away.
THEOREM SupersRemain == Spec => []LocksProtectSupers
<1>1. SupersInv => LocksProtectSupers
  BY DEF SupersInv, LocksProtectSupers
<1>2. QED  BY <1>1, ASuperRemains, PTL

----------------------------------------------------------------------------
(* Member profiles: the invariant *)

\* A version of account u read with status s is what the account is now, or is
\* older; of an account that is no more, anything may be left.
Current(u, v, s) ==
    IF HasAccount(u) THEN /\ v <= row[u].version
                          /\ v = row[u].version => s = row[u].status
    ELSE u \in gone

CurrentRow(u, r) == Current(u, r.version, r.status)
CurrentDraft(d) == Current(d.of, d.version, d.seen)

\* An account that was deleted stays so, and whoever is listed is named.
AccountsOK ==
    /\ row \in [People -> Row \cup {None}]
    /\ held \in [People -> BOOLEAN]
    /\ gone \subseteq People
    /\ \A u \in gone : ~HasAccount(u)
    /\ PublicMembersAreNamed

PageCopies(p) ==
    /\ \A u \in People : p.rows[u] # None => CurrentRow(u, p.rows[u])
    /\ p.draft # None => CurrentDraft(p.draft)

PageOK(p) ==
    /\ PageTypeOK(p)
    /\ PageCopies(p)
    /\ p.dialog # None => PanelOpen(p)

PagesOK == DOMAIN page = Consoles /\ \A c \in Consoles : PageOK(page[c])

OwnOK ==
    /\ own \in [Owners -> Draft \cup {None}]
    /\ \A u \in Owners : own[u] # None => CurrentDraft(own[u])

\* A call that has its first lock can go on: the account is there, and what a
\* save was checked against is still true.
CallOK(c, t) ==
    /\ CallTypeOK(t)
    /\ c \in Owners <=> t.op = "own"
    /\ c \in Owners => t.to = c
    /\ t.op \in {"save", "own"} => /\ CurrentDraft(t.body)
                                   /\ t.step = "done" => CurrentRow(t.to, t.answer)
    /\ t.step = "profile" => t.op \in {"save", "own"} /\ Acceptable(t)
    /\ t.step = "user" => t.op \in UserFirst /\ HasAccount(t.to)

CallsOK == DOMAIN tx = Callers /\ \A c \in Callers : tx[c] # None => CallOK(c, tx[c])

\* A row is locked by one call at a time.
LocksOK ==
    \A c, d \in Callers, u \in People :
        \/ HoldsProfile(c, u) /\ HoldsProfile(d, u)
        \/ HoldsUser(c, u) /\ HoldsUser(d, u)
        => c = d

MembersInv ==
    /\ AccountsOK /\ PagesOK /\ OwnOK /\ CallsOK /\ LocksOK
    /\ calls \in 0..MaxCalls

----------------------------------------------------------------------------
(* Member profiles: copies *)

LEMMA DraftOfRow ==
    ASSUME NEW u \in People, NEW r \in Row
    PROVE  /\ DraftOf(u, r) \in Draft
           /\ DraftOf(u, r).of = u /\ DraftOf(u, r).version = r.version
           /\ DraftOf(u, r).seen = r.status
BY DEF DraftOf, Draft, Row

\* What a step may do to the accounts: a version stays with its status, or grows;
\* who is deleted is never there again.
AccountsAge ==
    \A u \in People :
        IF HasAccount(u)
        THEN IF row'[u] = None THEN u \in gone'
             ELSE \/ row[u].version < row'[u].version
                  \/ row'[u].version = row[u].version /\ row'[u].status = row[u].status
        ELSE u \in gone => u \in gone' /\ row'[u] = None

LEMMA CopiesAge ==
    ASSUME AccountsOK, AccountsOK', AccountsAge,
           NEW u \in People, NEW v \in Nat, NEW s, Current(u, v, s)
    PROVE  IF row'[u] # None THEN v <= row'[u].version /\ (v = row'[u].version => s = row'[u].status)
           ELSE u \in gone'
<1>1. CASE HasAccount(u) /\ row'[u] # None
  <2>1. row[u].version \in Nat /\ row'[u].version \in Nat
    BY <1>1 DEF AccountsOK, HasAccount, Row
  <2> QED
    BY <1>1, <2>1 DEF Current, AccountsAge
<1>2. CASE ~(HasAccount(u) /\ row'[u] # None)
  BY <1>2 DEF AccountsAge, Current, HasAccount
<1> QED
  BY <1>1, <1>2

LEMMA PagesAge ==
    ASSUME MembersInv, AccountsOK', AccountsAge, UNCHANGED page
    PROVE  PagesOK'
<1> SUFFICES ASSUME NEW c \in Consoles PROVE PageOK(page[c])'
  BY DEF MembersInv, PagesOK
<1>1. PageOK(page[c])
  BY DEF MembersInv, PagesOK
<1>2. PICK p \in Page : p = page[c] /\ page'[c] = p
  BY <1>1 DEF PageOK, PageTypeOK
<1>3. ASSUME NEW u \in People, p.rows[u] # None PROVE CurrentRow(u, page[c].rows[u])'
  <2>1. p.rows[u] \in Row
    BY <1>3 DEF Page
  <2>2. p.rows[u].version \in Nat /\ Current(u, p.rows[u].version, p.rows[u].status)
    BY <1>1, <1>2, <1>3, <2>1 DEF PageOK, PageCopies, CurrentRow, Row
  <2> QED
    BY <1>2, <2>2, CopiesAge DEF MembersInv, CurrentRow, Current, HasAccount
<1>4. ASSUME p.draft # None PROVE CurrentDraft(page[c].draft)'
  <2>1. p.draft \in Draft
    BY <1>4 DEF Page
  <2>2. /\ p.draft.version \in Nat /\ p.draft.of \in People
        /\ Current(p.draft.of, p.draft.version, p.draft.seen)
    BY <1>1, <1>2, <1>4, <2>1 DEF PageOK, PageCopies, CurrentDraft, Draft
  <2> QED
    BY <1>2, <2>2, CopiesAge DEF MembersInv, CurrentDraft, Current, HasAccount
<1> QED
  BY <1>1, <1>2, <1>3, <1>4
     DEF PageOK, PageTypeOK, PageCopies, EditorOpen, PanelOpen, Shown

LEMMA OwnAges ==
    ASSUME MembersInv, AccountsOK', AccountsAge, UNCHANGED own
    PROVE  OwnOK'
<1> SUFFICES ASSUME NEW u \in Owners, own[u] # None PROVE CurrentDraft(own[u])'
  BY DEF MembersInv, OwnOK
<1>1. PICK d \in Draft : d = own[u] /\ own'[u] = d
  BY DEF MembersInv, OwnOK
<1>2. d.version \in Nat /\ d.of \in People /\ Current(d.of, d.version, d.seen)
  BY <1>1 DEF MembersInv, OwnOK, CurrentDraft, Draft
<1> QED
  BY <1>1, <1>2, CopiesAge DEF MembersInv, CurrentDraft, Current, HasAccount

LEMMA NothingAges ==
    ASSUME MembersInv, UNCHANGED <<row, gone>>
    PROVE  AccountsAge
BY DEF AccountsAge, HasAccount, MembersInv, AccountsOK

----------------------------------------------------------------------------
(* Member profiles: the members page *)

LEMMA SettledOK ==
    ASSUME NEW q, NEW p \in Page, PageCopies(p), EditorOpen(q) => p.draft # None
    PROVE  PageOK(Settled(q, p))
<1> DEFINE u == Shown(p)
           off == u # None /\ p.rows[u].kind = "system" /\ p.tab = "profile"
           r == [p EXCEPT !.tab = IF off THEN "account" ELSE p.tab]
           fresh == ~EditorOpen(q) \/ Shown(q) # u \/ p.rows[u].version > p.draft.version
           d == IF ~EditorOpen(r) THEN None ELSE IF fresh THEN DraftOf(u, r.rows[u]) ELSE r.draft
           w == IF PanelOpen(r) THEN r.dialog ELSE None
           s == [r EXCEPT !.draft = d, !.dialog = w]
<1>1. Settled(q, p) = s
  BY DEF Settled
<1>2. u # None => u \in People /\ p.rows[u] \in Row
  BY DEF Shown, Page
<1>3. /\ r \in Page /\ r.rows = p.rows /\ r.selected = p.selected
      /\ r.draft = p.draft /\ r.dialog = p.dialog
  BY DEF Page, Tabs
<1>4. Shown(r) = u
  BY <1>3 DEF Shown
<1> HIDE DEF r
<1>5. EditorOpen(r) => u # None
  BY <1>4 DEF EditorOpen
<1>6. d \in Draft \cup {None} /\ (d # None => CurrentDraft(d)) /\ (EditorOpen(r) => d # None)
  <2>1. CASE ~EditorOpen(r)
    BY <2>1
  <2>2. CASE EditorOpen(r) /\ fresh
    <3>1. d = DraftOf(u, p.rows[u])
      BY <1>3, <2>2
    <3>2. u \in People /\ p.rows[u] \in Row /\ p.rows[u] # None
      BY <1>2, <1>5, <2>2, NoneIsNoRow
    <3> HIDE DEF d, u
    <3>3. /\ d \in Draft /\ d.of = u
          /\ d.version = p.rows[u].version /\ d.seen = p.rows[u].status
      BY <3>1, <3>2, DraftOfRow
    <3>4. CurrentRow(u, p.rows[u])
      BY <3>2 DEF PageCopies
    <3> QED
      BY <3>3, <3>4, NoneIsNoRow DEF CurrentRow, CurrentDraft
  <2>3. CASE EditorOpen(r) /\ ~fresh
    BY <1>3, <2>3 DEF PageCopies, Page
  <2> QED
    BY <2>1, <2>2, <2>3
<1> HIDE DEF d
<1>7. /\ s \in Page /\ s.rows = p.rows /\ s.selected = r.selected /\ s.tab = r.tab
      /\ s.draft = d /\ s.dialog = w
  BY <1>3, <1>6 DEF Page
<1> HIDE DEF s
<1>8. (EditorOpen(s) <=> EditorOpen(r)) /\ (PanelOpen(s) <=> PanelOpen(r))
  BY <1>3, <1>7 DEF EditorOpen, PanelOpen, Shown
<1> QED
  BY <1>1, <1>6, <1>7, <1>8 DEF PageOK, PageTypeOK, PageCopies

LEMMA TurnOK ==
    ASSUME MembersInv, UNCHANGED <<row, gone>>, NEW c \in Consoles, NEW p \in Page,
           PageCopies(p), EditorOpen(page[c]) => p.draft # None, Turn(c, p)
    PROVE  PagesOK'
<1>1. DOMAIN page = Consoles /\ \A d \in Consoles : PageOK(page[d])
  BY DEF MembersInv, PagesOK
<1>2. PICK s : s = Settled(page[c], p)
  OBVIOUS
<1>3. PageOK(s)
  BY <1>2, SettledOK
<1>4. page' = [page EXCEPT ![c] = s]
  BY <1>2 DEF Turn
<1>5. \A d \in Consoles : page'[d] = page[d] \/ page'[d] = s
  BY <1>1, <1>4
<1>6. ASSUME NEW d \in Consoles PROVE PageOK(page[d])'
  <2>1. PICK t : t = page'[d] /\ PageOK(t)
    BY <1>1, <1>3, <1>5
  <2> QED
    BY <2>1 DEF PageOK, PageTypeOK, PageCopies, CurrentRow, CurrentDraft, Current, HasAccount
<1> QED
  BY <1>1, <1>4, <1>6 DEF PagesOK

LEMMA CallStays ==
    ASSUME UNCHANGED <<row, gone>>, NEW c, NEW t, CallOK(c, t)
    PROVE  CallOK(c, t)'
<1>1. Acceptable(t)' <=> Acceptable(t)
  BY DEF Acceptable, Saved, HasAccount
<1>2. (CurrentDraft(t.body) <=> CurrentDraft(t.body)')
      /\ (CurrentRow(t.to, t.answer) <=> CurrentRow(t.to, t.answer)')
  BY DEF CurrentDraft, CurrentRow, Current, HasAccount
<1> QED
  BY <1>1, <1>2 DEF CallOK, CallTypeOK, HasAccount

LEMMA QuietCalls ==
    ASSUME MembersInv, UNCHANGED <<row, gone, tx>>
    PROVE  CallsOK' /\ LocksOK'
<1>1. ASSUME NEW c \in Callers, tx[c] # None PROVE CallOK(c, tx[c])'
  <2>1. PICK t : t = tx[c] /\ tx'[c] = t /\ CallOK(c, t)
    BY <1>1 DEF MembersInv, CallsOK
  <2>2. CallOK(c, t)'
    BY <2>1, CallStays
  <2> QED
    BY <2>1, <2>2
<1>2. LocksOK'
  BY DEF MembersInv, LocksOK, HoldsProfile, HoldsUser
<1> QED
  BY <1>1, <1>2 DEF MembersInv, CallsOK

\* The pages look and choose; nobody else's state changes.
LEMMA PageStep ==
    ASSUME MembersInv, UNCHANGED <<accounts, tx, own, calls>>, PagesOK'
    PROVE  MembersInv'
<1>1. AccountsOK' /\ UNCHANGED <<row, held, gone, tx, own, calls>>
  BY DEF accounts, MembersInv, AccountsOK, HasAccount, PublicMembersAreNamed
<1>2. OwnOK'
  BY <1>1, NothingAges, OwnAges
<1> QED
  BY <1>1, <1>2, QuietCalls DEF MembersInv

LEMMA PageFacts ==
    ASSUME MembersInv, NEW c \in Consoles
    PROVE  /\ page[c] \in Page /\ PageCopies(page[c]) /\ PageOK(page[c])
           /\ EditorOpen(page[c]) => page[c].draft # None
           /\ Shown(page[c]) # None => /\ Shown(page[c]) \in People
                                       /\ page[c].rows[Shown(page[c])] \in Row
<1>1. PageOK(page[c])
  BY DEF MembersInv, PagesOK
<1> QED
  BY <1>1 DEF PageOK, PageTypeOK, Shown, Page

\* An account as it is now is a copy that is current.
LEMMA RowIsCurrent ==
    ASSUME MembersInv, NEW u \in People, HasAccount(u)
    PROVE  row[u] \in Row /\ row[u] # None /\ CurrentRow(u, row[u])
BY DEF MembersInv, AccountsOK, HasAccount, CurrentRow, Current, Row

\* A page into which an answer with account u is merged.
LEMMA MergedOK ==
    ASSUME NEW p \in Page, PageCopies(p), NEW u \in People, NEW r \in Row, CurrentRow(u, r)
    PROVE  /\ Merged(p, u, r) \in Page /\ PageCopies(Merged(p, u, r))
           /\ p.draft # None => Merged(p, u, r).draft # None
<1> DEFINE k == IF p.rows[u] = None THEN None ELSE r
           d == IF p.draft = None THEN None ELSE DraftOf(u, r)
           m == [p EXCEPT !.rows[u] = k, !.draft = d]
<1>1. Merged(p, u, r) = m
  BY DEF Merged
<1>2. d \in Draft \cup {None} /\ (d # None => CurrentDraft(d)) /\ (p.draft # None => d # None)
  <2>1. CASE p.draft = None
    BY <2>1
  <2>2. CASE p.draft # None
    <3>1. d = DraftOf(u, r)
      BY <2>2
    <3> HIDE DEF d
    <3>2. d \in Draft /\ d.of = u /\ d.version = r.version /\ d.seen = r.status
      BY <3>1, DraftOfRow
    <3> QED
      BY <3>2, NoneIsNoRow DEF CurrentRow, CurrentDraft
  <2> QED
    BY <2>1, <2>2
<1> HIDE DEF d
<1>3. m \in Page /\ m.rows = [p.rows EXCEPT ![u] = k] /\ m.draft = d
  BY <1>2 DEF Page
<1>4. \A w \in People : m.rows[w] # None => CurrentRow(w, m.rows[w])
  BY <1>3 DEF Page, PageCopies
<1> QED
  BY <1>1, <1>2, <1>3, <1>4 DEF PageCopies

LEMMA LookStep ==
    ASSUME MembersInv, NEW c \in Consoles, Look(c)
    PROVE  MembersInv'
<1> DEFINE q == page[c]
           Shows(p) == /\ p \in Page /\ PageCopies(p) /\ Turn(c, p)
                       /\ EditorOpen(q) => p.draft # None
<1>1. /\ q \in Page /\ PageCopies(q) /\ PageOK(q)
      /\ EditorOpen(q) => q.draft # None
      /\ Shown(q) # None => Shown(q) \in People /\ q.rows[Shown(q)] \in Row
  BY PageFacts
<1>2. UNCHANGED <<accounts, tx, own, calls>>
  BY DEF Look, LoadMembers, Select, OpenTab, EditDraft, Reload, BeginCheck, CheckArrives,
         CloseDialog
<1>3. ASSUME NEW p, Shows(p) PROVE MembersInv'
  <2>1. UNCHANGED <<row, gone>>
    BY <1>2 DEF accounts
  <2>2. PagesOK'
    BY <1>3, <2>1, TurnOK
  <2> QED
    BY <1>2, <2>2, PageStep
<1>4. ASSUME NEW p \in Page, p.rows = q.rows, p.draft = q.draft, Turn(c, p)
      PROVE  MembersInv'
  BY <1>1, <1>3, <1>4 DEF PageCopies
<1>5. CASE LoadMembers(c)
  <2> DEFINE L(active) == [u \in People |-> IF u \in Filtered(active) THEN row[u] ELSE None]
             S(active, first) == IF q.selected \in Filtered(active) THEN q.selected ELSE first
  <2>0. PICK active \in Filters, first \in People \cup {None} :
           Turn(c, [q EXCEPT !.rows = L(active), !.selected = S(active, first)])
    BY <1>5 DEF LoadMembers, Filtered
  <2>1. PICK p : p = [q EXCEPT !.rows = L(active), !.selected = S(active, first)] /\ Turn(c, p)
    BY <2>0
  <2>2. \A u \in Filtered(active) : u \in People /\ HasAccount(u) /\ row[u] \in Row
                                    /\ CurrentRow(u, row[u])
    BY RowIsCurrent DEF Filtered
  <2>3. p \in Page /\ p.draft = q.draft
        /\ \A u \in People : p.rows[u] # None => u \in Filtered(active) /\ p.rows[u] = row[u]
    BY <1>1, <2>1, <2>2 DEF Page
  <2>4. \A u \in People : p.rows[u] # None => CurrentRow(u, p.rows[u])
    BY <2>2, <2>3
  <2>5. PageCopies(p)
    BY <1>1, <2>3, <2>4 DEF PageCopies
  <2>6. Shows(p)
    BY <1>1, <2>1, <2>3, <2>5
  <2> QED
    BY <1>3, <2>6
<1>6. ASSUME NEW u \in People, Select(c, u) PROVE MembersInv'
  <2>1. PICK p : /\ p = [q EXCEPT !.selected = u,
                                  !.tab = IF q.rows[u].kind = "system" THEN "account" ELSE "profile"]
                 /\ Turn(c, p)
    BY <1>6 DEF Select
  <2>2. p \in Page /\ p.rows = q.rows /\ p.draft = q.draft
    BY <1>1, <2>1 DEF Page, Tabs
  <2> QED
    BY <1>4, <2>1, <2>2
<1>7. ASSUME NEW t \in Tabs, OpenTab(c, t) PROVE MembersInv'
  <2>1. PICK p : p = [q EXCEPT !.tab = t] /\ Turn(c, p)
    BY <1>7 DEF OpenTab
  <2>2. p \in Page /\ p.rows = q.rows /\ p.draft = q.draft
    BY <1>1, <2>1 DEF Page
  <2> QED
    BY <1>4, <2>1, <2>2
<1>8. CASE EditDraft(c)
  <2>1. EditorOpen(q) /\ q.draft \in Draft /\ CurrentDraft(q.draft)
    BY <1>1, <1>8 DEF EditDraft, Page, PageCopies
  <2>2. PICK st \in Statuses, shown \in BOOLEAN, named \in BOOLEAN :
           Turn(c, [q EXCEPT !.draft.status = st, !.draft.public = shown, !.draft.named = named])
    BY <1>8 DEF EditDraft
  <2>3. PICK d : d = [q.draft EXCEPT !.status = st, !.public = shown, !.named = named]
    OBVIOUS
  <2>4. PICK p : p = [q EXCEPT !.draft = d]
    OBVIOUS
  <2>5. p = [q EXCEPT !.draft.status = st, !.draft.public = shown, !.draft.named = named]
    BY <1>1, <2>1, <2>3, <2>4 DEF Page, Draft
  <2>6. d \in Draft /\ d.of = q.draft.of /\ d.version = q.draft.version /\ d.seen = q.draft.seen
    BY <2>1, <2>3 DEF Draft
  <2>7. p \in Page /\ p.rows = q.rows /\ p.draft = d
    BY <1>1, <2>4, <2>6 DEF Page
  <2>8. CurrentDraft(d) /\ d # None
    BY <2>1, <2>6, NoneIsNoRow DEF CurrentDraft
  <2> QED
    BY <1>1, <1>3, <2>2, <2>5, <2>7, <2>8 DEF PageCopies
<1>9. CASE Reload(c)
  <2>1. Shown(q) \in People /\ HasAccount(Shown(q)) /\ Turn(c, Merged(q, Shown(q), row[Shown(q)]))
    BY <1>1, <1>9 DEF Reload, EditorOpen
  <2>2. row[Shown(q)] \in Row /\ CurrentRow(Shown(q), row[Shown(q)])
    BY <2>1, RowIsCurrent
  <2> QED
    BY <1>1, <1>3, <2>1, <2>2, MergedOK
<1>10. ASSUME NEW d \in [of : People, checked : BOOLEAN] \cup {None},
              Turn(c, [q EXCEPT !.dialog = d])
       PROVE  MembersInv'
  <2>1. PICK p : p = [q EXCEPT !.dialog = d] /\ Turn(c, p)
    BY <1>10
  <2>2. p \in Page /\ p.rows = q.rows /\ p.draft = q.draft
    BY <1>1, <2>1 DEF Page
  <2> QED
    BY <1>4, <2>1, <2>2
<1>11. CASE BeginCheck(c)
  BY <1>1, <1>10, <1>11 DEF BeginCheck, PanelOpen
<1>12. CASE CheckArrives(c)
  <2>1. q.dialog \in [of : People, checked : BOOLEAN]
        /\ Turn(c, [q EXCEPT !.dialog.checked = TRUE])
    BY <1>1, <1>12 DEF CheckArrives, Page
  <2>2. PICK d : d = [q.dialog EXCEPT !.checked = TRUE]
    OBVIOUS
  <2>3. d \in [of : People, checked : BOOLEAN]
    BY <2>1, <2>2
  <2>4. [q EXCEPT !.dialog.checked = TRUE] = [q EXCEPT !.dialog = d]
    BY <2>2
  <2> QED
    BY <1>10, <2>1, <2>3, <2>4
<1>13. CASE CloseDialog(c)
  BY <1>10, <1>13 DEF CloseDialog
<1> QED
  BY <1>5, <1>6, <1>7, <1>8, <1>9, <1>11, <1>12, <1>13 DEF Look

----------------------------------------------------------------------------
(* Member profiles: calls and their locks *)

\* What the holder of account u's profile relies on.
Spared(u) ==
    /\ row'[u] # None /\ row'[u].version = row[u].version
    /\ row'[u].public => row[u].public

\* A call of page c goes on as t, while the accounts age and those who hold a
\* lock keep what they rely on.
LEMMA CallStep ==
    ASSUME MembersInv, AccountsOK', AccountsAge, NEW c \in Callers, NEW t,
           tx' = [tx EXCEPT ![c] = t],
           t # None => CallOK(c, t)',
           t # None /\ t.step = "profile" => ProfileFree(t.to),
           t # None /\ t.step = "user" => UserFree(t.to),
           \A d \in Callers \ {c}, u \in People :
              /\ HoldsProfile(d, u) => Spared(u)
              /\ HoldsUser(d, u) => row'[u] # None
    PROVE  CallsOK' /\ LocksOK'
<1>1. DOMAIN tx = Callers /\ DOMAIN tx' = Callers /\ tx'[c] = t
      /\ \A d \in Callers \ {c} : tx'[d] = tx[d]
  BY DEF MembersInv, CallsOK
<1>2. ASSUME NEW d \in Callers, tx'[d] # None PROVE CallOK(d, tx[d])'
  <2>1. CASE d = c
    BY <1>1, <1>2, <2>1 DEF CallOK, CallTypeOK, Acceptable, Saved, CurrentRow, CurrentDraft,
                            Current, HasAccount
  <2>2. CASE d # c
    <3>1. PICK s : s = tx[d] /\ tx'[d] = s /\ s # None /\ CallOK(d, s)
      BY <1>1, <1>2, <2>2 DEF MembersInv, CallsOK
    <3>2. s.to \in People
      BY <3>1 DEF CallOK, CallTypeOK
    <3>3. ASSUME s.op \in {"save", "own"} PROVE CurrentDraft(s.body)'
      <4>1. s.body.version \in Nat /\ s.body.of \in People
            /\ Current(s.body.of, s.body.version, s.body.seen)
        BY <3>1, <3>3 DEF CallOK, CallTypeOK, Draft, CurrentDraft
      <4> QED
        BY <4>1, CopiesAge DEF MembersInv, CurrentDraft, Current, HasAccount
    <3>4. ASSUME s.op \in {"save", "own"}, s.step = "done" PROVE CurrentRow(s.to, s.answer)'
      <4>1. s.answer.version \in Nat /\ Current(s.to, s.answer.version, s.answer.status)
        BY <3>1, <3>4 DEF CallOK, CallTypeOK, Row, CurrentRow
      <4> QED
        BY <3>2, <4>1, CopiesAge DEF MembersInv, CurrentRow, Current, HasAccount
    <3>5. ASSUME s.step = "profile" PROVE s.op \in {"save", "own"} /\ Acceptable(s)'
      <4>1. s.op \in {"save", "own"} /\ Acceptable(s) /\ HoldsProfile(d, s.to) /\ s.body \in Draft
        BY <3>1, <3>5 DEF CallOK, CallTypeOK, HoldsProfile
      <4>2. Spared(s.to)
        BY <2>2, <3>2, <4>1
      <4>3. row[s.to] \in Row /\ row'[s.to] \in Row
        BY <3>2, <4>1, <4>2 DEF MembersInv, AccountsOK, Acceptable, HasAccount, Spared
      <4> QED
        BY <4>1, <4>2, <4>3 DEF Acceptable, Saved, Spared, HasAccount, Row, Draft
    <3>6. ASSUME s.step = "user" PROVE s.op \in UserFirst /\ HasAccount(s.to)'
      <4>1. s.op \in UserFirst /\ HoldsUser(d, s.to)
        BY <3>1, <3>6 DEF CallOK, HoldsUser
      <4> QED
        BY <2>2, <3>2, <4>1 DEF HasAccount
    <3>7. CallOK(d, s)'
      BY <3>1, <3>3, <3>4, <3>5, <3>6 DEF CallOK, CallTypeOK
    <3> QED
      BY <3>1, <3>7
  <2> QED
    BY <2>1, <2>2
<1>3. ASSUME NEW d \in Callers \ {c}, NEW u \in People
      PROVE  /\ ~(HoldsProfile(c, u)' /\ HoldsProfile(d, u)')
             /\ ~(HoldsUser(c, u)' /\ HoldsUser(d, u)')
  BY <1>1 DEF HoldsProfile, HoldsUser, ProfileFree, UserFree
<1>4. LocksOK'
  <2> SUFFICES ASSUME NEW d \in Callers, NEW e \in Callers, NEW u \in People, d # e
               PROVE  /\ ~(HoldsProfile(d, u)' /\ HoldsProfile(e, u)')
                      /\ ~(HoldsUser(d, u)' /\ HoldsUser(e, u)')
    BY DEF LocksOK
  <2>1. CASE d # c /\ e # c
    BY <1>1, <2>1 DEF MembersInv, LocksOK, HoldsProfile, HoldsUser
  <2> QED
    BY <1>3, <2>1
<1> QED
  BY <1>1, <1>2, <1>4 DEF CallsOK

\* A step that changes one call and no account.
LEMMA CallOnlyStep ==
    ASSUME MembersInv, UNCHANGED <<row, held, gone>>, NEW c \in Callers, NEW t,
           tx' = [tx EXCEPT ![c] = t], t # None => CallOK(c, t),
           t # None /\ t.step = "profile" => ProfileFree(t.to),
           t # None /\ t.step = "user" => UserFree(t.to)
    PROVE  AccountsOK' /\ CallsOK' /\ LocksOK'
<1>1. AccountsOK' /\ AccountsAge
  BY NothingAges DEF MembersInv, AccountsOK, HasAccount, PublicMembersAreNamed
<1>2. t # None => CallOK(c, t)'
  BY CallStays
<1>3. ASSUME NEW d \in Callers \ {c}, NEW u \in People
      PROVE  /\ HoldsProfile(d, u) => Spared(u)
             /\ HoldsUser(d, u) => row'[u] # None
  BY DEF MembersInv, CallsOK, CallOK, HoldsProfile, HoldsUser, Spared, Acceptable, HasAccount
<1> QED
  BY <1>1, <1>2, <1>3, CallStep

----------------------------------------------------------------------------
(* Member profiles: the transactions *)

LEMMA CallFacts ==
    ASSUME MembersInv, NEW c \in Callers, Busy(c)
    PROVE  /\ CallOK(c, tx[c]) /\ CallTypeOK(tx[c]) /\ tx[c].to \in People
           /\ \A st, a : /\ [tx EXCEPT ![c].step = st] =
                               [tx EXCEPT ![c] = [tx[c] EXCEPT !.step = st]]
                         /\ [tx EXCEPT ![c].step = st, ![c].answer = a] =
                               [tx EXCEPT ![c] = [tx[c] EXCEPT !.step = st, !.answer = a]]
BY DEF MembersInv, CallsOK, CallOK, CallTypeOK, Busy

\* A call that is asked for.
LEMMA SentOK ==
    ASSUME NEW c, NEW op \in Operations, NEW u \in People, NEW body,
           c \in Owners <=> op = "own", c \in Owners => u = c,
           op \in {"save", "own"} => body \in Draft /\ CurrentDraft(body),
           op \in {"kind", "create"} => body \in Kinds,
           op \in {"grant", "active"} => body \in BOOLEAN
    PROVE  CallOK(c, Call(op, u, body)) /\ Call(op, u, body).step = "sent"
<1> DEFINE t == Call(op, u, body)
<1>1. /\ t.op = op /\ t.to = u /\ t.body = body /\ t.step = "sent" /\ t.answer = None
      /\ t = [Call(t.op, t.to, t.body) EXCEPT !.step = t.step, !.answer = t.answer]
  BY DEF Call
<1> HIDE DEF t
<1>2. CallTypeOK(t)
  BY <1>1 DEF CallTypeOK, CallSteps
<1>3. CallOK(c, t)
  BY <1>1, <1>2 DEF CallOK
<1> QED
  BY <1>1, <1>3 DEF t

\* A call that goes on and is not done.
LEMMA MovedOK ==
    ASSUME NEW c, NEW t, CallOK(c, t), NEW st \in CallSteps, st # "done",
           st = "profile" => t.op \in {"save", "own"} /\ Acceptable(t),
           st = "user" => t.op \in UserFirst /\ HasAccount(t.to)
    PROVE  /\ CallOK(c, [t EXCEPT !.step = st])
           /\ [t EXCEPT !.step = st].step = st /\ [t EXCEPT !.step = st].to = t.to
<1> DEFINE n == [t EXCEPT !.step = st]
<1>1. t = [Call(t.op, t.to, t.body) EXCEPT !.step = t.step, !.answer = t.answer]
  BY DEF CallOK, CallTypeOK
<1>2. /\ n.op = t.op /\ n.to = t.to /\ n.body = t.body /\ n.step = st /\ n.answer = t.answer
      /\ n = [Call(n.op, n.to, n.body) EXCEPT !.step = n.step, !.answer = n.answer]
  BY <1>1 DEF Call
<1> HIDE DEF n
<1>3. CallTypeOK(n)
  BY <1>2 DEF CallOK, CallTypeOK
<1>4. Acceptable(n) <=> Acceptable(t)
  BY <1>2 DEF Acceptable, Saved
<1>5. CallOK(c, n)
  BY <1>2, <1>3, <1>4 DEF CallOK
<1> QED
  BY <1>2, <1>5 DEF n

LEMMA MoveStep ==
    ASSUME MembersInv, UNCHANGED <<row, held, gone, page, own, calls>>,
           NEW c \in Callers, Busy(c), NEW st \in CallSteps, st # "done", Step(c, st),
           st = "profile" => /\ tx[c].op \in {"save", "own"} /\ Acceptable(tx[c])
                             /\ ProfileFree(tx[c].to),
           st = "user" => tx[c].op \in UserFirst /\ HasAccount(tx[c].to) /\ UserFree(tx[c].to)
    PROVE  MembersInv'
<1>1. PICK t : t = tx[c] /\ CallOK(c, t)
  BY CallFacts
<1>2. PICK n : n = [t EXCEPT !.step = st]
  OBVIOUS
<1>3. tx' = [tx EXCEPT ![c] = n]
  BY <1>1, <1>2, CallFacts DEF Step
<1>4. CallOK(c, n) /\ n.step = st /\ n.to = t.to
  BY <1>1, <1>2, MovedOK
<1>5. AccountsOK' /\ CallsOK' /\ LocksOK'
  BY <1>1, <1>3, <1>4, CallOnlyStep
<1>6. PagesOK' /\ OwnOK'
  BY <1>5, NothingAges, PagesAge, OwnAges
<1> QED
  BY <1>5, <1>6 DEF MembersInv

LEMMA LockSteps ==
    ASSUME MembersInv, NEW c \in Callers, LockProfile(c) \/ LockUser(c) \/ Victim(c)
    PROVE  MembersInv'
<1>1. UNCHANGED <<row, held, gone, page, own, calls>>
  BY DEF LockProfile, LockUser, Victim, accounts
<1>2. CASE LockProfile(c)
  BY <1>1, <1>2, MoveStep DEF LockProfile, CallSteps
<1>3. CASE LockUser(c)
  BY <1>1, <1>3, MoveStep DEF LockUser, CallSteps
<1>4. CASE Victim(c)
  BY <1>1, <1>4, MoveStep DEF Victim, Deadlocked, CallSteps
<1> QED
  BY <1>2, <1>3, <1>4

\* A row that is written.
LEMMA RowWritten ==
    ASSUME MembersInv, NEW u \in People, u \notin gone, NEW r \in Row,
           row' = [row EXCEPT ![u] = r], gone' = gone, held' \in [People -> BOOLEAN],
           HasAccount(u) => \/ row[u].version < r.version
                            \/ row[u].version = r.version /\ row[u].status = r.status,
           r.public => r.named
    PROVE  /\ AccountsOK' /\ AccountsAge
           /\ row'[u] = r /\ r # None /\ \A w \in People \ {u} : row'[w] = row[w]
<1>1. row \in [People -> Row \cup {None}] /\ gone \subseteq People
  BY DEF MembersInv, AccountsOK
<1>2. row'[u] = r /\ r # None /\ \A w \in People \ {u} : row'[w] = row[w]
  BY <1>1, NoneIsNoRow
<1>3. row' \in [People -> Row \cup {None}]
  BY <1>1
<1>4. \A w \in gone' : row'[w] = None
  BY <1>1, <1>2 DEF MembersInv, AccountsOK, HasAccount
<1>5. PublicMembersAreNamed'
  BY <1>2 DEF MembersInv, AccountsOK, PublicMembersAreNamed, HasAccount
<1>6. AccountsAge
  BY <1>1, <1>2 DEF AccountsAge, HasAccount, MembersInv, AccountsOK
<1> QED
  BY <1>1, <1>2, <1>3, <1>4, <1>5, <1>6 DEF AccountsOK, HasAccount

\* A call that is done and answered with a.
LEMMA DoneStep ==
    ASSUME MembersInv, AccountsOK', AccountsAge, UNCHANGED <<page, own, calls>>,
           NEW c \in Callers, Busy(c), NEW u, u = tx[c].to, NEW a, Answer(c, a),
           tx[c].op \in {"save", "own"} => a \in Row /\ CurrentRow(u, a)',
           \A d \in Callers \ {c}, w \in People :
              /\ HoldsProfile(d, w) => Spared(w)
              /\ HoldsUser(d, w) => row'[w] # None
    PROVE  MembersInv'
<1>1. PICK t : t = tx[c] /\ CallOK(c, t)
  BY CallFacts
<1>2. PICK n : n = [t EXCEPT !.step = "done", !.answer = a]
  OBVIOUS
<1>3. tx' = [tx EXCEPT ![c] = n]
  BY <1>1, <1>2, CallFacts DEF Answer
<1>4. t = [Call(t.op, t.to, t.body) EXCEPT !.step = t.step, !.answer = t.answer]
  BY <1>1 DEF CallOK, CallTypeOK
<1>5. /\ n.op = t.op /\ n.to = t.to /\ n.body = t.body /\ n.step = "done" /\ n.answer = a
      /\ n = [Call(n.op, n.to, n.body) EXCEPT !.step = n.step, !.answer = n.answer]
  BY <1>2, <1>4 DEF Call
<1>6. CallTypeOK(n)
  BY <1>1, <1>5 DEF CallOK, CallTypeOK, CallSteps
<1>7. ASSUME n.op \in {"save", "own"}
      PROVE  CurrentDraft(n.body)' /\ CurrentRow(n.to, n.answer)'
  <2>1. /\ t.body.version \in Nat /\ t.body.of \in People
        /\ Current(t.body.of, t.body.version, t.body.seen)
    BY <1>1, <1>5, <1>7 DEF CallOK, CallTypeOK, Draft, CurrentDraft
  <2>2. CurrentDraft(n.body)'
    BY <1>5, <2>1, CopiesAge DEF MembersInv, CurrentDraft, Current, HasAccount
  <2>3. CurrentRow(n.to, n.answer)'
    BY <1>1, <1>5, <1>7
  <2> QED
    BY <2>2, <2>3
<1>8. CallOK(c, n)'
  BY <1>1, <1>5, <1>6, <1>7 DEF CallOK, CallTypeOK
<1>9. CallsOK' /\ LocksOK'
  BY <1>3, <1>5, <1>8, CallStep
<1> QED
  BY <1>9, PagesAge, OwnAges DEF MembersInv

\* What holds of the others while page c has account u locked.
LEMMA OthersWait ==
    ASSUME MembersInv, NEW c \in Callers, NEW u \in People,
           HoldsProfile(c, u) \/ (HoldsUser(c, u) /\ ProfileFree(u)), UserFree(u) \/ HoldsUser(c, u),
           NEW d \in Callers \ {c}
    PROVE  ~HoldsProfile(d, u) /\ ~HoldsUser(d, u)
BY DEF MembersInv, LocksOK, ProfileFree, UserFree

\* Whoever holds a lock on an account that does not change keeps what it relies on.
LEMMA HoldersKeep ==
    ASSUME MembersInv, NEW d \in Callers, NEW w \in People,
           HoldsProfile(d, w) \/ HoldsUser(d, w)
    PROVE  row[w] \in Row /\ row[w] # None
BY DEF MembersInv, CallsOK, CallOK, HoldsProfile, HoldsUser, Acceptable, HasAccount, AccountsOK

LEMMA SavedFacts ==
    ASSUME MembersInv, NEW t, CallTypeOK(t), t.op \in {"save", "own"}, Acceptable(t)
    PROVE  /\ Saved(t) \in Row /\ Saved(t).version = row[t.to].version + 1
           /\ Saved(t).public => Saved(t).named
           /\ t.to \in People /\ row[t.to] \in Row /\ HasAccount(t.to) /\ t.body \in Draft
           /\ Saved(t).status = IF t.op = "save" THEN t.body.status ELSE row[t.to].status
           /\ Saved(t).public = IF t.op = "save" THEN t.body.public ELSE row[t.to].public
<1>1. /\ t.to \in People /\ row[t.to] \in Row /\ HasAccount(t.to) /\ t.body \in Draft
      /\ Saved(t).public => t.body.named
  BY DEF MembersInv, AccountsOK, CallTypeOK, Acceptable, HasAccount
<1> DEFINE r == row[t.to]
           b == t.body
           v == r.version + 1
           st == IF t.op = "save" THEN b.status ELSE r.status
           pub == IF t.op = "save" THEN b.public ELSE r.public
<1>2. Saved(t) = [r EXCEPT !.named = b.named, !.version = v, !.status = st, !.public = pub]
  BY DEF Saved
<1>3. /\ r \in Row /\ b.named \in BOOLEAN /\ v \in Nat
      /\ st \in Statuses /\ pub \in BOOLEAN
  <2>1. r \in Row /\ b \in Draft
    BY <1>1
  <2>2. st \in Statuses /\ pub \in BOOLEAN
    <3>1. CASE t.op = "save"
      BY <2>1, <3>1 DEF Draft
    <3>2. CASE t.op # "save"
      BY <2>1, <3>2 DEF Row
    <3> QED
      BY <3>1, <3>2
  <2> QED
    BY <2>1, <2>2 DEF Row, Draft
<1> HIDE DEF v, st, pub, r, b
<1>4. /\ Saved(t) \in Row /\ Saved(t).version = v /\ Saved(t).named = b.named
      /\ Saved(t).status = st /\ Saved(t).public = pub
  BY <1>2, <1>3 DEF Row
<1> QED
  BY <1>1, <1>4 DEF v, st, pub, r, b

LEMMA CommitSaveStep ==
    ASSUME MembersInv, NEW c \in Callers, CommitSave(c)
    PROVE  MembersInv'
<1>1. /\ Busy(c) /\ tx[c].step = "profile" /\ UserFree(tx[c].to)
      /\ UNCHANGED <<held, gone, page, own, calls>>
  BY DEF CommitSave
<1>2. PICK t : t = tx[c] /\ CallOK(c, t)
  BY <1>1, CallFacts
<1>3. t.op \in {"save", "own"} /\ Acceptable(t) /\ CallTypeOK(t)
  BY <1>1, <1>2 DEF CallOK
<1>4. PICK r : r = Saved(t)
  OBVIOUS
<1>5. /\ r \in Row /\ r.version = row[t.to].version + 1 /\ (r.public => r.named)
      /\ t.to \in People /\ row[t.to] \in Row /\ HasAccount(t.to)
  BY <1>3, <1>4, SavedFacts
<1>6. row' = [row EXCEPT ![t.to] = r] /\ Answer(c, r)
  BY <1>2, <1>4 DEF CommitSave
<1>7. row[t.to].version < r.version /\ t.to \notin gone /\ held' \in [People -> BOOLEAN]
  BY <1>1, <1>5 DEF Row, MembersInv, AccountsOK
<1>8. /\ AccountsOK' /\ AccountsAge /\ row'[t.to] = r /\ r # None
      /\ \A w \in People \ {t.to} : row'[w] = row[w]
  BY <1>1, <1>5, <1>6, <1>7, RowWritten
<1>9. CurrentRow(t.to, r)'
  BY <1>5, <1>8 DEF CurrentRow, Current, HasAccount, Row
<1>10. HoldsProfile(c, t.to)
  BY <1>1, <1>2 DEF HoldsProfile, Busy
<1>11. ASSUME NEW d \in Callers \ {c}, NEW w \in People
       PROVE  /\ HoldsProfile(d, w) => Spared(w)
              /\ HoldsUser(d, w) => row'[w] # None
  <2>1. CASE w = t.to
    BY <1>1, <1>2, <1>10, <2>1, OthersWait
  <2>2. CASE w # t.to
    BY <1>8, <2>2, HoldersKeep DEF Spared
  <2> QED
    BY <2>1, <2>2
<1> QED
  BY <1>1, <1>2, <1>5, <1>6, <1>8, <1>9, <1>11, DoneStep

LEMMA CommitUserStep ==
    ASSUME MembersInv, NEW c \in Callers, CommitUser(c)
    PROVE  MembersInv'
<1>1. /\ Busy(c) /\ tx[c].step = "user" /\ UNCHANGED <<page, own, calls>>
      /\ ProfileFree(tx[c].to) \/ (tx[c].op = "kind" /\ tx[c].body = "person")
  BY DEF CommitUser
<1>2. PICK t, u : t = tx[c] /\ u = t.to /\ CallOK(c, t)
  BY <1>1, CallFacts
<1>3. /\ t.op \in UserFirst /\ HasAccount(u) /\ CallTypeOK(t) /\ u \in People
      /\ row[u] \in Row /\ u \notin gone /\ HoldsUser(c, u)
      /\ t.op \notin {"save", "own"}
  BY <1>1, <1>2 DEF CallOK, CallTypeOK, MembersInv, AccountsOK, HasAccount, HoldsUser, Busy,
                    UserFirst
<1>4. held \in [People -> BOOLEAN] /\ gone \subseteq People /\ row \in [People -> Row \cup {None}]
  BY DEF MembersInv, AccountsOK
<1>5. ASSUME NEW d \in Callers \ {c}
      PROVE  ~HoldsUser(d, u) /\ (ProfileFree(u) => ~HoldsProfile(d, u))
  BY <1>3 DEF MembersInv, LocksOK, ProfileFree
<1>6. ASSUME AccountsOK', AccountsAge, \A w \in People \ {u} : row'[w] = row[w],
             Answer(c, None), ProfileFree(u) \/ Spared(u)
      PROVE  MembersInv'
  <2>1. ASSUME NEW d \in Callers \ {c}, NEW w \in People
        PROVE  /\ HoldsProfile(d, w) => Spared(w)
               /\ HoldsUser(d, w) => row'[w] # None
    <3>1. CASE w = u
      BY <1>5, <1>6, <3>1
    <3>2. CASE w # u
      BY <1>6, <3>2, HoldersKeep DEF Spared
    <3> QED
      BY <3>1, <3>2
  <2> QED
    BY <1>1, <1>2, <1>3, <1>6, <2>1, DoneStep
<1>7. CASE ConvertToAlumni(c, tx[c].to)
  <2>1. PICK r : r = [row[u] EXCEPT !.status = "alumni", !.version = row[u].version + 1]
    OBVIOUS
  <2>2. PICK v : v = row[u].version + 1
    OBVIOUS
  <2>3. v \in Nat /\ row[u].version < v
    BY <1>3, <2>2 DEF Row
  <2>4. /\ r \in Row /\ r.version = v /\ r.public = row[u].public /\ r.named = row[u].named
    BY <1>3, <2>1, <2>2, <2>3 DEF Row, Statuses
  <2>5. row' = [row EXCEPT ![u] = r]
    BY <1>2, <1>3, <1>4, <1>7, <2>1 DEF ConvertToAlumni
  <2>6. /\ held' \in [People -> BOOLEAN] /\ gone' = gone /\ Answer(c, None)
        /\ ProfileFree(u) /\ (r.public => r.named)
    BY <1>1, <1>2, <1>3, <1>4, <1>7, <2>4
       DEF ConvertToAlumni, MembersInv, AccountsOK, PublicMembersAreNamed
  <2> QED
    BY <1>3, <1>6, <2>3, <2>4, <2>5, <2>6, RowWritten
<1>8. CASE SetAccountKind(c, tx[c].to)
  <2>1. PICK r : r = [row[u] EXCEPT !.kind = t.body,
                                    !.public = IF t.body = "system" THEN FALSE ELSE row[u].public]
    OBVIOUS
  <2>2. t.op = "kind" /\ t.body \in Kinds
    BY <1>2, <1>3, <1>8 DEF SetAccountKind, CallTypeOK
  <2>3. /\ r \in Row /\ r.version = row[u].version /\ r.status = row[u].status
        /\ r.named = row[u].named /\ (r.public => row[u].public)
    BY <1>3, <2>1, <2>2 DEF Row
  <2>4. row' = [row EXCEPT ![u] = r]
    BY <1>2, <1>3, <1>4, <1>8, <2>1 DEF SetAccountKind
  <2>5. /\ UNCHANGED <<held, gone>> /\ Answer(c, None) /\ (r.public => r.named)
    BY <1>2, <1>3, <1>8, <2>3 DEF SetAccountKind, MembersInv, AccountsOK, PublicMembersAreNamed
  <2>6. AccountsOK' /\ AccountsAge /\ row'[u] = r /\ r # None
        /\ \A w \in People \ {u} : row'[w] = row[w]
    BY <1>3, <1>4, <2>3, <2>4, <2>5, RowWritten
  <2>7. Spared(u)
    BY <2>3, <2>6 DEF Spared
  <2> QED
    BY <1>6, <2>5, <2>6, <2>7
<1>9. CASE SetPublicProfile(c, tx[c].to)
  <2>1. UNCHANGED <<held, gone>> /\ t.op # "kind"
    BY <1>2, <1>9 DEF SetPublicProfile
  <2>2. CASE Step(c, "failed") /\ UNCHANGED row
    BY <1>1, <2>1, <2>2, MoveStep DEF CallSteps
  <2>3. ASSUME NEW shown \in BOOLEAN, shown => row[u].named,
               Answer(c, None), row' = [row EXCEPT ![u].public = shown]
        PROVE  MembersInv'
    <3>1. PICK r : r = [row[u] EXCEPT !.public = shown]
      OBVIOUS
    <3>2. /\ r \in Row /\ r.version = row[u].version /\ r.status = row[u].status
          /\ r.named = row[u].named /\ r.public = shown
      BY <1>3, <3>1 DEF Row
    <3>3. row' = [row EXCEPT ![u] = r]
      BY <1>3, <1>4, <2>3, <3>1
    <3> QED
      BY <1>1, <1>2, <1>3, <1>4, <1>6, <2>1, <2>3, <3>2, <3>3, RowWritten
  <2> QED
    BY <1>2, <1>9, <2>2, <2>3 DEF SetPublicProfile
<1>10. CASE DeleteUser(c, tx[c].to)
  <2>1. /\ row' = [row EXCEPT ![u] = None] /\ held' = [held EXCEPT ![u] = FALSE]
        /\ gone' = gone \cup {u} /\ Answer(c, None) /\ ProfileFree(u)
    BY <1>1, <1>2, <1>10 DEF DeleteUser
  <2>2. row'[u] = None /\ \A w \in People \ {u} : row'[w] = row[w]
    BY <1>3, <1>4, <2>1
  <2>3. AccountsOK'
    BY <1>3, <1>4, <2>1, <2>2 DEF MembersInv, AccountsOK, HasAccount, PublicMembersAreNamed
  <2>4. AccountsAge
    BY <1>3, <1>4, <2>1, <2>2 DEF AccountsAge, HasAccount, MembersInv, AccountsOK
  <2> QED
    BY <1>6, <2>1, <2>2, <2>3, <2>4
<1> QED
  BY <1>7, <1>8, <1>9, <1>10 DEF CommitUser

LEMMA OneRowSteps ==
    ASSUME MembersInv, NEW c \in Callers, OneRow(c)
    PROVE  MembersInv'
<1>1. Busy(c) /\ tx[c].step = "sent" /\ UNCHANGED <<page, own, calls>>
  BY DEF OneRow
<1>2. PICK t, u : t = tx[c] /\ u = t.to /\ CallOK(c, t) /\ CallTypeOK(t) /\ u \in People
  BY <1>1, CallFacts
<1>3. held \in [People -> BOOLEAN] /\ gone \subseteq People /\ row \in [People -> Row \cup {None}]
  BY DEF MembersInv, AccountsOK
<1>4. ASSUME UNCHANGED <<row, held, gone>>, Step(c, "failed") PROVE MembersInv'
  BY <1>1, <1>4, MoveStep DEF CallSteps
<1>5. ASSUME AccountsOK', AccountsAge, Answer(c, None), t.op \notin {"save", "own"},
             \A w \in People \ {u} : row'[w] = row[w],
             HasAccount(u) => Spared(u)
      PROVE  MembersInv'
  <2>1. ASSUME NEW d \in Callers \ {c}, NEW w \in People
        PROVE  /\ HoldsProfile(d, w) => Spared(w)
               /\ HoldsUser(d, w) => row'[w] # None
    BY <1>5, HoldersKeep DEF Spared, HasAccount
  <2> QED
    BY <1>1, <1>2, <1>5, <2>1, DoneStep
<1>6. CASE ReplaceUserAssignments(c, tx[c].to)
  <2>1. t.op = "grant" /\ UNCHANGED <<row, gone>> /\ t.body \in BOOLEAN
    BY <1>2, <1>6 DEF ReplaceUserAssignments, CallTypeOK
  <2>2. CASE HasAccount(u)
    <3>1. held' \in [People -> BOOLEAN] /\ Answer(c, None)
      BY <1>2, <1>3, <1>6, <2>1, <2>2 DEF ReplaceUserAssignments
    <3>2. AccountsOK' /\ AccountsAge
      BY <2>1, <3>1, NothingAges DEF MembersInv, AccountsOK, HasAccount, PublicMembersAreNamed
    <3> QED
      BY <1>5, <2>1, <2>2, <3>1, <3>2 DEF Spared, HasAccount
  <2>3. CASE ~HasAccount(u)
    BY <1>2, <1>4, <1>6, <2>1, <2>3 DEF ReplaceUserAssignments
  <2> QED
    BY <2>2, <2>3
<1>7. CASE SetStatus(c, tx[c].to)
  <2>1. t.op = "active" /\ UNCHANGED <<held, gone>> /\ t.body \in BOOLEAN
    BY <1>2, <1>7 DEF SetStatus, CallTypeOK
  <2>2. CASE HasAccount(u)
    <3>1. row[u] \in Row /\ u \notin gone /\ (row[u].public => row[u].named)
      BY <1>2, <1>3, <2>2 DEF HasAccount, MembersInv, AccountsOK, PublicMembersAreNamed
    <3>2. PICK r : r = [row[u] EXCEPT !.active = t.body]
      OBVIOUS
    <3>3. /\ r \in Row /\ r.version = row[u].version /\ r.status = row[u].status
          /\ r.named = row[u].named /\ r.public = row[u].public
      BY <2>1, <3>1, <3>2 DEF Row
    <3>4. row' = [row EXCEPT ![u] = r] /\ Answer(c, None)
      BY <1>2, <1>3, <1>7, <2>2, <3>2 DEF SetStatus
    <3>5. AccountsOK' /\ AccountsAge /\ row'[u] = r /\ r # None
          /\ \A w \in People \ {u} : row'[w] = row[w]
      BY <1>2, <1>3, <2>1, <3>1, <3>3, <3>4, RowWritten
    <3>6. Spared(u)
      BY <3>3, <3>5 DEF Spared
    <3> QED
      BY <1>5, <2>1, <3>4, <3>5, <3>6
  <2>3. CASE ~HasAccount(u)
    BY <1>2, <1>4, <1>7, <2>1, <2>3 DEF SetStatus
  <2> QED
    BY <2>2, <2>3
<1>8. CASE CreateUser(c, tx[c].to)
  <2>1. t.op = "create" /\ UNCHANGED <<held, gone>> /\ t.body \in Kinds
    BY <1>2, <1>8 DEF CreateUser, CallTypeOK
  <2>2. CASE ~HasAccount(u) /\ u \notin gone
    <3>1. row' = [row EXCEPT ![u] = NewRow(t.body)] /\ Answer(c, None)
      BY <1>2, <1>8, <2>2 DEF CreateUser
    <3>2. NewRow(t.body) \in Row /\ ~NewRow(t.body).public
      BY <2>1 DEF NewRow, Row, Statuses
    <3>3. AccountsOK' /\ AccountsAge /\ \A w \in People \ {u} : row'[w] = row[w]
      BY <1>2, <1>3, <2>1, <2>2, <3>1, <3>2, RowWritten
    <3> QED
      BY <1>5, <2>1, <2>2, <3>1, <3>3
  <2>3. CASE HasAccount(u) \/ u \in gone
    BY <1>2, <1>4, <1>8, <2>1, <2>3 DEF CreateUser
  <2> QED
    BY <2>2, <2>3
<1> QED
  BY <1>6, <1>7, <1>8 DEF OneRow

LEMMA ServeStep ==
    ASSUME MembersInv, NEW c \in Callers, Serve(c)
    PROVE  MembersInv'
BY LockSteps, CommitSaveStep, CommitUserStep, OneRowSteps DEF Serve

----------------------------------------------------------------------------
(* Member profiles: questions and answers *)

\* Page c asks for an operation that is not an own save.
LEMMA SendStep ==
    ASSUME MembersInv, NEW c \in Consoles, Send(c)
    PROVE  MembersInv'
<1>1. /\ page[c] \in Page /\ PageCopies(page[c]) /\ PageOK(page[c])
      /\ EditorOpen(page[c]) => page[c].draft # None
      /\ Shown(page[c]) # None => /\ Shown(page[c]) \in People
                                  /\ page[c].rows[Shown(page[c])] \in Row
  BY PageFacts
<1>2. c \in Callers /\ c \notin Owners
  BY MembersAssumption DEF Callers
<1>3. PICK call \in OfferedCalls(page[c]) : Ask(c, call)
  BY DEF Send
<1> DEFINE Sent(op, u, body) ==
              /\ call = Call(op, u, body)
              /\ op = "save" => body \in Draft /\ CurrentDraft(body)
              /\ op \in {"kind", "create"} => body \in Kinds
              /\ op \in {"grant", "active"} => body \in BOOLEAN
<1>4. PICK op \in Operations \ {"own"}, u \in People : \E body : Sent(op, u, body)
  <2>1. CASE call \in CreateCalls
    BY <2>1 DEF CreateCalls, Operations
  <2>2. CASE call \in EditorCalls(page[c])
    <3>1. /\ Shown(page[c]) \in People /\ page[c].draft \in Draft /\ CurrentDraft(page[c].draft)
          /\ call = Call("save", Shown(page[c]), page[c].draft)
                \/ call = Call("convert", Shown(page[c]), None)
      BY <1>1, <2>2 DEF EditorCalls, EditorOpen, Page, PageCopies
    <3> QED
      BY <3>1 DEF Operations, UserFirst
  <2>3. CASE call \in AccountCalls(page[c])
    BY <1>1, <2>3 DEF AccountCalls, Operations, UserFirst
  <2>4. CASE call \in RolesCalls(page[c])
    BY <2>4 DEF RolesCalls, DetailsLoaded, Operations
  <2>5. CASE call \in SecurityCalls(page[c])
    <3>1. PanelOpen(page[c]) /\ Shown(page[c]) \in People /\ page[c].rows[Shown(page[c])] \in Row
      BY <1>1, <2>5 DEF SecurityCalls, PageOK, PanelOpen
    <3> DEFINE a == ~page[c].rows[Shown(page[c])].active
    <3>2. a \in BOOLEAN
      BY <3>1 DEF Row
    <3>3. call = Call("active", Shown(page[c]), a)
             \/ call = Call("delete", Shown(page[c]), page[c].dialog.of)
      BY <2>5 DEF SecurityCalls
    <3> HIDE DEF a
    <3> QED
      BY <3>1, <3>2, <3>3 DEF Operations, UserFirst
  <2>6. CASE call \in RouteCalls(page[c])
    BY <2>6 DEF RouteCalls, Operations, UserFirst
  <2> QED
    BY <2>1, <2>2, <2>3, <2>4, <2>5, <2>6 DEF OfferedCalls
<1>5. CallOK(c, call) /\ call.step = "sent"
  <2>1. PICK body : Sent(op, u, body)
    BY <1>4
  <2> QED
    BY <1>2, <2>1, SentOK
<1>6. UNCHANGED <<row, held, gone, page, own>> /\ tx' = [tx EXCEPT ![c] = call]
      /\ calls' \in 0..MaxCalls
  <2>1. UNCHANGED <<row, held, gone, page, own>>
    BY DEF Send, accounts
  <2>2. tx' = [tx EXCEPT ![c] = call] /\ calls < MaxCalls /\ calls' = calls + 1
    BY <1>3 DEF Ask
  <2>3. calls' \in 0..MaxCalls
    BY <2>2, MembersAssumption DEF MembersInv
  <2> QED
    BY <2>1, <2>2, <2>3
<1>7. AccountsOK' /\ CallsOK' /\ LocksOK'
  BY <1>2, <1>5, <1>6, CallOnlyStep
<1>8. PagesOK' /\ OwnOK'
  BY <1>6, <1>7, NothingAges, PagesAge, OwnAges
<1> QED
  BY <1>6, <1>7, <1>8 DEF MembersInv

\* A call is over: its page may turn, and an own draft begin anew.
LEMMA CallOver ==
    ASSUME MembersInv, UNCHANGED <<row, held, gone, calls>>, NEW c \in Callers,
           tx' = [tx EXCEPT ![c] = None], PagesOK', OwnOK'
    PROVE  MembersInv'
<1>1. AccountsOK' /\ CallsOK' /\ LocksOK'
  BY CallOnlyStep
<1> QED
  BY <1>1 DEF MembersInv

LEMMA DeliverStep ==
    ASSUME MembersInv, NEW c \in Consoles, Deliver(c)
    PROVE  MembersInv'
<1> DEFINE p == page[c]
           n == IF tx[c].step = "done" THEN Answered(p, tx[c]) ELSE p
<1>1. p \in Page /\ PageCopies(p) /\ (EditorOpen(p) => p.draft # None)
  BY PageFacts
<1>2. /\ c \in Callers /\ Busy(c) /\ Turn(c, n) /\ tx' = [tx EXCEPT ![c] = None]
      /\ UNCHANGED <<row, held, gone, own, calls>>
  BY DEF Deliver, Callers, accounts
<1>3. CallOK(c, tx[c]) /\ CallTypeOK(tx[c]) /\ tx[c].to \in People
  BY <1>2, CallFacts
<1>4. n \in Page /\ PageCopies(n) /\ (p.draft # None => n.draft # None)
  <2>1. CASE n = p
    BY <1>1, <2>1
  <2>2. CASE tx[c].step = "done" /\ tx[c].op = "save"
    <3>1. tx[c].answer \in Row /\ CurrentRow(tx[c].to, tx[c].answer)
      BY <1>3, <2>2 DEF CallOK, CallTypeOK
    <3>2. n = Merged(p, tx[c].to, tx[c].answer)
      BY <2>2 DEF Answered
    <3> QED
      BY <1>1, <1>3, <3>1, <3>2, MergedOK
  <2>3. CASE tx[c].step = "done" /\ tx[c].op = "create"
    <3>1. n = [p EXCEPT !.selected = tx[c].to]
      BY <2>3 DEF Answered
    <3> QED
      BY <1>1, <1>3, <3>1 DEF Page, PageCopies
  <2>4. CASE tx[c].step = "done" /\ tx[c].op = "delete"
    <3>1. n = [p EXCEPT !.rows[tx[c].to] = None, !.selected = None, !.dialog = None]
      BY <2>4 DEF Answered
    <3> HIDE DEF n
    <3> DEFINE k == [p.rows EXCEPT ![tx[c].to] = None]
    <3>2. k \in [People -> Row \cup {None}]
      BY <1>1, <1>3 DEF Page
    <3>3. n = [p EXCEPT !.rows = k, !.selected = None, !.dialog = None]
      BY <3>1
    <3>4. n \in Page /\ n.draft = p.draft /\ n.rows = [p.rows EXCEPT ![tx[c].to] = None]
      BY <1>1, <3>2, <3>3 DEF Page
    <3>5. \A u \in People : n.rows[u] # None => n.rows[u] = p.rows[u]
      BY <1>1, <3>4 DEF Page
    <3> QED
      BY <1>1, <3>4, <3>5 DEF PageCopies
  <2> QED
    BY <2>1, <2>2, <2>3, <2>4 DEF Answered
<1> HIDE DEF n
<1>5. PagesOK'
  BY <1>1, <1>2, <1>4, TurnOK
<1>6. OwnOK'
  BY <1>2 DEF MembersInv, OwnOK, CurrentDraft, Current, HasAccount
<1> QED
  BY <1>2, <1>5, <1>6, CallOver

LEMMA AnswerLostStep ==
    ASSUME MembersInv, NEW c \in Consoles, AnswerLost(c)
    PROVE  MembersInv'
<1>1. /\ c \in Callers /\ tx' = [tx EXCEPT ![c] = None]
      /\ UNCHANGED <<row, held, gone, page, own, calls>>
  BY DEF AnswerLost, Callers, accounts
<1>2. AccountsOK'
  BY <1>1 DEF MembersInv, AccountsOK, HasAccount, PublicMembersAreNamed
<1>3. PagesOK' /\ OwnOK'
  BY <1>1, <1>2, NothingAges, PagesAge, OwnAges
<1> QED
  BY <1>1, <1>3, CallOver

----------------------------------------------------------------------------
(* Member profiles: the page of one's own profile *)

LEMMA OwnWritten ==
    ASSUME MembersInv, UNCHANGED <<row, gone>>, NEW u \in Owners, NEW d \in Draft,
           CurrentDraft(d), own' = [own EXCEPT ![u] = d]
    PROVE  OwnOK'
<1>1. own' \in [Owners -> Draft \cup {None}]
  BY DEF MembersInv, OwnOK
<1>2. \A w \in Owners : own'[w] # None => CurrentDraft(own'[w])
  BY DEF MembersInv, OwnOK
<1> QED
  BY <1>1, <1>2 DEF OwnOK, CurrentDraft, Current, HasAccount

LEMMA OwnStep ==
    ASSUME MembersInv, NEW u \in Owners, Own(u)
    PROVE  MembersInv'
<1>1. u \in Callers /\ u \in People /\ u \notin Consoles
  BY MembersAssumption DEF Callers
<1>2. UNCHANGED <<row, held, gone, page>>
  BY DEF Own, OpenProfile, EditProfile, SaveProfile, ProfileSaved, accounts
<1>3. AccountsOK' /\ AccountsAge /\ PagesOK'
  BY <1>2, NothingAges, PagesAge DEF MembersInv, AccountsOK, HasAccount, PublicMembersAreNamed
<1>4. own[u] # None => own[u] \in Draft /\ CurrentDraft(own[u])
  BY DEF MembersInv, OwnOK
<1>5. CASE OpenProfile(u)
  <2>1. row[u] \in Row /\ CurrentRow(u, row[u])
    BY <1>1, <1>5, RowIsCurrent DEF OpenProfile
  <2>2. PICK d \in Draft : d = DraftOf(u, row[u]) /\ CurrentDraft(d)
    BY <1>1, <2>1, DraftOfRow DEF CurrentRow, CurrentDraft
  <2>3. OwnOK' /\ UNCHANGED <<accounts, tx, calls>>
    BY <1>2, <1>5, <2>2, OwnWritten DEF OpenProfile
  <2>4. CallsOK' /\ LocksOK'
    <3>1. UNCHANGED tx
      BY <2>3
    <3> QED
      BY <1>2, <3>1, QuietCalls
  <2> QED
    BY <1>3, <2>3, <2>4 DEF MembersInv
<1>6. CASE EditProfile(u)
  <2>1. PICK d : d = [own[u] EXCEPT !.named = ~own[u].named]
    OBVIOUS
  <2>2. d \in Draft /\ d.of = own[u].of /\ d.version = own[u].version /\ d.seen = own[u].seen
    BY <1>4, <1>6, <2>1 DEF EditProfile, Draft
  <2>3. own' = [own EXCEPT ![u] = d]
    BY <1>6, <2>1 DEF EditProfile, MembersInv, OwnOK
  <2>4. OwnOK' /\ UNCHANGED <<accounts, tx, calls>>
    BY <1>2, <1>4, <1>6, <2>2, <2>3, OwnWritten DEF EditProfile, CurrentDraft
  <2>5. CallsOK' /\ LocksOK'
    BY <1>2, <2>4, QuietCalls
  <2> QED
    BY <1>3, <2>4, <2>5 DEF MembersInv
<1>7. CASE SaveProfile(u)
  <2>1. PICK t : t = Call("own", u, own[u])
    OBVIOUS
  <2>2. /\ tx' = [tx EXCEPT ![u] = t] /\ UNCHANGED own /\ calls' \in 0..MaxCalls
    BY <1>7, <2>1, MembersAssumption DEF SaveProfile, Ask, MembersInv
  <2>3. CallOK(u, t) /\ t.step = "sent"
    BY <1>1, <1>4, <1>7, <2>1, SentOK DEF SaveProfile, Operations
  <2>4. CallsOK' /\ LocksOK'
    BY <1>1, <1>2, <2>2, <2>3, CallOnlyStep
  <2>5. OwnOK'
    BY <1>3, <2>2, OwnAges
  <2> QED
    BY <1>3, <2>2, <2>4, <2>5 DEF MembersInv
<1>8. CASE ProfileSaved(u)
  <2>1. Busy(u) /\ tx' = [tx EXCEPT ![u] = None] /\ calls' = calls
    BY <1>8 DEF ProfileSaved
  <2>2. CallOK(u, tx[u]) /\ CallTypeOK(tx[u]) /\ tx[u].op = "own" /\ tx[u].to = u
    BY <1>1, <2>1, CallFacts DEF CallOK
  <2>3. OwnOK'
    <3>1. CASE tx[u].step = "done"
      <4>1. tx[u].answer \in Row /\ CurrentRow(u, tx[u].answer)
        BY <2>2, <3>1 DEF CallOK, CallTypeOK
      <4>2. PICK d \in Draft : d = DraftOf(u, tx[u].answer) /\ CurrentDraft(d)
        BY <1>1, <4>1, DraftOfRow DEF CurrentRow, CurrentDraft
      <4> QED
        BY <1>2, <1>8, <3>1, <4>2, OwnWritten DEF ProfileSaved
    <3>2. CASE tx[u].step # "done"
      BY <1>3, <1>8, <3>2, OwnAges DEF ProfileSaved
    <3> QED
      BY <3>1, <3>2
  <2> QED
    BY <1>1, <1>2, <1>3, <2>1, <2>3, CallOver
<1> QED
  BY <1>5, <1>6, <1>7, <1>8 DEF Own

----------------------------------------------------------------------------
(* Member profiles: the theorems *)

LEMMA MembersInductive ==
    /\ MembersInit => MembersInv
    /\ MembersInv /\ [MembersNext]_membersVars => MembersInv'
<1>1. ASSUME MembersInit PROVE MembersInv
  <2>1. \A k \in Kinds : NewRow(k) \in Row /\ ~NewRow(k).public
    BY DEF NewRow, Row, Statuses
  <2>2. AccountsOK
    BY <1>1, <2>1 DEF MembersInit, AccountsOK, PublicMembersAreNamed, HasAccount, Kinds
  <2>3. PageOK(NoPage)
    BY DEF NoPage, PageOK, PageTypeOK, PageCopies, Page, Tabs, EditorOpen, PanelOpen, Shown
  <2>4. \A c \in Consoles : page[c] = NoPage
    BY <1>1 DEF MembersInit
  <2>5. PagesOK
    BY <1>1, <2>3, <2>4 DEF MembersInit, PagesOK
  <2>6. OwnOK /\ CallsOK /\ LocksOK /\ calls \in 0..MaxCalls
    BY <1>1, MembersAssumption DEF MembersInit, OwnOK, CallsOK, LocksOK, HoldsProfile, HoldsUser
  <2> QED
    BY <2>2, <2>5, <2>6 DEF MembersInv
<1>2. ASSUME MembersInv, [MembersNext]_membersVars PROVE MembersInv'
  <2>1. ASSUME NEW c \in Consoles, Look(c) \/ Send(c) \/ Deliver(c) \/ AnswerLost(c)
        PROVE  MembersInv'
    BY <1>2, <2>1, LookStep, SendStep, DeliverStep, AnswerLostStep
  <2>2. ASSUME NEW u \in Owners, Own(u) PROVE MembersInv'
    BY <1>2, <2>2, OwnStep
  <2>3. ASSUME NEW c \in Callers, Serve(c) PROVE MembersInv'
    BY <1>2, <2>3, ServeStep
  <2>4. CASE UNCHANGED membersVars
    <3>1. UNCHANGED <<row, held, gone, tx, page, own, calls>>
      BY <2>4 DEF membersVars
    <3>2. AccountsOK'
      BY <1>2, <3>1 DEF MembersInv, AccountsOK, HasAccount, PublicMembersAreNamed
    <3>3. PagesOK' /\ OwnOK' /\ CallsOK' /\ LocksOK'
      BY <1>2, <3>1, <3>2, NothingAges, PagesAge, OwnAges, QuietCalls
    <3> QED
      BY <1>2, <3>1, <3>2, <3>3 DEF MembersInv
  <2> QED
    BY <1>2, <2>1, <2>2, <2>3, <2>4 DEF MembersNext
<1> QED
  BY <1>1, <1>2

LEMMA MembersAlways == MembersSpec => []MembersInv
BY MembersInductive, PTL DEF MembersSpec

\* Type correctness of the accounts, the calls and the pages, for any number of
\* accounts, administrators and changes (user-admin, profileService and the
\* members page).
THEOREM MembersTypes == MembersSpec => []MembersTypeOK
<1>1. MembersInv => MembersTypeOK
  BY DEF MembersInv, AccountsOK, PagesOK, PageOK, OwnOK, CallsOK, CallOK, MembersTypeOK, Busy
<1> QED
  BY <1>1, MembersAlways, PTL

\* Whoever is listed is named (updateProfileInternal checks under the profile's
\* lock what setPublicProfile and setAccountKind change under both).
THEOREM ListedAreNamed == MembersSpec => []PublicMembersAreNamed
<1>1. MembersInv => PublicMembersAreNamed
  BY DEF MembersInv, AccountsOK
<1> QED
  BY <1>1, MembersAlways, PTL

\* What a step that changes an account of MembersInv is: one that creates it, or
\* a commit of a call that holds a lock on it.
LEMMA Commits ==
    ASSUME MembersInv, [MembersNext]_membersVars, NEW u \in People,
           HasAccount(u), row'[u] # None,
           row'[u].public # row[u].public \/ row'[u].status # row[u].status
    PROVE  \E c \in Callers :
              /\ tx[c] # None /\ tx[c].to = u
              /\ \/ CommitSave(c)
                 \/ tx[c].step = "user" /\ ConvertToAlumni(c, u)
                 \/ tx[c].step = "user" /\ SetAccountKind(c, u)
                 \/ tx[c].step = "user" /\ SetPublicProfile(c, u)
<1>1. PICK c \in Callers : Serve(c)
  <2>1. ASSUME NEW d \in Consoles, Look(d) \/ Send(d) \/ Deliver(d) \/ AnswerLost(d)
        PROVE  row' = row
    BY <2>1 DEF Look, LoadMembers, Select, OpenTab, EditDraft, Reload, BeginCheck, CheckArrives,
                CloseDialog, Send, Deliver, AnswerLost, accounts
  <2>2. ASSUME NEW w \in Owners, Own(w) PROVE row' = row
    BY <2>2 DEF Own, OpenProfile, EditProfile, SaveProfile, ProfileSaved, accounts
  <2> QED
    BY <2>1, <2>2 DEF MembersNext, membersVars
<1>2. row \in [People -> Row \cup {None}] /\ row[u] \in Row
  BY DEF MembersInv, AccountsOK, HasAccount
<1>3. ~(LockProfile(c) \/ LockUser(c) \/ Victim(c))
  BY DEF LockProfile, LockUser, Victim, accounts
<1>4. tx[c] # None /\ CallTypeOK(tx[c]) /\ tx[c].to \in People
  BY <1>1, <1>3, CallFacts DEF Serve, CommitSave, CommitUser, OneRow, Busy
<1>5. ~OneRow(c)
  <2>1. ~ReplaceUserAssignments(c, tx[c].to)
    BY DEF ReplaceUserAssignments
  <2>2. ~SetStatus(c, tx[c].to)
    BY <1>2, <1>4 DEF SetStatus, Row
  <2>3. ~CreateUser(c, tx[c].to)
    BY <1>2, <1>4 DEF CreateUser
  <2> QED
    BY <2>1, <2>2, <2>3 DEF OneRow
<1>6. tx[c].to = u
  <2> SUFFICES ASSUME tx[c].to # u PROVE row'[u] = row[u]
    OBVIOUS
  <2>1. CASE CommitSave(c)
    BY <1>2, <1>4, <2>1 DEF CommitSave
  <2>2. CASE CommitUser(c)
    BY <1>2, <1>4, <2>2
       DEF CommitUser, ConvertToAlumni, SetAccountKind, SetPublicProfile, DeleteUser
  <2> QED
    BY <1>1, <1>3, <1>5, <2>1, <2>2 DEF Serve
<1>7. ~DeleteUser(c, u)
  BY <1>2 DEF DeleteUser
<1> QED
  BY <1>1, <1>3, <1>4, <1>5, <1>6, <1>7 DEF Serve, CommitUser

LEMMA SaveCommits ==
    ASSUME MembersInv, NEW c \in Callers, CommitSave(c)
    PROVE  /\ CallOK(c, tx[c]) /\ CallTypeOK(tx[c]) /\ tx[c].op \in {"save", "own"}
           /\ Acceptable(tx[c]) /\ row'[tx[c].to] = Saved(tx[c]) /\ HoldsProfile(c, tx[c].to)
           /\ tx[c].op = "save" => c \in Consoles
<1>1. Busy(c) /\ tx[c].step = "profile"
  BY DEF CommitSave
<1>2. CallOK(c, tx[c]) /\ CallTypeOK(tx[c]) /\ tx[c].to \in People
  BY <1>1, CallFacts
<1>3. tx[c].op \in {"save", "own"} /\ Acceptable(tx[c])
  BY <1>1, <1>2 DEF CallOK
<1>4. row'[tx[c].to] = Saved(tx[c])
  BY <1>2 DEF CommitSave, MembersInv, AccountsOK
<1> QED
  BY <1>1, <1>2, <1>3, <1>4 DEF CallOK, HoldsProfile, Busy, Callers

LEMMA AnswerIsDone ==
    ASSUME MembersInv, NEW c \in Callers, Busy(c), NEW a, Answer(c, a)
    PROVE  tx'[c].step = "done"
<1>1. PICK t : t = tx[c] /\ t = [Call(t.op, t.to, t.body) EXCEPT !.step = t.step, !.answer = t.answer]
  BY CallFacts DEF CallTypeOK
<1>2. tx' = [tx EXCEPT ![c] = [t EXCEPT !.step = "done", !.answer = a]]
  BY <1>1, CallFacts DEF Answer
<1>3. [t EXCEPT !.step = "done", !.answer = a].step = "done"
  BY <1>1 DEF Call
<1> QED
  BY <1>2, <1>3 DEF MembersInv, CallsOK

\* Nobody who was hidden is listed again but by an administrator who asks for it
\* (setPublicProfile, or a save with the listing in its body).
THEOREM HiddenCorrect == MembersSpec => HiddenStayHidden
<1> DEFINE Listed(c, u) == /\ HoldsUser(c, u) \/ HoldsProfile(c, u)
                           /\ tx[c].op = "save" => tx[c].body.public
                           /\ tx[c].op \in {"save", "show"}
                           /\ tx'[c].step = "done"
           Hidden == \A u \in People :
              HasAccount(u) /\ ~row[u].public /\ row'[u] # None /\ row'[u].public
              => \E c \in Consoles : Listed(c, u)
<1>1. ASSUME MembersInv, [MembersNext]_membersVars PROVE Hidden
  <2> SUFFICES ASSUME NEW u \in People, HasAccount(u), ~row[u].public,
                      row'[u] # None, row'[u].public
               PROVE  \E c \in Consoles : Listed(c, u)
    OBVIOUS
  <2>1. PICK c \in Callers :
           /\ tx[c] # None /\ tx[c].to = u
           /\ \/ CommitSave(c)
              \/ tx[c].step = "user" /\ ConvertToAlumni(c, u)
              \/ tx[c].step = "user" /\ SetAccountKind(c, u)
              \/ tx[c].step = "user" /\ SetPublicProfile(c, u)
    BY <1>1, Commits
  <2>2. row \in [People -> Row \cup {None}] /\ row[u] \in Row
    BY <1>1 DEF MembersInv, AccountsOK, HasAccount
  <2>3. CASE CommitSave(c)
    <3>1. /\ CallTypeOK(tx[c]) /\ tx[c].op \in {"save", "own"} /\ Acceptable(tx[c])
          /\ row'[u] = Saved(tx[c]) /\ HoldsProfile(c, u) /\ (tx[c].op = "save" => c \in Consoles)
      BY <1>1, <2>1, <2>3, SaveCommits
    <3>2. row'[u].public = IF tx[c].op = "save" THEN tx[c].body.public ELSE row[u].public
      BY <1>1, <2>1, <3>1, SavedFacts
    <3>3. tx[c].op = "save" /\ tx[c].body.public
      BY <3>1, <3>2
    <3>4. tx'[c].step = "done"
      BY <1>1, <2>1, <2>3, AnswerIsDone DEF CommitSave
    <3> QED
      BY <3>1, <3>3, <3>4
  <2>4. ~ConvertToAlumni(c, u)
    BY <2>2 DEF ConvertToAlumni, Row
  <2>5. ~SetAccountKind(c, u)
    BY <2>2 DEF SetAccountKind, Row
  <2>6. CASE tx[c].step = "user" /\ SetPublicProfile(c, u)
    <3>1. tx[c].op = "show" /\ Answer(c, None)
      BY <2>2, <2>6 DEF SetPublicProfile, Row
    <3>2. tx'[c].step = "done" /\ HoldsUser(c, u)
      BY <1>1, <2>1, <2>6, <3>1, AnswerIsDone DEF Busy, HoldsUser
    <3>3. c \in Consoles
      BY <1>1, <2>1, <3>1 DEF MembersInv, CallsOK, CallOK, Callers
    <3> QED
      BY <3>1, <3>2, <3>3
  <2> QED
    BY <2>1, <2>3, <2>4, <2>5, <2>6
<1>2. MembersInv /\ [MembersNext]_membersVars => [Hidden]_membersVars
  BY <1>1
<1> HIDE DEF Hidden
<1>3. MembersSpec => [][Hidden]_membersVars
  BY <1>2, MembersAlways, PTL DEF MembersSpec
<1> QED
  BY <1>3 DEF HiddenStayHidden, Hidden, Listed

\* Only an administrator whose draft began from the converted profile makes an
\* alumnus a current member again (the version convertToAlumni moves on and
\* updateProfileInternal asks for).
THEOREM ConversionsCorrect == MembersSpec => ConversionsLast
<1> DEFINE Undone(c, u) == /\ HoldsProfile(c, u) /\ tx'[c].step = "done"
                           /\ tx[c].body.seen = "alumni" \/ tx[c].body.of # u
           Last == \A u \in People :
              HasAccount(u) /\ row[u].status = "alumni" /\ row'[u] # None
                 /\ row'[u].status = "current"
              => \E c \in Consoles : Undone(c, u)
<1>1. ASSUME MembersInv, [MembersNext]_membersVars PROVE Last
  <2> SUFFICES ASSUME NEW u \in People, HasAccount(u), row[u].status = "alumni",
                      row'[u] # None, row'[u].status = "current"
               PROVE  \E c \in Consoles : Undone(c, u)
    OBVIOUS
  <2>1. PICK c \in Callers :
           /\ tx[c] # None /\ tx[c].to = u
           /\ \/ CommitSave(c)
              \/ tx[c].step = "user" /\ ConvertToAlumni(c, u)
              \/ tx[c].step = "user" /\ SetAccountKind(c, u)
              \/ tx[c].step = "user" /\ SetPublicProfile(c, u)
    BY <1>1, Commits
  <2>2. row \in [People -> Row \cup {None}] /\ row[u] \in Row
    BY <1>1 DEF MembersInv, AccountsOK, HasAccount
  <2>3. ~ConvertToAlumni(c, u) /\ ~SetAccountKind(c, u) /\ ~SetPublicProfile(c, u)
    BY <2>2 DEF ConvertToAlumni, SetAccountKind, SetPublicProfile, Row
  <2>4. /\ CallOK(c, tx[c]) /\ CallTypeOK(tx[c]) /\ tx[c].op \in {"save", "own"}
        /\ Acceptable(tx[c]) /\ row'[u] = Saved(tx[c]) /\ HoldsProfile(c, u)
        /\ tx[c].op = "save" => c \in Consoles
    BY <1>1, <2>1, <2>3, SaveCommits
  <2>5. row'[u].status = IF tx[c].op = "save" THEN tx[c].body.status ELSE row[u].status
    BY <1>1, <2>1, <2>4, SavedFacts
  <2>6. c \in Consoles
    BY <2>4, <2>5
  <2>7. tx[c].body.of = u => tx[c].body.seen = "alumni"
    BY <2>1, <2>4 DEF CallOK, CurrentDraft, Current, Acceptable, HasAccount
  <2>8. tx'[c].step = "done"
    BY <1>1, <2>1, <2>3, AnswerIsDone DEF CommitSave
  <2> QED
    BY <2>4, <2>6, <2>7, <2>8
<1>2. MembersInv /\ [MembersNext]_membersVars => [Last]_membersVars
  BY <1>1
<1> HIDE DEF Last
<1>3. MembersSpec => [][Last]_membersVars
  BY <1>2, MembersAlways, PTL DEF MembersSpec
<1> QED
  BY <1>3 DEF ConversionsLast, Last, Undone
============================================================================
