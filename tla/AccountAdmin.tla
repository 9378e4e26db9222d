---------------------------- MODULE AccountAdmin ----------------------------
(***************************************************************************)
(* Account administration (services/user-admin, services/permission-admin). *)
(* A request is authenticated first: the middleware reads the caller's tier *)
(* and permissions from the database, and the service trusts that copy to   *)
(* the end.  Its transaction comes later and takes up to three locks in     *)
(* turn: the advisory lock SUPER_LOCK, if the operation can cost the system *)
(* its last active super; the target's row (FOR UPDATE); and, when the      *)
(* audit entry is inserted, the actor's row, because audit_logs.actor_id is *)
(* a foreign key.  Other requests run between any two of these steps.       *)
(*                                                                          *)
(* revokeSessions and setAccountEmail lock nothing, run in no transaction   *)
(* and write nothing that is modelled here.  A user that was deleted keeps  *)
(* the values of a user that never was, except that its id is not used      *)
(* again.                                                                   *)
(***************************************************************************)
EXTENDS Naturals, FiniteSets

CONSTANTS Users,       \* the user ids the database may ever hand out (a bound)
          Root,        \* the super account the installation starts with
          Referenced,  \* users with business records, which block a deletion
          Offered,     \* the operations that are asked for (a bound)
          Workers,     \* requests the server handles at a time (a bound)
          NoWorker     \* the value of a free lock

ASSUME RootIsUser == Root \in Users
ASSUME UsersAreFinite == IsFiniteSet(Users)
ASSUME NoWorkerIsNotAWorker == NoWorker \notin Workers

VARIABLES account,    \* user -> "unborn", "active", "disabled" or "deleted"
          tier,       \* user -> base_tier
          manager,    \* user -> holds the permissions of the user administration
          job,        \* worker -> the request it is handling
          superLock   \* the worker whose transaction holds SUPER_LOCK

vars == <<account, tier, manager, job, superLock>>

----------------------------------------------------------------------------
(* Values *)

AccountStates == {"unborn", "active", "disabled", "deleted"}
Tiers == {"super", "normal"}

\* Operations whose transaction takes SUPER_LOCK, and those that lock the
\* target's row only: reset stands for resetPassword and setAccountKind, grant
\* and withdraw for the two outcomes of replaceUserAssignments.
LockOps == {"disable", "enable", "promote", "demote", "delete",
            "createSuper", "createNormal"}
RowOps == {"reset", "grant", "withdraw", "alumni", "importSuper", "importNormal"}
Ops == LockOps \cup RowOps

ASSUME OfferedAreOperations == Offered \subseteq Ops

Births == {"createSuper", "createNormal", "importSuper", "importNormal"}

Steps == {"idle", "ready", "guarded", "locked"}

Idle == [step |-> "idle", op |-> "reset", target |-> Root, actor |-> Root,
         actorTier |-> "normal"]

Jobs == [step : Steps, op : Ops, target : Users, actor : Users, actorTier : Tiers]

ActiveSupers == {u \in Users : account[u] = "active" /\ tier[u] = "super"}
Exists(u) == account[u] \in {"active", "disabled"}

----------------------------------------------------------------------------
(* The checks of the services *)

\* Before any query: who may ask for the operation at all.
MayAsk(op, t) ==
    op \in {"promote", "demote", "delete", "createSuper", "importSuper"} => t = "super"

\* Only a super may touch a super; nobody turns a super into an alumnus.
TierAllows(op, targetTier, actorTier) ==
    targetTier = "super" => actorTier = "super" /\ op # "alumni"

\* Nobody disables or deletes the own account, and a permission manager who is
\* not super does not give up the own permissions.
NotSelf(j) ==
    j.target = j.actor => /\ j.op \notin {"disable", "delete"}
                          /\ j.op = "withdraw" => j.actorTier = "super"

\* Mutant: the count is taken to be of the other supers.
CountsOthers(S) == Cardinality(S) > 0

\* count(*) of the active supers is more than one.
MoreThanOne(S) == Cardinality(S) > 1

\* When the operation may take away an active super.  setStatus counts for a
\* super that is already disabled, too.
Guarded(op, u) ==
    /\ tier[u] = "super"
    /\ \/ op = "disable"
       \/ op \in {"demote", "delete"} /\ account[u] = "active"

\* Whether the transaction of j goes on, once it has read the target's row.
Accepts(j) ==
    /\ IF j.op \in Births THEN account[j.target] = "unborn" ELSE Exists(j.target)
    /\ j.op \notin Births => TierAllows(j.op, tier[j.target], j.actorTier)
    /\ NotSelf(j)
    /\ Guarded(j.op, j.target) => MoreThanOne(ActiveSupers)
    /\ j.op = "delete" => j.target \notin Referenced

----------------------------------------------------------------------------
(* The writes *)

AccountAfter(op, old) ==
    IF op \in Births \cup {"enable"} THEN "active"
    ELSE IF op = "disable" THEN "disabled"
    ELSE IF op = "delete" THEN "deleted" ELSE old

TierAfter(op, old) ==
    IF op \in {"promote", "createSuper", "importSuper"} THEN "super"
    ELSE IF op \in {"demote", "delete"} THEN "normal" ELSE old

ManagerAfter(op, old) ==
    IF op = "grant" THEN TRUE
    ELSE IF op \in {"withdraw", "alumni", "delete"} THEN FALSE ELSE old

Write(j) ==
    /\ account' = [account EXCEPT ![j.target] = AccountAfter(j.op, @)]
    /\ tier' = [tier EXCEPT ![j.target] = TierAfter(j.op, @)]
    /\ manager' = [manager EXCEPT ![j.target] = ManagerAfter(j.op, @)]

End(w) == job' = [job EXCEPT ![w] = Idle]

\* COMMIT and ROLLBACK both release the advisory lock (it is transaction-level).
Release(w) == superLock' = IF superLock = w THEN NoWorker ELSE superLock

\* Mutant: a transaction that fails is begun again, however it failed.
TryAgain(w) ==
    /\ job' = [job EXCEPT ![w].step = "ready"]
    /\ Release(w)
    /\ UNCHANGED <<account, tier, manager>>

Rollback(w) ==
    /\ End(w) /\ Release(w)
    /\ UNCHANGED <<account, tier, manager>>

----------------------------------------------------------------------------
(* Steps *)

Init ==
    /\ account = [u \in Users |-> IF u = Root THEN "active" ELSE "unborn"]
    /\ tier = [u \in Users |-> IF u = Root THEN "super" ELSE "normal"]
    /\ manager = [u \in Users |-> FALSE]
    /\ job = [w \in Workers |-> Idle]
    /\ superLock = NoWorker

\* createAuthMiddleware and requirePermission: the caller is active, holds the
\* permission, and its tier is copied into the request.
Authenticate(w, u, op, target) ==
    /\ job[w].step = "idle"
    /\ account[u] = "active"
    /\ tier[u] = "super" \/ manager[u]
    /\ MayAsk(op, tier[u])
    /\ job' = [job EXCEPT ![w] = [step |-> "ready", op |-> op, target |-> target,
                                  actor |-> u, actorTier |-> tier[u]]]
    /\ UNCHANGED <<account, tier, manager, superLock>>

LockIsFree == superLock = NoWorker

\* pg_advisory_xact_lock(SUPER_LOCK).
TakeSuperLock(w) ==
    /\ job[w].step = "ready" /\ job[w].op \in LockOps
    /\ LockIsFree
    /\ superLock' = w
    /\ job' = [job EXCEPT ![w].step = "guarded"]
    /\ UNCHANGED <<account, tier, manager>>

\* Mutant: the rows are read without FOR UPDATE.
ReadsUnlocked(w, u) == FALSE

\* Some other transaction than that of w holds the row of u.
RowIsTaken(w, u) ==
    \E v \in Workers \ {w} : job[v].step = "locked" /\ job[v].target = u

\* SELECT ... FOR UPDATE of the target (or the INSERT that claims its unique
\* username), then every check.
LockRow(w) ==
    /\ \/ job[w].step = "guarded"
       \/ job[w].step = "ready" /\ job[w].op \in RowOps
    /\ ~RowIsTaken(w, job[w].target)
    /\ IF Accepts(job[w])
       THEN /\ job' = [job EXCEPT ![w].step = "locked"]
            /\ UNCHANGED <<account, tier, manager, superLock>>
       ELSE Rollback(w)

\* The audit entry's foreign key: the actor's row is still there.
ActorRemains(j) == Exists(j.actor)

\* The writes and the audit entry, whose foreign key waits for the actor's row
\* and fails when the actor has been deleted; then COMMIT.
Commit(w) ==
    /\ job[w].step = "locked"
    /\ ~RowIsTaken(w, job[w].actor)
    /\ IF ActorRemains(job[w])
       THEN Write(job[w]) /\ End(w) /\ Release(w)
       ELSE Rollback(w)

\* v waits for the row that w holds.
Blocks(w, v) ==
    /\ w # v
    /\ job[w].step = "locked" /\ job[v].step = "locked"
    /\ job[v].actor = job[w].target

\* PostgreSQL's deadlock detector ends one of the transactions in a cycle.
DeadlockAbort(w) ==
    /\ \E C \in SUBSET Workers :
          /\ w \in C
          /\ \A v \in C : (\E x \in C : Blocks(x, v)) /\ (\E x \in C : Blocks(v, x))
    /\ Rollback(w)

Next ==
    \E w \in Workers :
        \/ \E u, target \in Users, op \in Offered : Authenticate(w, u, op, target)
        \/ TakeSuperLock(w) \/ LockRow(w) \/ Commit(w) \/ DeadlockAbort(w)

Spec == Init /\ [][Next]_vars

\* PostgreSQL grants a lock to its waiters in order, so a transaction that
\* waits again and again gets it in the end: strong fairness of the steps that
\* wait.  The deadlock detector runs for every wait longer than deadlock_timeout.
FairSpec ==
    Spec /\ \A w \in Workers : /\ SF_vars(TakeSuperLock(w)) /\ SF_vars(LockRow(w))
                               /\ SF_vars(Commit(w)) /\ WF_vars(DeadlockAbort(w))

----------------------------------------------------------------------------
(* Properties *)

\* Every variable has its type.
TypeOK ==
    /\ account \in [Users -> AccountStates]
    /\ tier \in [Users -> Tiers]
    /\ manager \in [Users -> BOOLEAN]
    /\ job \in [Workers -> Jobs]
    /\ superLock \in Workers \cup {NoWorker}

\* Whatever disablings, demotions and deletions run at once, one active super
\* remains (buildDeletionCheck, setStatus, setTier and their SUPER_LOCK).
AlwaysAnActiveSuper == ActiveSupers # {}

\* Operations that can take an active super away.
Removals == {"disable", "demote", "delete"}

\* The transactions past SUPER_LOCK are the one that holds it.
LockDiscipline ==
    \A w \in Workers :
       /\ superLock = w <=> job[w].op \in LockOps /\ job[w].step \in {"guarded", "locked"}
       /\ job[w].step = "guarded" => job[w].op \in LockOps

RowsExclusive ==
    \A w \in Workers : job[w].step = "locked" => ~RowIsTaken(w, job[w].target)

\* What a transaction checked when it locked its target is still true when it
\* commits, whatever other transactions do in between: meanwhile nobody
\* makes its target a super, deletes it, gives its new name to another account
\* or takes away the supers it counted.  (The actor's tier is not among these: it
\* was read long before, by the middleware, and may be out of date.)
ChecksHoldToTheEnd == \A w \in Workers : job[w].step = "locked" => Accepts(job[w])

\* Why there is one: the advisory lock and the row locks are held by one
\* transaction at a time, so that two supers who disable, demote or delete each
\* other at the same moment do not both go.
LocksProtectSupers == LockDiscipline /\ RowsExclusive /\ AlwaysAnActiveSuper

\* Every request is answered: no lock is kept by a transaction that failed, and
\* requests that wait for each other's rows do not wait for ever.
EveryRequestEnds ==
    \A w \in Workers : job[w].step # "idle" ~> job[w].step = "idle"

=============================================================================
