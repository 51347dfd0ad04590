---------------------------- MODULE LockManager ----------------------------
(***************************************************************************)
(* Row locks and the life of a transaction: duck::LockManager,             *)
(* duck::TransactionManager and duck::Transaction.                         *)
(*                                                                         *)
(* One client thread drives each transaction (a Transaction has no latch   *)
(* of its own).  A lock call runs under LockManager::latch_, so it is one  *)
(* step up to the point where it blocks in the condition variable; a       *)
(* blocked call goes on when it is woken or when its second has passed.    *)
(* The order of a lock queue is never consulted by can_grant, so a queue   *)
(* is a set of requests.                                                   *)
(***************************************************************************)

CONSTANTS Tx,               \* transactions; also their ids
          RID               \* record ids

VARIABLES requests,         \* lock_table_[rid].requests
          shared_locks,     \* Transaction::shared_locks_
          exclusive_locks,  \* Transaction::exclusive_locks_
          state,            \* Transaction::state_
          undo_log,         \* rows with a record of undo_log_ not yet run
          active_txs,       \* keys of TransactionManager::active_txs_
          pc,               \* where the thread of a transaction is
          notified          \* blocked threads the queue's cv has signalled

lockVars == <<requests, shared_locks, exclusive_locks>>
txVars   == <<state, undo_log, active_txs>>
vars     == <<requests, shared_locks, exclusive_locks,
              state, undo_log, active_txs, pc, notified>>

-----------------------------------------------------------------------------
LockMode         == {"SHARED", "EXCLUSIVE"}
TransactionState == {"GROWING", "SHRINKING", "COMMITTED", "ABORTED"}
LockRequest      == [tx_id : Tx, lock_mode : LockMode, granted : BOOLEAN]

(* "unborn": not begun.  "ready": between two calls.  "waiting": blocked   *)
(* in a lock call.  The others are points inside commit() and abort().     *)
PC == {"unborn", "ready", "waiting", "commit.unlock", "commit.end",
       "abort.undo", "abort.unlock", "abort.end", "ended"}

TypeOK ==
  /\ requests \in [RID -> SUBSET LockRequest]
  /\ shared_locks \in [Tx -> SUBSET RID]
  /\ exclusive_locks \in [Tx -> SUBSET RID]
  /\ state \in [Tx -> TransactionState]
  /\ undo_log \in [Tx -> SUBSET RID]
  /\ active_txs \in SUBSET Tx
  /\ pc \in [Tx -> PC]
  /\ notified \in SUBSET Tx

-----------------------------------------------------------------------------
Request(t, m, g) == [tx_id |-> t, lock_mode |-> m, granted |-> g]

Held(t) == shared_locks[t] \cup exclusive_locks[t]

(* Mutants of can_grant: || for && in the mode test; no test of the mode   *)
(* that is already held.                                                   *)
can_grant_EitherShared(queue, t, m) ==
  \A q \in queue : q.granted /\ q.tx_id # t
                     => m = "SHARED" \/ q.lock_mode = "SHARED"
can_grant_OwnModeOnly(queue, t, m) ==
  \A q \in queue : q.granted /\ q.tx_id # t => m = "SHARED"

(* No granted request of another transaction stands in the way.  Requests *)
(* that are still waiting never do, whatever their place in the queue.     *)
can_grant(queue, t, m) ==
  \A q \in queue : q.granted /\ q.tx_id # t
                     => m = "SHARED" /\ q.lock_mode = "SHARED"

(* Mutant of Without: exclusive requests are not erased. *)
Without_SharedOnly(queue, t) ==
  {q \in queue : q.tx_id # t \/ q.lock_mode = "EXCLUSIVE"}

(* std::erase_if(queue.requests, tx_id == t) *)
Without(queue, t) == {q \in queue : q.tx_id # t}

(* The threads that wait on the condition variable of a queue. *)
Waiters(queue) == {t \in Tx : \E m \in LockMode : Request(t, m, FALSE) \in queue}

-----------------------------------------------------------------------------
Init ==
  /\ requests = [rid \in RID |-> {}]
  /\ shared_locks = [t \in Tx |-> {}]
  /\ exclusive_locks = [t \in Tx |-> {}]
  /\ state = [t \in Tx |-> "GROWING"]
  /\ undo_log = [t \in Tx |-> {}]
  /\ active_txs = {}
  /\ pc = [t \in Tx |-> "unborn"]
  /\ notified = {}

Begin(t) ==
  /\ pc[t] = "unborn"
  /\ active_txs' = active_txs \cup {t}
  /\ pc' = [pc EXCEPT ![t] = "ready"]
  /\ UNCHANGED <<lockVars, state, undo_log, notified>>

(* The request enters the queue and wait_for evaluates its predicate for   *)
(* the first time: granted on the spot, or the thread blocks.              *)
Enqueue(t, rid, m, queue) ==
  LET ok == can_grant(queue, t, m)
  IN  /\ requests' = [requests EXCEPT ![rid] = queue \cup {Request(t, m, ok)}]
      /\ pc' = [pc EXCEPT ![t] = IF ok THEN "ready" ELSE "waiting"]
      /\ UNCHANGED <<txVars, notified>>

(* Every lock call is refused, with no effect, once the state has left     *)
(* GROWING, and a lock that is already held is granted with no effect:     *)
(* those two returns are stuttering steps.                                 *)
LockShared(t, rid) ==
  LET queue == requests[rid] IN
  /\ pc[t] = "ready" /\ state[t] = "GROWING"
  /\ rid \notin Held(t)
  /\ Enqueue(t, rid, "SHARED", queue)
  /\ shared_locks' = IF can_grant(queue, t, "SHARED")
                     THEN [shared_locks EXCEPT ![t] = @ \cup {rid}]
                     ELSE shared_locks
  /\ UNCHANGED exclusive_locks

(* An upgrade gives the shared lock back before it waits, and tells nobody. *)
LockExclusive(t, rid) ==
  LET queue == IF rid \in shared_locks[t]
               THEN Without(requests[rid], t) ELSE requests[rid]
  IN
  /\ pc[t] = "ready" /\ state[t] = "GROWING"
  /\ rid \notin exclusive_locks[t]
  /\ Enqueue(t, rid, "EXCLUSIVE", queue)
  /\ shared_locks' = [shared_locks EXCEPT ![t] = @ \ {rid}]
  /\ exclusive_locks' = IF can_grant(queue, t, "EXCLUSIVE")
                        THEN [exclusive_locks EXCEPT ![t] = @ \cup {rid}]
                        ELSE exclusive_locks

(* A blocked call finds its predicate true, woken or at its deadline. *)
Grant(t, rid, m) ==
  LET request == Request(t, m, FALSE) IN
  /\ request \in requests[rid]
  /\ can_grant(requests[rid], t, m)
  /\ requests' = [requests EXCEPT ![rid] =
                    (@ \ {request}) \cup {Request(t, m, TRUE)}]
  /\ shared_locks' = IF m = "SHARED"
                     THEN [shared_locks EXCEPT ![t] = @ \cup {rid}]
                     ELSE shared_locks
  /\ exclusive_locks' = IF m = "EXCLUSIVE"
                        THEN [exclusive_locks EXCEPT ![t] = @ \cup {rid}]
                        ELSE exclusive_locks
  /\ pc' = [pc EXCEPT ![t] = "ready"]
  /\ notified' = notified \ {t}
  /\ UNCHANGED txVars

(* A signalled thread finds its predicate still false and blocks again. *)
SleepAgain(t, rid, m) ==
  /\ Request(t, m, FALSE) \in requests[rid]
  /\ t \in notified
  /\ ~can_grant(requests[rid], t, m)
  /\ notified' = notified \ {t}
  /\ UNCHANGED <<lockVars, txVars, pc>>

(* Mutants of TimeOut: the request stays in the queue; the other locks of  *)
(* the transaction are given back at once.                                 *)
TimeOut_KeepsRequest(t, rid, m) ==
  /\ Request(t, m, FALSE) \in requests[rid]
  /\ ~can_grant(requests[rid], t, m)
  /\ state' = [state EXCEPT ![t] = "ABORTED"]
  /\ pc' = [pc EXCEPT ![t] = "ready"]
  /\ UNCHANGED <<lockVars, undo_log, active_txs, notified>>
TimeOut_Unlocks(t, rid, m) ==
  /\ Request(t, m, FALSE) \in requests[rid]
  /\ ~can_grant(requests[rid], t, m)
  /\ requests' = [r \in RID |-> Without(requests[r], t)]
  /\ shared_locks' = [shared_locks EXCEPT ![t] = {}]
  /\ exclusive_locks' = [exclusive_locks EXCEPT ![t] = {}]
  /\ state' = [state EXCEPT ![t] = "ABORTED"]
  /\ pc' = [pc EXCEPT ![t] = "ready"]
  /\ notified' = (notified \cup UNION {Waiters(requests[r]) : r \in RID}) \ {t}
  /\ UNCHANGED <<undo_log, active_txs>>

(* Mutant of TimeOut: at the deadline the call starts to wait again. *)
TimeOut_WaitsAgain(t, rid, m) ==
  /\ Request(t, m, FALSE) \in requests[rid]
  /\ ~can_grant(requests[rid], t, m)
  /\ UNCHANGED vars

(* The second has passed and the predicate is false.  The call withdraws   *)
(* its request and marks the transaction ABORTED; the other locks, the     *)
(* undo log and the entry in active_txs_ stay as they are.                 *)
TimeOut(t, rid, m) ==
  LET request == Request(t, m, FALSE) IN
  /\ request \in requests[rid]
  /\ ~can_grant(requests[rid], t, m)
  /\ requests' = [requests EXCEPT ![rid] = @ \ {request}]
  /\ state' = [state EXCEPT ![t] = "ABORTED"]
  /\ pc' = [pc EXCEPT ![t] = "ready"]
  /\ notified' = (notified \ {t}) \cup Waiters(requests[rid] \ {request})
  /\ UNCHANGED <<shared_locks, exclusive_locks, undo_log, active_txs>>

(* Table changes a row it has locked exclusively and pushes an UndoRecord. *)
Write(t, rid) ==
  /\ pc[t] = "ready" /\ state[t] = "GROWING"
  /\ rid \in exclusive_locks[t]
  /\ undo_log' = [undo_log EXCEPT ![t] = @ \cup {rid}]
  /\ UNCHANGED <<lockVars, state, active_txs, pc, notified>>

(* Mutant of unlock_all: it signals the queues of exclusive locks only. *)
unlock_all_SignalsExclusive(t) ==
  /\ requests' = [rid \in RID |-> IF rid \in Held(t)
                                  THEN Without(requests[rid], t)
                                  ELSE requests[rid]]
  /\ notified' = notified \cup UNION {Waiters(Without(requests[rid], t)) :
                                         rid \in exclusive_locks[t]}
  /\ shared_locks' = [shared_locks EXCEPT ![t] = {}]
  /\ exclusive_locks' = [exclusive_locks EXCEPT ![t] = {}]

(* unlock_all: the requests of t leave the queues of every row it holds,   *)
(* and whoever waits on one of those queues is signalled.                  *)
unlock_all(t) ==
  /\ requests' = [rid \in RID |-> IF rid \in Held(t)
                                  THEN Without(requests[rid], t)
                                  ELSE requests[rid]]
  /\ notified' = notified \cup
                 UNION {Waiters(Without(requests[rid], t)) : rid \in Held(t)}
  /\ shared_locks' = [shared_locks EXCEPT ![t] = {}]
  /\ exclusive_locks' = [exclusive_locks EXCEPT ![t] = {}]

(* commit() and abort() look at no state: a transaction that a timeout has *)
(* marked ABORTED can be passed to either.                                 *)
Commit(t) ==
  /\ pc[t] = "ready"
  /\ state' = [state EXCEPT ![t] = "SHRINKING"]
  /\ pc' = [pc EXCEPT ![t] = "commit.unlock"]
  /\ UNCHANGED <<lockVars, undo_log, active_txs, notified>>

CommitUnlock(t) ==
  /\ pc[t] = "commit.unlock"
  /\ unlock_all(t)
  /\ pc' = [pc EXCEPT ![t] = "commit.end"]
  /\ UNCHANGED txVars

CommitEnd(t) ==
  /\ pc[t] = "commit.end"
  /\ state' = [state EXCEPT ![t] = "COMMITTED"]
  /\ active_txs' = active_txs \ {t}
  /\ pc' = [pc EXCEPT ![t] = "ended"]
  /\ UNCHANGED <<lockVars, undo_log, notified>>

(* Mutant of Abort: the locks are given back without running the undo log. *)
Abort_NoUndo(t) ==
  /\ pc[t] = "ready"
  /\ state' = [state EXCEPT ![t] = "SHRINKING"]
  /\ pc' = [pc EXCEPT ![t] = "abort.unlock"]
  /\ UNCHANGED <<lockVars, undo_log, active_txs, notified>>

Abort(t) ==
  /\ pc[t] = "ready"
  /\ state' = [state EXCEPT ![t] = "SHRINKING"]
  /\ pc' = [pc EXCEPT ![t] = "abort.undo"]
  /\ UNCHANGED <<lockVars, undo_log, active_txs, notified>>

(* Transaction::undo runs the records one after another, between the steps *)
(* of other threads, while every lock is still held.                       *)
AbortUndo(t) ==
  /\ pc[t] = "abort.undo"
  /\ \/ \E rid \in undo_log[t] :
          /\ undo_log' = [undo_log EXCEPT ![t] = @ \ {rid}]
          /\ UNCHANGED pc
     \/ /\ undo_log[t] = {}
        /\ pc' = [pc EXCEPT ![t] = "abort.unlock"]
        /\ UNCHANGED undo_log
  /\ UNCHANGED <<lockVars, state, active_txs, notified>>

AbortUnlock(t) ==
  /\ pc[t] = "abort.unlock"
  /\ unlock_all(t)
  /\ pc' = [pc EXCEPT ![t] = "abort.end"]
  /\ UNCHANGED txVars

AbortEnd(t) ==
  /\ pc[t] = "abort.end"
  /\ state' = [state EXCEPT ![t] = "ABORTED"]
  /\ active_txs' = active_txs \ {t}
  /\ pc' = [pc EXCEPT ![t] = "ended"]
  /\ UNCHANGED <<lockVars, undo_log, notified>>

-----------------------------------------------------------------------------
Client(t) == \/ Begin(t) \/ Commit(t) \/ Abort(t)
             \/ \E rid \in RID : \/ LockShared(t, rid)
                                 \/ LockExclusive(t, rid)
                                 \/ Write(t, rid)

(* What a call that is under way does without its caller. *)
Proceed(t) == \/ CommitUnlock(t) \/ CommitEnd(t)
              \/ AbortUndo(t) \/ AbortUnlock(t) \/ AbortEnd(t)

(* A blocked call at its deadline: wait_for evaluates the predicate once   *)
(* more and returns what it finds.                                         *)
WaitReturns(t) ==
  \E rid \in RID, m \in LockMode : Grant(t, rid, m) \/ TimeOut(t, rid, m)

Sleeps(t) == \E rid \in RID, m \in LockMode : SleepAgain(t, rid, m)

(* Every transaction has ended: nothing is left to do. *)
AllEnded == (\A t \in Tx : pc[t] = "ended") /\ UNCHANGED vars

Next == AllEnded \/ \E t \in Tx : \/ Client(t) \/ Proceed(t)
                                 \/ WaitReturns(t) \/ Sleeps(t)

Spec == Init /\ [][Next]_vars

(* A thread inside commit() or abort() keeps running, and a blocked call   *)
(* gets the latch after its deadline.  Clients owe nothing: a transaction  *)
(* may stay open for ever.                                                 *)
Fairness == \A t \in Tx : WF_vars(Proceed(t)) /\ WF_vars(WaitReturns(t))

FairSpec == Spec /\ Fairness

-----------------------------------------------------------------------------
(* Row exclusion, as the queues see it: two transactions hold granted      *)
(* requests on a row only if both are shared (can_grant, lock upgrades,    *)
(* late grants and withdrawals together).                                  *)
CompatibleHolders ==
  \A rid \in RID : \A p, q \in requests[rid] :
    p.granted /\ q.granted /\ p.tx_id # q.tx_id
      => p.lock_mode = "SHARED" /\ q.lock_mode = "SHARED"

(* The two records of who holds what, lock_table_ and the lock sets of the *)
(* transactions, agree at every step: unlock_all finds in the sets every   *)
(* granted request, so none is left behind in a queue.                     *)
LockSetsMatchQueues ==
  \A t \in Tx, rid \in RID :
    /\ rid \in shared_locks[t] <=> Request(t, "SHARED", TRUE) \in requests[rid]
    /\ rid \in exclusive_locks[t] <=> Request(t, "EXCLUSIVE", TRUE) \in requests[rid]

(* A transaction has at most one request on a row, and an ungranted one    *)
(* exactly while its thread is blocked, on one row only: an upgrade or a   *)
(* timeout leaves no second request behind.                                *)
OneRequestPerRow ==
  /\ \A rid \in RID : \A p, q \in requests[rid] : p.tx_id = q.tx_id => p = q
  /\ \A rid \in RID : \A q \in requests[rid] :
       ~q.granted => pc[q.tx_id] = "waiting"
  /\ \A r1, r2 \in RID : \A p \in requests[r1], q \in requests[r2] :
       ~p.granted /\ ~q.granted /\ p.tx_id = q.tx_id => r1 = r2

(* No lost wakeup: a blocked call whose predicate has become true has been *)
(* signalled, although an upgrade removes a granted request without        *)
(* notify_all.                                                             *)
NoLostWakeup ==
  \A rid \in RID, t \in Tx, m \in LockMode :
    Request(t, m, FALSE) \in requests[rid] /\ can_grant(requests[rid], t, m)
      => t \in notified

(* The rows t has changed and neither committed nor restored. *)
Uncommitted(t) ==
  IF pc[t] = "commit.end" \/ (pc[t] = "ended" /\ state[t] = "COMMITTED")
  THEN {} ELSE undo_log[t]

(* No dirty access: nobody else holds a lock, of either mode, on a row     *)
(* with a change that may still be undone - also after a lock timeout, and *)
(* while abort() runs the undo log.                                        *)
UncommittedRowsAreLocked ==
  \A t, u \in Tx : t # u => Uncommitted(t) \cap Held(u) = {}

(* A transaction that is not active has no request in any queue: nothing   *)
(* of it can block a later one.                                            *)
NothingLeftBehind ==
  \A t \in Tx \ active_txs : \A rid \in RID : \A q \in requests[rid] : q.tx_id # t

(* A held lock leaves its transaction only when the transaction has        *)
(* stopped growing, or as the shared half of an upgrade of that very row   *)
(* whose exclusive request is then in the queue.  A timeout releases none. *)
LocksLeaveAtTheEnd ==
  [][\A t \in Tx : \A rid \in Held(t) \ Held(t)' :
       \/ state[t] = "SHRINKING"
       \/ /\ rid \in shared_locks[t]
          /\ \E q \in requests'[rid] : q.tx_id = t /\ q.lock_mode = "EXCLUSIVE"]_vars

(* Every blocked lock call returns, also when transactions wait for each   *)
(* other in a circle: the deadline breaks the deadlock.                    *)
WaitEnds == \A t \in Tx : pc[t] = "waiting" ~> pc[t] # "waiting"

(* Who holds what implements the abstract row locks. *)
Holders(locks) == [rid \in RID |-> {t \in Tx : rid \in locks[t]}]

RL == INSTANCE RowLocks WITH readers <- Holders(shared_locks),
                             writers <- Holders(exclusive_locks)

(* The lock sets of the transactions behave as reader/writer locks: every  *)
(* step of the queues is a step of RowLocks or changes no lock.            *)
RowLocksSpec == RL!Spec

=============================================================================
