------------------------- MODULE LockManager_proofs -------------------------
(***************************************************************************)
(* Theorems about LockManager, for any set of transactions and rows.       *)
(* IInv is the inductive invariant; each of its conjuncts has a lemma for  *)
(* one step, with one case per action that touches the conjunct's state.   *)
(***************************************************************************)
EXTENDS LockManager, TLAPS

(* What the thread's position says about the rest: a transaction whose     *)
(* locks are given back holds none, and active_txs_ lists the transactions *)
(* between begin() and the end of commit() or abort().                     *)
Phases ==
  \A t \in Tx :
    /\ pc[t] \in {"unborn", "commit.end", "abort.end", "ended"} => Held(t) = {}
    /\ pc[t] \notin {"unborn", "ended"} <=> t \in active_txs
    /\ pc[t] \in {"abort.unlock", "abort.end"} => undo_log[t] = {}
    /\ pc[t] \in {"commit.unlock", "commit.end", "abort.undo",
                  "abort.unlock", "abort.end"} => state[t] = "SHRINKING"

(* A change that is neither committed nor undone is on a row the           *)
(* transaction has locked exclusively.                                     *)
UncommittedAreExclusive == \A t \in Tx : Uncommitted(t) \subseteq exclusive_locks[t]

IInv == /\ TypeOK
        /\ Phases
        /\ OneRequestPerRow
        /\ LockSetsMatchQueues
        /\ CompatibleHolders
        /\ NoLostWakeup
        /\ UncommittedAreExclusive

-----------------------------------------------------------------------------
(* The actions that change neither the queues nor the lock sets.           *)
Bookkeeping(t) == \/ Begin(t) \/ Commit(t) \/ CommitEnd(t)
                  \/ Abort(t) \/ AbortUndo(t) \/ AbortEnd(t)
                  \/ \E rid \in RID : Write(t, rid)

Unlock(t) == CommitUnlock(t) \/ AbortUnlock(t)

(* Every step of Next is one of the kinds the proofs below go through. *)
LEMMA StepKinds ==
  ASSUME [Next]_vars
  PROVE  \/ UNCHANGED vars
         \/ \E t \in Tx :
              \/ Bookkeeping(t)
              \/ Unlock(t)
              \/ \E rid \in RID : LockShared(t, rid) \/ LockExclusive(t, rid)
              \/ \E rid \in RID, m \in LockMode :
                   Grant(t, rid, m) \/ SleepAgain(t, rid, m) \/ TimeOut(t, rid, m)
BY DEF Next, Client, Proceed, WaitReturns, Sleeps, AllEnded, Bookkeeping, Unlock

LEMMA RequestType ==
  ASSUME NEW t \in Tx, NEW m \in LockMode, NEW g \in BOOLEAN
  PROVE  Request(t, m, g) \in LockRequest
BY DEF Request, LockRequest

LEMMA RequestFields ==
  ASSUME NEW q \in LockRequest
  PROVE  q = Request(q.tx_id, q.lock_mode, q.granted)
BY DEF Request, LockRequest

(* A granted request is in the lock set of its mode. *)
LEMMA GrantedIsHeld ==
  ASSUME TypeOK, LockSetsMatchQueues, NEW rid \in RID, NEW q \in requests[rid], q.granted
  PROVE  \/ q.lock_mode = "SHARED" /\ rid \in shared_locks[q.tx_id]
         \/ q.lock_mode = "EXCLUSIVE" /\ rid \in exclusive_locks[q.tx_id]
<1>1. q \in LockRequest
  BY DEF TypeOK
<1>2. q.tx_id \in Tx /\ q.lock_mode \in LockMode /\ q.granted = TRUE
  BY <1>1 DEF LockRequest
<1>3. q = Request(q.tx_id, q.lock_mode, TRUE)
  BY <1>1, <1>2, RequestFields
<1>4. CASE q.lock_mode = "SHARED"
  BY <1>2, <1>3, <1>4 DEF LockSetsMatchQueues
<1>5. CASE q.lock_mode = "EXCLUSIVE"
  BY <1>2, <1>3, <1>5 DEF LockSetsMatchQueues
<1> QED
  BY <1>2, <1>4, <1>5 DEF LockMode

(* The initial states satisfy the inductive invariant. *)
LEMMA InitIInv == Init => IInv
BY DEF Init, IInv, TypeOK, Phases, OneRequestPerRow, LockSetsMatchQueues,
       CompatibleHolders, NoLostWakeup, UncommittedAreExclusive, Uncommitted,
       Held, Waiters, PC, TransactionState

-----------------------------------------------------------------------------
(* Every variable keeps its type, whatever a client does. *)
LEMMA TypeStep == TypeOK /\ [Next]_vars => TypeOK'
<1> SUFFICES ASSUME TypeOK, [Next]_vars PROVE TypeOK'
  OBVIOUS
<1> USE DEF TypeOK
<1>1. CASE UNCHANGED vars
  BY <1>1 DEF vars
<1>2. ASSUME NEW t \in Tx, Bookkeeping(t) PROVE TypeOK'
  BY <1>2 DEF Bookkeeping, Begin, Commit, CommitEnd, Abort, AbortUndo,
              AbortEnd, Write, lockVars, PC, TransactionState
<1>3. ASSUME NEW t \in Tx, Unlock(t) PROVE TypeOK'
  <2>1. requests' \in [RID -> SUBSET LockRequest]
    BY <1>3 DEF Unlock, CommitUnlock, AbortUnlock, unlock_all, Without
  <2> DEFINE woken == {Waiters(Without(requests[rid], t)) : rid \in Held(t)}
  <2>2. UNION woken \subseteq Tx
    <3>1. \A S \in woken : S \subseteq Tx
      BY DEF Waiters
    <3> QED
      BY <3>1
  <2> QED
    BY <1>3, <2>1, <2>2 DEF Unlock, CommitUnlock, AbortUnlock, unlock_all,
                            txVars, PC
<1>4. ASSUME NEW t \in Tx, NEW rid \in RID, LockShared(t, rid) PROVE TypeOK'
  <2>1. \A g \in BOOLEAN : Request(t, "SHARED", g) \in LockRequest
    BY RequestType DEF LockMode
  <2>2. can_grant(requests[rid], t, "SHARED") \in BOOLEAN
    BY DEF can_grant
  <2> QED
    BY <1>4, <2>1, <2>2 DEF LockShared, Enqueue, txVars, PC
<1>5. ASSUME NEW t \in Tx, NEW rid \in RID, LockExclusive(t, rid) PROVE TypeOK'
  <2> DEFINE queue == IF rid \in shared_locks[t]
                      THEN Without(requests[rid], t) ELSE requests[rid]
  <2>1. \A g \in BOOLEAN : Request(t, "EXCLUSIVE", g) \in LockRequest
    BY RequestType DEF LockMode
  <2>2. can_grant(queue, t, "EXCLUSIVE") \in BOOLEAN
    BY DEF can_grant
  <2>3. queue \subseteq LockRequest
    BY DEF Without
  <2> QED
    BY <1>5, <2>1, <2>2, <2>3 DEF LockExclusive, Enqueue, txVars, PC
<1>6. ASSUME NEW t \in Tx, NEW rid \in RID, NEW m \in LockMode, Grant(t, rid, m)
      PROVE  TypeOK'
  BY <1>6, RequestType DEF Grant, txVars, PC
<1>7. ASSUME NEW t \in Tx, NEW rid \in RID, NEW m \in LockMode, SleepAgain(t, rid, m)
      PROVE  TypeOK'
  BY <1>7 DEF SleepAgain, lockVars, txVars
<1>8. ASSUME NEW t \in Tx, NEW rid \in RID, NEW m \in LockMode, TimeOut(t, rid, m)
      PROVE  TypeOK'
  BY <1>8 DEF TimeOut, Waiters, PC, TransactionState
<1> QED
  BY <1>1, <1>2, <1>3, <1>4, <1>5, <1>6, <1>7, <1>8, StepKinds

-----------------------------------------------------------------------------
(* The position of a thread keeps saying what Phases says. *)
LEMMA PhasesStep == TypeOK /\ OneRequestPerRow /\ Phases /\ [Next]_vars => Phases'
<1> SUFFICES ASSUME TypeOK, OneRequestPerRow, Phases, [Next]_vars PROVE Phases'
  OBVIOUS
<1> USE DEF TypeOK, Phases, Held
<1>1. CASE UNCHANGED vars
  BY <1>1 DEF vars
<1>2. ASSUME NEW t \in Tx, Bookkeeping(t) PROVE Phases'
  BY <1>2 DEF Bookkeeping, Begin, Commit, CommitEnd, Abort, AbortUndo,
              AbortEnd, Write, lockVars
<1>3. ASSUME NEW t \in Tx, Unlock(t) PROVE Phases'
  BY <1>3 DEF Unlock, CommitUnlock, AbortUnlock, unlock_all, txVars
<1>4. ASSUME NEW t \in Tx, NEW rid \in RID, LockShared(t, rid) PROVE Phases'
  BY <1>4 DEF LockShared, Enqueue, txVars
<1>5. ASSUME NEW t \in Tx, NEW rid \in RID, LockExclusive(t, rid) PROVE Phases'
  BY <1>5 DEF LockExclusive, Enqueue, txVars
<1>6. ASSUME NEW t \in Tx, NEW rid \in RID, NEW m \in LockMode,
             Grant(t, rid, m) \/ SleepAgain(t, rid, m) \/ TimeOut(t, rid, m)
      PROVE  Phases'
  <2>1. pc[t] = "waiting"
    BY <1>6 DEF OneRequestPerRow, Request, Grant, SleepAgain, TimeOut
  <2> QED
    BY <1>6, <2>1 DEF Grant, SleepAgain, TimeOut, lockVars, txVars
<1> QED
  BY <1>1, <1>2, <1>3, <1>4, <1>5, <1>6, StepKinds
-----------------------------------------------------------------------------
(* Each transaction keeps at most one request per row, and an ungranted    *)
(* one only while it waits.                                                *)
LEMMA OneRequestStep ==
  TypeOK /\ OneRequestPerRow /\ LockSetsMatchQueues /\ [Next]_vars
    => OneRequestPerRow'
<1> SUFFICES ASSUME TypeOK, OneRequestPerRow, LockSetsMatchQueues, [Next]_vars
             PROVE  OneRequestPerRow'
  OBVIOUS
<1> USE DEF TypeOK, OneRequestPerRow
<1>1. CASE UNCHANGED <<requests, pc>>
  BY <1>1
<1>2. ASSUME NEW t \in Tx, Bookkeeping(t), ~UNCHANGED <<requests, pc>>
      PROVE  OneRequestPerRow'
  <2>1. UNCHANGED requests /\ pc[t] # "waiting" /\ \A u \in Tx \ {t} : pc'[u] = pc[u]
    BY <1>2 DEF Bookkeeping, Begin, Commit, CommitEnd, Abort, AbortUndo,
                AbortEnd, Write, lockVars
  <2>2. \A rid \in RID : \A q \in requests[rid] : q.tx_id \in Tx
    BY DEF LockRequest
  <2> QED
    BY <2>1, <2>2
<1>3. ASSUME NEW t \in Tx, Unlock(t) PROVE OneRequestPerRow'
  <2>1. \A rid \in RID : requests'[rid] \subseteq requests[rid]
    BY <1>3 DEF Unlock, CommitUnlock, AbortUnlock, unlock_all, Without
  <2>2. pc[t] # "waiting" /\ \A u \in Tx \ {t} : pc'[u] = pc[u]
    BY <1>3 DEF Unlock, CommitUnlock, AbortUnlock
  <2>3. \A rid \in RID : \A q \in requests[rid] : q.tx_id \in Tx
    BY DEF LockRequest
  <2> QED
    BY <2>1, <2>2, <2>3
<1>4. ASSUME NEW t \in Tx, NEW rid \in RID, NEW m \in LockMode, NEW ok \in BOOLEAN,
             \A r \in RID \ {rid} : requests'[r] = requests[r],
             \A q \in requests'[rid] : \/ q \in requests[rid] /\ q.tx_id # t
                                       \/ q = Request(t, m, ok),
             \A u \in Tx \ {t} : pc'[u] = pc[u],
             ok \/ pc'[t] = "waiting",
             \A r \in RID \ {rid} : \A q \in requests[r] : q.tx_id = t => q.granted
      PROVE  OneRequestPerRow'
  <2>1. Request(t, m, ok).tx_id = t /\ Request(t, m, ok).granted = ok
    BY DEF Request
  <2>2. \A r \in RID : \A q \in requests[r] : q.tx_id \in Tx
    BY DEF LockRequest
  <2>3. \A r \in RID : \A p, q \in requests'[r] : p.tx_id = q.tx_id => p = q
    BY <1>4, <2>1
  <2>4. \A r \in RID : \A q \in requests'[r] : ~q.granted => pc'[q.tx_id] = "waiting"
    BY <1>4, <2>1, <2>2
  <2>5. \A r1, r2 \in RID : \A p \in requests'[r1], q \in requests'[r2] :
          ~p.granted /\ ~q.granted /\ p.tx_id = q.tx_id => r1 = r2
    BY <1>4, <2>1
  <2> QED
    BY <2>3, <2>4, <2>5
<1>5. ASSUME NEW t \in Tx, NEW rid \in RID, NEW m \in LockMode, NEW queue,
             queue \subseteq requests[rid], \A q \in queue : q.tx_id # t,
             pc[t] = "ready", Enqueue(t, rid, m, queue)
      PROVE  OneRequestPerRow'
  <2> DEFINE ok == can_grant(queue, t, m)
  <2>1. ok \in BOOLEAN
    BY DEF can_grant
  <2>2. \A r \in RID \ {rid} : requests'[r] = requests[r]
    BY <1>5 DEF Enqueue
  <2>3. requests'[rid] = queue \cup {Request(t, m, ok)}
    BY <1>5 DEF Enqueue
  <2>4. (\A u \in Tx \ {t} : pc'[u] = pc[u]) /\ (ok \/ pc'[t] = "waiting")
    BY <1>5 DEF Enqueue
  <2>5. \A r \in RID : \A q \in requests[r] : q.tx_id = t => q.granted
    BY <1>5
  <2> HIDE DEF ok
  <2> QED
    BY <1>4, <1>5, <2>1, <2>2, <2>3, <2>4, <2>5
<1>6. ASSUME NEW t \in Tx, NEW rid \in RID, LockShared(t, rid)
      PROVE  OneRequestPerRow'
  <2>1. \A q \in requests[rid] : q.tx_id # t
    <3> SUFFICES ASSUME NEW q \in requests[rid], q.tx_id = t PROVE FALSE
      OBVIOUS
    <3>1. q.granted
      BY <1>6 DEF LockShared
    <3> QED
      BY <1>6, <3>1, GrantedIsHeld DEF LockShared, Held
  <2> QED
    BY <1>5, <1>6, <2>1 DEF LockShared, LockMode
<1>7. ASSUME NEW t \in Tx, NEW rid \in RID, LockExclusive(t, rid)
      PROVE  OneRequestPerRow'
  <2> DEFINE queue == IF rid \in shared_locks[t]
                      THEN Without(requests[rid], t) ELSE requests[rid]
  <2>1. queue \subseteq requests[rid]
    BY DEF Without
  <2>2. \A q \in queue : q.tx_id # t
    <3> SUFFICES ASSUME NEW q \in requests[rid], q.tx_id = t, rid \notin shared_locks[t]
                 PROVE  FALSE
      BY DEF Without
    <3>1. q.granted
      BY <1>7 DEF LockExclusive
    <3> QED
      BY <1>7, <3>1, GrantedIsHeld DEF LockExclusive
  <2>3. pc[t] = "ready" /\ Enqueue(t, rid, "EXCLUSIVE", queue)
    BY <1>7 DEF LockExclusive
  <2> HIDE DEF queue
  <2> QED
    BY <1>5, <2>1, <2>2, <2>3 DEF LockMode
<1>8. ASSUME NEW t \in Tx, NEW rid \in RID, NEW m \in LockMode, Grant(t, rid, m)
      PROVE  OneRequestPerRow'
  <2>1. Request(t, m, FALSE) \in requests[rid] /\ Request(t, m, FALSE).tx_id = t
        /\ ~Request(t, m, FALSE).granted
    BY <1>8 DEF Grant, Request
  <2>2. /\ \A r \in RID \ {rid} : requests'[r] = requests[r]
        /\ requests'[rid] = (requests[rid] \ {Request(t, m, FALSE)})
                             \cup {Request(t, m, TRUE)}
        /\ \A u \in Tx \ {t} : pc'[u] = pc[u]
    BY <1>8 DEF Grant
  <2>3. \A r \in RID \ {rid} : \A q \in requests[r] : q.tx_id = t => q.granted
    BY <2>1
  <2>4. \A q \in requests'[rid] : \/ q \in requests[rid] /\ q.tx_id # t
                                  \/ q = Request(t, m, TRUE)
    <3> SUFFICES ASSUME NEW q \in requests[rid], q # Request(t, m, FALSE)
                 PROVE  q.tx_id # t
      BY <2>2
    <3> QED
      BY <2>1
  <2>5. Request(t, m, TRUE).tx_id = t /\ Request(t, m, TRUE).granted
    BY DEF Request
  <2>6. \A r \in RID : \A q \in requests[r] : q.tx_id \in Tx
    BY DEF LockRequest
  <2>7. ASSUME NEW r \in RID, NEW p \in requests'[r], NEW q \in requests'[r],
               p.tx_id = q.tx_id
        PROVE  p = q
    <3>1. CASE r = rid
      BY <2>4, <2>5, <2>7, <3>1
    <3>2. CASE r # rid
      BY <2>2, <2>7, <3>2
    <3> QED
      BY <3>1, <3>2
  <2>8. \A r \in RID : \A q \in requests'[r] : ~q.granted => q \in requests[r] /\ q.tx_id # t
    BY <2>2, <2>3, <2>4, <2>5
  <2> QED
    BY <2>2, <2>6, <2>7, <2>8
<1>9. ASSUME NEW t \in Tx, NEW rid \in RID, NEW m \in LockMode, TimeOut(t, rid, m)
      PROVE  OneRequestPerRow'
  <2>1. Request(t, m, FALSE) \in requests[rid] /\ Request(t, m, FALSE).tx_id = t
        /\ ~Request(t, m, FALSE).granted
    BY <1>9 DEF TimeOut, Request
  <2>2. /\ \A r \in RID \ {rid} : requests'[r] = requests[r]
        /\ requests'[rid] = requests[rid] \ {Request(t, m, FALSE)}
        /\ \A u \in Tx \ {t} : pc'[u] = pc[u]
    BY <1>9 DEF TimeOut
  <2>3. \A r \in RID : requests'[r] \subseteq requests[r]
    BY <2>2
  <2>4. \A r \in RID : \A q \in requests'[r] : q.tx_id \in Tx
    BY <2>3 DEF LockRequest
  <2>5. \A r \in RID : \A q \in requests'[r] : q.tx_id = t => q.granted
    <3> SUFFICES ASSUME NEW r \in RID, NEW q \in requests'[r], q.tx_id = t, ~q.granted
                 PROVE  FALSE
      OBVIOUS
    <3>1. q \in requests[r] /\ r = rid
      BY <2>1, <2>3
    <3>2. q = Request(t, m, FALSE)
      BY <2>1, <3>1
    <3> QED
      BY <2>2, <3>1, <3>2
  <2> QED
    BY <2>2, <2>3, <2>4, <2>5
<1>10. ASSUME NEW t \in Tx, NEW rid \in RID, NEW m \in LockMode, SleepAgain(t, rid, m)
       PROVE  OneRequestPerRow'
  BY <1>10 DEF SleepAgain, lockVars
<1> QED
  BY <1>1, <1>2, <1>3, <1>6, <1>7, <1>8, <1>9, <1>10, StepKinds DEF vars

(* The lock sets and the granted requests keep saying the same. *)
LEMMA LockSetsStep ==
  TypeOK /\ OneRequestPerRow /\ LockSetsMatchQueues /\ [Next]_vars
    => LockSetsMatchQueues'
<1> SUFFICES ASSUME TypeOK, OneRequestPerRow, LockSetsMatchQueues, [Next]_vars
             PROVE  LockSetsMatchQueues'
  OBVIOUS
<1> USE DEF TypeOK, LockSetsMatchQueues
<1>1. CASE UNCHANGED vars
  BY <1>1 DEF vars
<1>2. ASSUME NEW t \in Tx, Bookkeeping(t) PROVE LockSetsMatchQueues'
  BY <1>2 DEF Bookkeeping, Begin, Commit, CommitEnd, Abort, AbortUndo,
              AbortEnd, Write, lockVars
<1>3. ASSUME NEW t \in Tx, Unlock(t) PROVE LockSetsMatchQueues'
  <2> SUFFICES ASSUME NEW u \in Tx, NEW rid \in RID, NEW m \in LockMode
               PROVE  /\ u # t => /\ Request(u, m, TRUE) \in requests'[rid]
                                       <=> Request(u, m, TRUE) \in requests[rid]
                                  /\ shared_locks'[u] = shared_locks[u]
                                  /\ exclusive_locks'[u] = exclusive_locks[u]
                      /\ u = t => /\ Request(u, m, TRUE) \notin requests'[rid]
                                  /\ shared_locks'[u] = {}
                                  /\ exclusive_locks'[u] = {}
    BY DEF LockMode
  <2>1. /\ requests'[rid] = IF rid \in Held(t) THEN Without(requests[rid], t)
                                               ELSE requests[rid]
        /\ shared_locks' = [shared_locks EXCEPT ![t] = {}]
        /\ exclusive_locks' = [exclusive_locks EXCEPT ![t] = {}]
    BY <1>3 DEF Unlock, CommitUnlock, AbortUnlock, unlock_all
  <2>2. Request(u, m, TRUE).tx_id = u
    BY DEF Request
  <2>3. CASE u # t
    BY <2>1, <2>2, <2>3 DEF Without
  <2>4. CASE u = t
    <3>1. rid \notin Held(t) => Request(u, m, TRUE) \notin requests[rid]
      BY <2>4 DEF Held, LockMode
    <3> QED
      BY <2>1, <2>2, <2>4, <3>1 DEF Without
  <2> QED
    BY <2>3, <2>4
<1>4. ASSUME NEW t \in Tx, NEW rid \in RID, LockShared(t, rid)
      PROVE  LockSetsMatchQueues'
  BY <1>4 DEF LockShared, Enqueue, Request, Held
<1>5. ASSUME NEW t \in Tx, NEW rid \in RID, LockExclusive(t, rid)
      PROVE  LockSetsMatchQueues'
  BY <1>5 DEF LockExclusive, Enqueue, Request, Without
<1>6. ASSUME NEW t \in Tx, NEW rid \in RID, NEW m \in LockMode,
             Grant(t, rid, m)
      PROVE  LockSetsMatchQueues'
  <2>1. CASE m = "SHARED"
    BY <1>6, <2>1 DEF Grant, Request
  <2>2. CASE m = "EXCLUSIVE"
    BY <1>6, <2>2 DEF Grant, Request
  <2> QED
    BY <2>1, <2>2 DEF LockMode
<1>7. ASSUME NEW t \in Tx, NEW rid \in RID, NEW m \in LockMode,
             SleepAgain(t, rid, m)
      PROVE  LockSetsMatchQueues'
  BY <1>7 DEF SleepAgain, lockVars
<1>8. ASSUME NEW t \in Tx, NEW rid \in RID, NEW m \in LockMode, TimeOut(t, rid, m)
      PROVE  LockSetsMatchQueues'
  <2>1. \A u \in Tx, k \in LockMode : Request(u, k, TRUE) # Request(t, m, FALSE)
    BY DEF Request
  <2>2. \A r \in RID, u \in Tx, k \in LockMode :
          Request(u, k, TRUE) \in requests'[r] <=> Request(u, k, TRUE) \in requests[r]
    BY <1>8, <2>1 DEF TimeOut
  <2>3. UNCHANGED <<shared_locks, exclusive_locks>>
    BY <1>8 DEF TimeOut
  <2> QED
    BY <2>2, <2>3 DEF LockMode
<1> QED
  BY <1>1, <1>2, <1>3, <1>4, <1>5, <1>6, <1>7, <1>8, StepKinds

(* No step gives a row to two transactions unless both only read. *)
LEMMA CompatibleStep ==
  TypeOK /\ OneRequestPerRow /\ CompatibleHolders /\ [Next]_vars
    => CompatibleHolders'
<1> SUFFICES ASSUME TypeOK, OneRequestPerRow, CompatibleHolders, [Next]_vars
             PROVE  CompatibleHolders'
  OBVIOUS
<1> USE DEF TypeOK, CompatibleHolders
<1>1. CASE UNCHANGED requests
  BY <1>1
<1>2. ASSUME NEW t \in Tx, Unlock(t) PROVE CompatibleHolders'
  BY <1>2 DEF Unlock, CommitUnlock, AbortUnlock, unlock_all, Without
<1>3. ASSUME NEW t \in Tx, NEW rid \in RID, NEW m \in LockMode, NEW queue,
             queue \subseteq requests[rid], Enqueue(t, rid, m, queue)
      PROVE  CompatibleHolders'
  BY <1>3 DEF Enqueue, can_grant, Request
<1>4. ASSUME NEW t \in Tx, NEW rid \in RID, LockShared(t, rid) \/ LockExclusive(t, rid)
      PROVE  CompatibleHolders'
  BY <1>3, <1>4 DEF LockShared, LockExclusive, Without, LockMode
<1>5. ASSUME NEW t \in Tx, NEW rid \in RID, NEW m \in LockMode, Grant(t, rid, m)
      PROVE  CompatibleHolders'
  BY <1>5 DEF Grant, can_grant, Request
<1>6. ASSUME NEW t \in Tx, NEW rid \in RID, NEW m \in LockMode, TimeOut(t, rid, m)
      PROVE  CompatibleHolders'
  BY <1>6 DEF TimeOut
<1> QED
  BY <1>1, <1>2, <1>4, <1>5, <1>6, StepKinds
     DEF vars, lockVars, Bookkeeping, Begin, Commit, CommitEnd, Abort, AbortUndo,
         AbortEnd, Write, SleepAgain
-----------------------------------------------------------------------------
(* What can be granted against more granted requests can be granted        *)
(* against fewer.                                                          *)
LEMMA CanGrantFewer ==
  ASSUME NEW A, NEW B, NEW u, NEW m,
         \A q \in A : q.granted /\ q.tx_id # u => q \in B,
         can_grant(B, u, m)
  PROVE  can_grant(A, u, m)
BY DEF can_grant

(* No step makes a waiting request grantable without signalling its        *)
(* thread.  The step that could is an upgrade, which erases a granted      *)
(* shared request and signals nobody: were a waiting request blocked by    *)
(* that request alone, the upgrade would be granted at once and block it   *)
(* again.                                                                  *)
LEMMA WakeupStep ==
  TypeOK /\ OneRequestPerRow /\ LockSetsMatchQueues /\ CompatibleHolders
    /\ NoLostWakeup /\ [Next]_vars => NoLostWakeup'
<1> SUFFICES ASSUME TypeOK, OneRequestPerRow, LockSetsMatchQueues,
                    CompatibleHolders, NoLostWakeup, [Next]_vars,
                    NEW r \in RID, NEW u \in Tx, NEW k \in LockMode,
                    Request(u, k, FALSE) \in requests'[r],
                    can_grant(requests'[r], u, k)
             PROVE  u \in notified'
  BY DEF NoLostWakeup, can_grant
<1> DEFINE mine == Request(u, k, FALSE)
<1>a. mine.tx_id = u /\ mine.lock_mode = k /\ mine.granted = FALSE
  BY DEF Request
<1>b. mine \in requests[r] /\ can_grant(requests[r], u, k) => u \in notified
  BY DEF NoLostWakeup
<1>c. mine \in requests[r] => pc[u] = "waiting"
  BY <1>a DEF OneRequestPerRow
<1> HIDE DEF mine
<1>1. CASE UNCHANGED <<requests, notified>>
  BY <1>1, <1>b DEF mine
<1>2. ASSUME NEW t \in Tx, Unlock(t) PROVE u \in notified'
  <2>1. /\ requests'[r] = IF r \in Held(t) THEN Without(requests[r], t) ELSE requests[r]
        /\ notified' = notified \cup
                       UNION {Waiters(Without(requests[rid], t)) : rid \in Held(t)}
    BY <1>2 DEF Unlock, CommitUnlock, AbortUnlock, unlock_all
  <2>2. CASE r \in Held(t)
    <3>1. u \in Waiters(Without(requests[r], t))
      BY <2>1, <2>2 DEF Waiters
    <3>2. Waiters(Without(requests[r], t))
            \in {Waiters(Without(requests[rid], t)) : rid \in Held(t)}
      BY <2>2
    <3> QED
      BY <2>1, <3>1, <3>2
  <2>3. CASE r \notin Held(t)
    BY <1>b, <2>1, <2>3 DEF mine
  <2> QED
    BY <2>2, <2>3
<1>3. ASSUME NEW t \in Tx, NEW rid \in RID, NEW m \in LockMode, NEW queue,
             pc[t] = "ready", Enqueue(t, rid, m, queue),
             \A q \in queue : q \in requests[rid],
             can_grant(queue, u, k) /\ mine \in queue /\ ~can_grant(queue, t, m)
               => can_grant(requests[rid], u, k),
             can_grant(queue, t, m) => queue = requests[rid] \/ m = "EXCLUSIVE"
      PROVE  u \in notified'
  <2> DEFINE ok == can_grant(queue, t, m)
             new == Request(t, m, ok)
  <2>1. /\ requests' = [requests EXCEPT ![rid] = queue \cup {new}]
        /\ notified' = notified
    BY <1>3 DEF Enqueue, txVars
  <2>2. new.tx_id = t /\ new.lock_mode = m /\ new.granted = ok
    BY DEF Request
  <2>3. CASE r # rid
    BY <1>b, <2>1, <2>3 DEF mine, TypeOK
  <2>4. ASSUME r = rid, u = t PROVE FALSE
    <3>1. requests'[r] = queue \cup {new}
      BY <2>1, <2>4 DEF TypeOK
    <3>2. mine = new
      BY <1>3, <1>a, <1>c, <2>4, <3>1 DEF mine
    <3>3. ~ok /\ k = m
      BY <1>a, <2>2, <3>2
    <3>4. can_grant(queue, t, m)
      BY <2>4, <3>1, <3>3 DEF can_grant
    <3> QED
      BY <3>3, <3>4
  <2>5. CASE r = rid /\ u # t
    <3>1. requests'[r] = queue \cup {new}
      BY <2>1, <2>5 DEF TypeOK
    <3>2. mine \in queue /\ mine \in requests[r]
      BY <1>3, <1>a, <2>2, <2>5, <3>1 DEF mine
    <3>3. can_grant(queue, u, k)
      BY <3>1 DEF can_grant
    <3>4. ok => new.granted /\ new.tx_id # u
      BY <2>2, <2>5
    <3>5. ok => k = "SHARED" /\ m = "SHARED"
      BY <2>2, <3>1, <3>4 DEF can_grant
    <3> HIDE DEF ok, new
    <3>6. CASE ok
      <4>1. queue = requests[rid]
        BY <1>3, <3>5, <3>6 DEF ok
      <4> QED
        BY <1>b, <2>1, <2>5, <3>2, <3>3, <4>1
    <3>7. CASE ~ok
      BY <1>3, <1>b, <2>1, <2>5, <3>2, <3>3, <3>7 DEF ok
    <3> QED
      BY <3>6, <3>7
  <2> QED
    BY <2>3, <2>4, <2>5
<1>4. ASSUME NEW t \in Tx, NEW rid \in RID, LockShared(t, rid) PROVE u \in notified'
  BY <1>3, <1>4 DEF LockShared, LockMode
<1>5. ASSUME NEW t \in Tx, NEW rid \in RID, LockExclusive(t, rid) PROVE u \in notified'
  <2> DEFINE queue == IF rid \in shared_locks[t]
                      THEN Without(requests[rid], t) ELSE requests[rid]
  <2>1. pc[t] = "ready" /\ Enqueue(t, rid, "EXCLUSIVE", queue)
    BY <1>5 DEF LockExclusive
  <2>2. \A q \in queue : q \in requests[rid]
    BY DEF Without
  <2>3. ASSUME can_grant(queue, u, k), mine \in queue, ~can_grant(queue, t, "EXCLUSIVE")
        PROVE  can_grant(requests[rid], u, k)
    <3>1. CASE rid \notin shared_locks[t]
      BY <2>3, <3>1
    <3>2. CASE rid \in shared_locks[t]
      <4> DEFINE own == Request(t, "SHARED", TRUE)
      <4>1. own \in requests[rid] /\ own.tx_id = t /\ own.lock_mode = "SHARED"
            /\ own.granted
        BY <3>2 DEF LockSetsMatchQueues, Request
      <4>2. PICK v \in queue : v.granted /\ v.tx_id # t
        BY <2>3 DEF can_grant
      <4>3. v.lock_mode = "SHARED"
        BY <2>2, <4>1, <4>2 DEF CompatibleHolders
      <4>4. v.tx_id # u
        BY <1>a, <2>2, <2>3, <4>2 DEF OneRequestPerRow
      <4>5. k = "SHARED"
        BY <2>3, <4>2, <4>4 DEF can_grant
      <4>6. \A q \in requests[rid] : q.granted => q.lock_mode = "SHARED"
        BY <4>1 DEF CompatibleHolders, OneRequestPerRow
      <4> QED
        BY <4>5, <4>6 DEF can_grant
    <3> QED
      BY <3>1, <3>2
  <2> HIDE DEF queue
  <2> QED
    BY <1>3, <2>1, <2>2, <2>3 DEF LockMode
<1>6. ASSUME NEW t \in Tx, NEW rid \in RID, NEW m \in LockMode, Grant(t, rid, m)
      PROVE  u \in notified'
  <2>1. /\ Request(t, m, FALSE) \in requests[rid]
        /\ requests' = [requests EXCEPT ![rid] = (@ \ {Request(t, m, FALSE)})
                                                 \cup {Request(t, m, TRUE)}]
        /\ notified' = notified \ {t}
    BY <1>6 DEF Grant
  <2>2. Request(t, m, FALSE).tx_id = t /\ Request(t, m, FALSE).granted = FALSE
        /\ Request(t, m, TRUE).tx_id = t /\ Request(t, m, TRUE).granted = TRUE
    BY DEF Request
  <2>3. mine \in requests[r] /\ (r = rid => mine # Request(t, m, FALSE))
    BY <1>a, <2>1, <2>2 DEF mine, TypeOK
  <2>4. u # t
    BY <1>a, <2>1, <2>2, <2>3 DEF OneRequestPerRow
  <2>5. \A q \in requests[r] : q.granted /\ q.tx_id # u => q \in requests'[r]
    BY <2>1, <2>2 DEF TypeOK
  <2> QED
    BY <1>b, <2>1, <2>3, <2>4, <2>5, CanGrantFewer
<1>7. ASSUME NEW t \in Tx, NEW rid \in RID, NEW m \in LockMode, SleepAgain(t, rid, m)
      PROVE  u \in notified'
  <2>1. Request(t, m, FALSE) \in requests[rid] /\ ~can_grant(requests[rid], t, m)
        /\ requests' = requests /\ notified' = notified \ {t}
    BY <1>7 DEF SleepAgain, lockVars
  <2>2. Request(t, m, FALSE).tx_id = t /\ Request(t, m, FALSE).granted = FALSE
        /\ Request(t, m, FALSE).lock_mode = m
    BY DEF Request
  <2>3. u # t
    <3> SUFFICES ASSUME u = t PROVE FALSE
      OBVIOUS
    <3>1. r = rid
      BY <1>a, <2>1, <2>2 DEF OneRequestPerRow, mine
    <3>2. mine = Request(t, m, FALSE)
      BY <1>a, <2>1, <2>2, <3>1 DEF OneRequestPerRow, mine
    <3> QED
      BY <1>a, <2>1, <2>2, <3>1, <3>2
  <2> QED
    BY <1>b, <2>1, <2>3 DEF mine
<1>8. ASSUME NEW t \in Tx, NEW rid \in RID, NEW m \in LockMode, TimeOut(t, rid, m)
      PROVE  u \in notified'
  <2>1. /\ Request(t, m, FALSE) \in requests[rid]
        /\ requests' = [requests EXCEPT ![rid] = @ \ {Request(t, m, FALSE)}]
        /\ notified' = (notified \ {t}) \cup Waiters(requests[rid] \ {Request(t, m, FALSE)})
    BY <1>8 DEF TimeOut
  <2>2. Request(t, m, FALSE).tx_id = t /\ Request(t, m, FALSE).granted = FALSE
    BY DEF Request
  <2>3. mine \in requests[r] /\ (r = rid => mine # Request(t, m, FALSE))
    BY <2>1 DEF mine, TypeOK
  <2>4. u # t
    BY <1>a, <2>1, <2>2, <2>3 DEF OneRequestPerRow
  <2>5. CASE r = rid
    BY <2>1, <2>3, <2>5 DEF Waiters, mine
  <2>6. CASE r # rid
    BY <1>b, <2>1, <2>3, <2>4, <2>6 DEF TypeOK
  <2> QED
    BY <2>5, <2>6
<1> QED
  BY <1>1, <1>2, <1>4, <1>5, <1>6, <1>7, <1>8, StepKinds
     DEF vars, lockVars, Bookkeeping, Begin, Commit, CommitEnd, Abort, AbortUndo,
         AbortEnd, Write
-----------------------------------------------------------------------------
(* A transaction keeps the exclusive locks on what it may still undo.      *)
LEMMA UncommittedStep ==
  TypeOK /\ OneRequestPerRow /\ Phases /\ UncommittedAreExclusive /\ [Next]_vars
    => UncommittedAreExclusive'
<1> SUFFICES ASSUME TypeOK, OneRequestPerRow, Phases, UncommittedAreExclusive, [Next]_vars
             PROVE  UncommittedAreExclusive'
  OBVIOUS
<1> USE DEF TypeOK, UncommittedAreExclusive, Uncommitted
<1>1. CASE UNCHANGED vars
  BY <1>1 DEF vars
<1>2. ASSUME NEW t \in Tx, Bookkeeping(t) PROVE UncommittedAreExclusive'
  BY <1>2 DEF Bookkeeping, Begin, Commit, CommitEnd, Abort, AbortUndo,
              AbortEnd, Write, lockVars, Phases
<1>3. ASSUME NEW t \in Tx, Unlock(t) PROVE UncommittedAreExclusive'
  BY <1>3 DEF Unlock, CommitUnlock, AbortUnlock, unlock_all, txVars, Phases
<1>4. ASSUME NEW t \in Tx, NEW rid \in RID, LockShared(t, rid) \/ LockExclusive(t, rid)
      PROVE  UncommittedAreExclusive'
  BY <1>4 DEF LockShared, LockExclusive, Enqueue, txVars
<1>5. ASSUME NEW t \in Tx, NEW rid \in RID, NEW m \in LockMode,
             Grant(t, rid, m) \/ SleepAgain(t, rid, m) \/ TimeOut(t, rid, m)
      PROVE  UncommittedAreExclusive'
  <2>1. pc[t] = "waiting"
    BY <1>5 DEF OneRequestPerRow, Request, Grant, SleepAgain, TimeOut
  <2>2. /\ undo_log' = undo_log
        /\ \A u \in Tx : exclusive_locks[u] \subseteq exclusive_locks'[u]
        /\ pc'[t] \in {"ready", "waiting"}
        /\ \A u \in Tx \ {t} : pc'[u] = pc[u] /\ state'[u] = state[u]
    <3>1. CASE Grant(t, rid, m)
      <4>1. undo_log' = undo_log /\ state' = state /\ pc' = [pc EXCEPT ![t] = "ready"]
        BY <3>1 DEF Grant, txVars
      <4>2. \A u \in Tx : exclusive_locks[u] \subseteq exclusive_locks'[u]
        BY <3>1 DEF Grant
      <4> QED
        BY <4>1, <4>2
    <3>2. CASE SleepAgain(t, rid, m)
      BY <2>1, <3>2 DEF SleepAgain, lockVars, txVars
    <3>3. CASE TimeOut(t, rid, m)
      BY <3>3 DEF TimeOut
    <3> QED
      BY <1>5, <3>1, <3>2, <3>3
  <2> QED
    BY <2>1, <2>2
<1> QED
  BY <1>1, <1>2, <1>3, <1>4, <1>5, StepKinds

(* The inductive invariant holds at every step of every behaviour. *)
THEOREM InductiveInvariant == Spec => []IInv
<1>1. Init => IInv
  BY InitIInv
<1>2. IInv /\ [Next]_vars => IInv'
  BY TypeStep, PhasesStep, OneRequestStep, LockSetsStep, CompatibleStep,
     WakeupStep, UncommittedStep DEF IInv
<1> QED
  BY <1>1, <1>2, PTL DEF Spec

-----------------------------------------------------------------------------
(* Type correctness of LockManager and TransactionManager. *)
THEOREM TypeCorrect == Spec => []TypeOK
BY InductiveInvariant, PTL DEF IInv

(* Row exclusion: can_grant, upgrades, late grants and withdrawals never   *)
(* let a writer in beside another holder.                                  *)
THEOREM RowExclusion == Spec => []CompatibleHolders
BY InductiveInvariant, PTL DEF IInv

(* lock_table_ and the lock sets of the transactions agree.                *)
THEOREM BookkeepingAgrees == Spec => []LockSetsMatchQueues
BY InductiveInvariant, PTL DEF IInv

(* No transaction has two requests on a row, upgrades and retries after a  *)
(* timeout included.                                                       *)
THEOREM RequestsAreSingle == Spec => []OneRequestPerRow
BY InductiveInvariant, PTL DEF IInv

(* No lost wakeup, although lock_exclusive drops a shared lock silently. *)
THEOREM WakeupsReachWaiters == Spec => []NoLostWakeup
BY InductiveInvariant, PTL DEF IInv

(* No dirty access, from the first change of a row to its commit or undo,  *)
(* lock timeouts in between included.                                      *)
THEOREM NoDirtyAccess == Spec => []UncommittedRowsAreLocked
<1>1. IInv => UncommittedRowsAreLocked
  <2> SUFFICES ASSUME IInv, NEW t \in Tx, NEW u \in Tx, t # u,
                      NEW rid \in Uncommitted(t), rid \in Held(u)
               PROVE  FALSE
    BY DEF UncommittedRowsAreLocked
  <2>1. rid \in exclusive_locks[t] /\ rid \in RID
    BY DEF IInv, UncommittedAreExclusive, TypeOK
  <2> DEFINE x == Request(t, "EXCLUSIVE", TRUE)
  <2>2. x \in requests[rid]
    BY <2>1 DEF IInv, LockSetsMatchQueues
  <2>3. PICK m \in LockMode : Request(u, m, TRUE) \in requests[rid]
    BY <2>1 DEF IInv, LockSetsMatchQueues, Held, LockMode
  <2> QED
    BY <2>1, <2>2, <2>3 DEF IInv, CompatibleHolders, Request
<1> QED
  BY <1>1, InductiveInvariant, PTL

(* An ended transaction leaves no request in any queue. *)
THEOREM EndLeavesNothing == Spec => []NothingLeftBehind
<1>1. IInv => NothingLeftBehind
  <2> SUFFICES ASSUME IInv, NEW t \in Tx \ active_txs, NEW rid \in RID,
                      NEW q \in requests[rid], q.tx_id = t
               PROVE  FALSE
    BY DEF NothingLeftBehind
  <2>1. pc[t] \in {"unborn", "ended"} /\ Held(t) = {}
    BY DEF IInv, Phases
  <2>2. q.granted
    BY <2>1 DEF IInv, OneRequestPerRow
  <2> QED
    BY <2>1, <2>2, GrantedIsHeld DEF IInv, Held
<1> QED
  BY <1>1, InductiveInvariant, PTL

(* Locks leave a transaction at its end or, silently, in an upgrade.       *)
THEOREM LocksKeptToTheEnd == Spec => LocksLeaveAtTheEnd
<1>1. IInv /\ [Next]_vars =>
        [\A t \in Tx : \A rid \in Held(t) \ Held(t)' :
           \/ state[t] = "SHRINKING"
           \/ /\ rid \in shared_locks[t]
              /\ \E q \in requests'[rid] : q.tx_id = t /\ q.lock_mode = "EXCLUSIVE"]_vars
  <2> SUFFICES ASSUME IInv, [Next]_vars, NEW t \in Tx, NEW rid \in Held(t) \ Held(t)'
               PROVE  \/ state[t] = "SHRINKING"
                      \/ /\ rid \in shared_locks[t]
                         /\ \E q \in requests'[rid] : q.tx_id = t /\ q.lock_mode = "EXCLUSIVE"
    OBVIOUS
  <2> USE DEF IInv, TypeOK, Held
  <2>1. CASE UNCHANGED <<shared_locks, exclusive_locks>>
    BY <2>1
  <2>2. ASSUME NEW u \in Tx, Unlock(u) PROVE state[t] = "SHRINKING"
    BY <2>2 DEF Unlock, CommitUnlock, AbortUnlock, unlock_all, Phases
  <2>3. ASSUME NEW u \in Tx, NEW r \in RID, LockShared(u, r) PROVE FALSE
    BY <2>3 DEF LockShared
  <2>4. ASSUME NEW u \in Tx, NEW r \in RID, LockExclusive(u, r)
        PROVE  /\ rid \in shared_locks[t]
               /\ \E q \in requests'[rid] : q.tx_id = t /\ q.lock_mode = "EXCLUSIVE"
    <3>1. t = u /\ rid = r /\ rid \in shared_locks[t]
      BY <2>4 DEF LockExclusive
    <3>2. \E ok : Request(t, "EXCLUSIVE", ok) \in requests'[rid]
      BY <2>4, <3>1 DEF LockExclusive, Enqueue
    <3> QED
      BY <3>1, <3>2 DEF Request
  <2>5. ASSUME NEW u \in Tx, NEW r \in RID, NEW m \in LockMode, Grant(u, r, m)
        PROVE  FALSE
    BY <2>5 DEF Grant
  <2> QED
    BY <2>1, <2>2, <2>3, <2>4, <2>5, StepKinds
       DEF vars, lockVars, Bookkeeping, Begin, Commit, CommitEnd, Abort,
           AbortUndo, AbortEnd, Write, SleepAgain, TimeOut
<1> QED
  BY <1>1, InductiveInvariant, PTL DEF Spec, LocksLeaveAtTheEnd
-----------------------------------------------------------------------------
(* Refinement.  A true can_grant over a queue that holds every request of  *)
(* the others is the guard of the abstract acquisition.                    *)
LEMMA GrantedAlone ==
  ASSUME IInv, NEW t \in Tx, NEW rid \in RID, NEW m \in LockMode, NEW queue,
         \A q \in requests[rid] : q.tx_id # t => q \in queue,
         can_grant(queue, t, m)
  PROVE  /\ Holders(exclusive_locks)[rid] \subseteq {t}
         /\ m = "EXCLUSIVE" => Holders(shared_locks)[rid] \subseteq {t}
<1>1. ASSUME NEW u \in Tx, u # t, rid \in exclusive_locks[u] PROVE FALSE
  <2>1. Request(u, "EXCLUSIVE", TRUE) \in queue
    BY <1>1 DEF IInv, LockSetsMatchQueues, Request
  <2> QED
    BY <1>1, <2>1 DEF can_grant, Request
<1>2. ASSUME NEW u \in Tx, u # t, rid \in shared_locks[u], m = "EXCLUSIVE" PROVE FALSE
  <2>1. Request(u, "SHARED", TRUE) \in queue
    BY <1>2 DEF IInv, LockSetsMatchQueues, Request
  <2> QED
    BY <1>2, <2>1 DEF can_grant, Request
<1> QED
  BY <1>1, <1>2 DEF Holders

(* What the holders become when one transaction's lock set changes. *)
LEMMA HoldersAdd ==
  ASSUME NEW locks \in [Tx -> SUBSET RID], NEW t \in Tx, NEW rid \in RID
  PROVE  Holders([locks EXCEPT ![t] = @ \cup {rid}]) =
           [Holders(locks) EXCEPT ![rid] = @ \cup {t}]
<1>1. ASSUME NEW r \in RID
      PROVE  {u \in Tx : r \in [locks EXCEPT ![t] = @ \cup {rid}][u]} =
               IF r = rid THEN {u \in Tx : r \in locks[u]} \cup {t}
                          ELSE {u \in Tx : r \in locks[u]}
  OBVIOUS
<1> QED
  BY <1>1 DEF Holders

LEMMA HoldersRemove ==
  ASSUME NEW locks \in [Tx -> SUBSET RID], NEW t \in Tx, NEW rid \in RID
  PROVE  Holders([locks EXCEPT ![t] = @ \ {rid}]) =
           [Holders(locks) EXCEPT ![rid] = @ \ {t}]
<1>1. ASSUME NEW r \in RID
      PROVE  {u \in Tx : r \in [locks EXCEPT ![t] = @ \ {rid}][u]} =
               IF r = rid THEN {u \in Tx : r \in locks[u]} \ {t}
                          ELSE {u \in Tx : r \in locks[u]}
  OBVIOUS
<1> QED
  BY <1>1 DEF Holders

(* A shared or exclusive lock that appears in a lock set is an abstract    *)
(* acquisition.                                                            *)
LEMMA SharedAcquired ==
  ASSUME TypeOK, NEW t \in Tx, NEW rid \in RID,
         Holders(exclusive_locks)[rid] \subseteq {t},
         shared_locks' = [shared_locks EXCEPT ![t] = @ \cup {rid}],
         exclusive_locks' = exclusive_locks
  PROVE  RL!AcquireShared(t, rid)
<1>1. Holders(shared_locks)' = [Holders(shared_locks) EXCEPT ![rid] = @ \cup {t}]
  BY HoldersAdd DEF TypeOK
<1>2. Holders(exclusive_locks)' = Holders(exclusive_locks)
  BY DEF Holders
<1> QED
  BY <1>1, <1>2 DEF RL!AcquireShared

LEMMA ExclusiveAcquired ==
  ASSUME TypeOK, NEW t \in Tx, NEW rid \in RID,
         Holders(exclusive_locks)[rid] \subseteq {t},
         Holders(shared_locks)[rid] \subseteq {t},
         shared_locks' = [shared_locks EXCEPT ![t] = @ \ {rid}],
         exclusive_locks' = [exclusive_locks EXCEPT ![t] = @ \cup {rid}]
  PROVE  RL!AcquireExclusive(t, rid)
<1>1. Holders(shared_locks)' = [Holders(shared_locks) EXCEPT ![rid] = @ \ {t}]
  BY HoldersRemove DEF TypeOK
<1>2. Holders(exclusive_locks)' = [Holders(exclusive_locks) EXCEPT ![rid] = @ \cup {t}]
  BY HoldersAdd DEF TypeOK
<1>3. Holders(exclusive_locks)[rid] \cup {t} = {t}
  OBVIOUS
<1>4. Holders(exclusive_locks)' = [Holders(exclusive_locks) EXCEPT ![rid] = {t}]
  BY <1>2, <1>3
<1>5. Holders(shared_locks)[rid] \cup Holders(exclusive_locks)[rid] \subseteq {t}
  OBVIOUS
<1> QED
  BY <1>1, <1>4, <1>5 DEF RL!AcquireExclusive

(* The lock sets implement the abstract row locks: LockManager's queues,   *)
(* waits and timeouts add nothing a transaction could tell from RowLocks.  *)
THEOREM ImplementsRowLocks == Spec => RowLocksSpec
<1>1. Init => RL!Init
  BY DEF Init, RL!Init, Holders
<1>2. IInv /\ [Next]_vars => [RL!Next]_(RL!vars)
  <2> SUFFICES ASSUME IInv, [Next]_vars PROVE RL!Next \/ UNCHANGED RL!vars
    OBVIOUS
  <2>0. TypeOK
    BY DEF IInv
  <2>1. CASE UNCHANGED <<shared_locks, exclusive_locks>>
    BY <2>1 DEF RL!vars, Holders
  <2>2. ASSUME NEW t \in Tx, Unlock(t) PROVE RL!Next
    <3>1. /\ shared_locks' = [shared_locks EXCEPT ![t] = {}]
          /\ exclusive_locks' = [exclusive_locks EXCEPT ![t] = {}]
      BY <2>2 DEF Unlock, CommitUnlock, AbortUnlock, unlock_all
    <3>2. RL!ReleaseAll(t)
      BY <2>0, <3>1 DEF RL!ReleaseAll, Holders, TypeOK
    <3> QED
      BY <3>2 DEF RL!Next
  <2>3. ASSUME NEW t \in Tx, NEW rid \in RID, LockShared(t, rid)
        PROVE  RL!Next \/ UNCHANGED RL!vars
    <3>1. CASE can_grant(requests[rid], t, "SHARED")
      <4>1. RL!AcquireShared(t, rid)
        BY <2>0, <2>3, <3>1, GrantedAlone, SharedAcquired DEF LockShared, LockMode
      <4> QED
        BY <4>1 DEF RL!Next
    <3>2. CASE ~can_grant(requests[rid], t, "SHARED")
      BY <2>1, <2>3, <3>2 DEF LockShared
    <3> QED
      BY <3>1, <3>2
  <2>4. ASSUME NEW t \in Tx, NEW rid \in RID, LockExclusive(t, rid)
        PROVE  RL!Next \/ UNCHANGED RL!vars
    <3> DEFINE queue == IF rid \in shared_locks[t]
                        THEN Without(requests[rid], t) ELSE requests[rid]
    <3>1. \A q \in requests[rid] : q.tx_id # t => q \in queue
      BY DEF Without
    <3>2. /\ shared_locks' = [shared_locks EXCEPT ![t] = @ \ {rid}]
          /\ exclusive_locks' = IF can_grant(queue, t, "EXCLUSIVE")
                                THEN [exclusive_locks EXCEPT ![t] = @ \cup {rid}]
                                ELSE exclusive_locks
      BY <2>4 DEF LockExclusive
    <3> HIDE DEF queue
    <3>3. CASE can_grant(queue, t, "EXCLUSIVE")
      <4>1. RL!AcquireExclusive(t, rid)
        BY <2>0, <3>1, <3>2, <3>3, GrantedAlone, ExclusiveAcquired DEF LockMode
      <4> QED
        BY <4>1 DEF RL!Next
    <3>4. CASE ~can_grant(queue, t, "EXCLUSIVE")
      <4>1. Holders(shared_locks') = [Holders(shared_locks) EXCEPT ![rid] = @ \ {t}]
        BY <2>0, <3>2 DEF Holders, TypeOK
      <4>2. RL!DropShared(t, rid)
        BY <3>2, <3>4, <4>1 DEF RL!DropShared, Holders
      <4> QED
        BY <4>2 DEF RL!Next
    <3> QED
      BY <3>3, <3>4
  <2>5. ASSUME NEW t \in Tx, NEW rid \in RID, NEW m \in LockMode, Grant(t, rid, m)
        PROVE  RL!Next
    <3>1. can_grant(requests[rid], t, m) /\ Request(t, m, FALSE) \in requests[rid]
      BY <2>5 DEF Grant
    <3>2. CASE m = "SHARED"
      <4>1. RL!AcquireShared(t, rid)
        BY <2>0, <2>5, <3>1, <3>2, GrantedAlone, SharedAcquired DEF Grant
      <4> QED
        BY <4>1 DEF RL!Next
    <3>3. CASE m = "EXCLUSIVE"
      <4>1. rid \notin shared_locks[t]
        <5>1. Request(t, m, FALSE) # Request(t, "SHARED", TRUE)
              /\ Request(t, m, FALSE).tx_id = Request(t, "SHARED", TRUE).tx_id
          BY DEF Request
        <5>2. Request(t, "SHARED", TRUE) \notin requests[rid]
          BY <3>1, <5>1 DEF IInv, OneRequestPerRow
        <5> QED
          BY <5>2 DEF IInv, LockSetsMatchQueues
      <4>2. shared_locks' = [shared_locks EXCEPT ![t] = @ \ {rid}]
        BY <2>0, <2>5, <3>3, <4>1 DEF Grant, TypeOK
      <4>3. RL!AcquireExclusive(t, rid)
        BY <2>0, <2>5, <3>1, <3>3, <4>2, GrantedAlone, ExclusiveAcquired DEF Grant
      <4> QED
        BY <4>3 DEF RL!Next
    <3> QED
      BY <3>2, <3>3 DEF LockMode
  <2> QED
    BY <2>1, <2>2, <2>3, <2>4, <2>5, StepKinds
       DEF vars, lockVars, Bookkeeping, Begin, Commit, CommitEnd, Abort,
           AbortUndo, AbortEnd, Write, SleepAgain, TimeOut
<1> QED
  BY <1>1, <1>2, InductiveInvariant, PTL DEF Spec, RowLocksSpec, RL!Spec
=============================================================================
