------------------------------ MODULE RowLocks ------------------------------
(***************************************************************************)
(* What a transaction is promised about row locks, without queues, waits,  *)
(* timeouts or condition variables: a row has any number of readers or one *)
(* writer.  LockManager implements it (RowLocksSpec there).                *)
(***************************************************************************)

CONSTANTS Tx,       \* transactions
          RID       \* record ids: the rows that can be locked

VARIABLES readers,  \* readers[rid]: transactions with a shared lock
          writers   \* writers[rid]: transactions with an exclusive lock

vars == <<readers, writers>>

Init == /\ readers = [rid \in RID |-> {}]
        /\ writers = [rid \in RID |-> {}]

(* A shared lock is given to t while nobody else writes. *)
AcquireShared(t, rid) ==
  /\ writers[rid] \subseteq {t}
  /\ readers' = [readers EXCEPT ![rid] = @ \cup {t}]
  /\ UNCHANGED writers

(* An exclusive lock is given to t while nobody else reads or writes; a   *)
(* shared lock of t's own turns into it.                                   *)
AcquireExclusive(t, rid) ==
  /\ readers[rid] \cup writers[rid] \subseteq {t}
  /\ readers' = [readers EXCEPT ![rid] = @ \ {t}]
  /\ writers' = [writers EXCEPT ![rid] = {t}]

(* The only lock a running transaction gives back: the shared lock on a   *)
(* row it is about to lock exclusively.                                    *)
DropShared(t, rid) ==
  /\ readers' = [readers EXCEPT ![rid] = @ \ {t}]
  /\ UNCHANGED writers

(* The end of a transaction: all its locks at once. *)
ReleaseAll(t) ==
  /\ readers' = [rid \in RID |-> readers[rid] \ {t}]
  /\ writers' = [rid \in RID |-> writers[rid] \ {t}]

Next == \E t \in Tx :
          \/ ReleaseAll(t)
          \/ \E rid \in RID : \/ AcquireShared(t, rid)
                              \/ AcquireExclusive(t, rid)
                              \/ DropShared(t, rid)

Spec == Init /\ [][Next]_vars
=============================================================================
