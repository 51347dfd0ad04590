----------------------------- MODULE MCTxTable -----------------------------
(* TxTable for TLC: rows to start from; the bytes of no row are left out   *)
(* of the state.                                                           *)
EXTENDS TxTable

CONSTANT a  \* a value

(* Two full pages, and a hole of two bytes in the first. *)
Holed == LET small == [value |-> a, size |-> 1]
             large == [value |-> a, size |-> 2]
         IN  <<large, small, small, large, Rid(1, 0)>>
OneLarge == <<[value |-> a, size |-> Max(Size)]>>

Symmetry == Permutations(Tx)

Rows == [i \in DOMAIN pages |->
          <<pages[i].free_space_offset, pages[i].slots,
            [s \in SlotNums(pages[i]) |-> get_tuple(pages[i], s)]>>]
ReadBytes == <<Rows, readers, writers, state, undo_log, pc, call, cursor, calls,
               asserted, committed>>
=============================================================================
