---------------------------- MODULE MCHeapChain ----------------------------
(* HeapChain for TLC: a heap of full pages, reopened. *)
EXTENDS HeapChain, TLC

CONSTANT a

Row(value, size) == [value |-> value, size |-> size]

(* All of them full; on the first one a row cannot grow. *)
FullPages == << <<Row(a, 1), Row(a, 1)>>, <<Row(a, 2)>> >>

Symmetry == Permutations(Frame) \cup Permutations(Thread)

(* The bytes of no tuple are left out of the state: nothing reads them. *)
ReadPage(page) == <<page.next_page_id, page.free_space_offset, page.slots,
                    [s \in SlotNums(page) |-> get_tuple(page, s)]>>
ReadBytes == <<allocVars, rowVars, pc, call, lost, calls,
               [f \in Frame |-> <<frames[f].page_id, frames[f].pin_count, frames[f].is_dirty,
                                  ReadPage(frames[f].page)>>],
               [p \in Page |-> ReadPage(disk[p])]>>
=============================================================================
