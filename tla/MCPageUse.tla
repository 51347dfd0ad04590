----------------------------- MODULE MCPageUse -----------------------------
(* PageUse for TLC: contents are symmetric, and the bytes of no tuple are  *)
(* left out of the state, since nothing reads them.                        *)
EXTENDS PageUse

Symmetry == Permutations(Value)

ReadBytes == <<page.free_space_offset, page.slots, contents,
               [s \in SlotNums(page) |-> get_tuple(page, s)]>>
=============================================================================
