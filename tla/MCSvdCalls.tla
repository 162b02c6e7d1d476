----------------------------- MODULE MCSvdCalls -----------------------------
(* Values for the constants of SvdCalls.  Handles play equal roles. *)
EXTENDS SvdCalls, TLC
CONSTANTS h1, h2, h3, a1
TwoHandles == {h1, h2}
ThreeHandles == {h1, h2, h3}
HandleSymmetry == Permutations(Handle)
OneAccount == {a1}
RingsAll == [a \in OneAccount |-> Chan]
=============================================================================
