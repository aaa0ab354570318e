-------------------------- MODULE MCFetchPrograms --------------------------
(***************************************************************************)
(* Small program memories for model checking the IF stage: which halfwords *)
(* are compressed, where branches go, and which instructions set up loops. *)
(***************************************************************************)
EXTENDS FetchStage, TLC

MCJunk == {ZeroWord}
NoWords == {}

A(w, h) == [w |-> w, h |-> h]

(* A branch to an upper half, across words and the end of the memory; two  *)
(* nested loops with the same end, compressed first instruction and a last *)
(* one across words; behind them one across words whose second word the    *)
(* protection unit refuses, and which prefetching may reach while the      *)
(* loops still iterate.                                                    *)
NestedCompressed == {A(2, 0), A(3, 1), A(4, 0), A(7, 1)}
NestedTargets == {A(6, 1)}
NestedSetup == A(0, 0) :> [loop |-> 1, end |-> A(2, 1), count |-> 2]
            @@ A(1, 0) :> [loop |-> 0, end |-> A(2, 1), count |-> 2]

(* One loop whose body ends in an upper half, with a branch to its end.    *)
EndCompressed == {A(1, 0), A(2, 1)}
EndTargets == {A(0, 0), A(1, 1)}
LiveTargets == {A(0, 0)}
EndSetup == A(0, 0) :> [loop |-> 0, end |-> A(1, 1), count |-> 2]
=============================================================================
