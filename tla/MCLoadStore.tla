---------------------------- MODULE MCLoadStore ----------------------------
(* Accesses of every type and alignment in three words, the second of them *)
(* protected; one wraps around the end of the address space.  Those held   *)
(* in EX do not cross words and are not protected.                         *)
EXTENDS LoadStoreTransfers

Load(type, sext, addr) == [we |-> FALSE, type |-> type, sext |-> sext, addr |-> addr]
Store(type, addr) == [we |-> TRUE, type |-> type, sext |-> "zero", addr |-> addr]

MCNegative == {0, 3, 4, 6}
InProtected == {Load("word", "zero", 4), Load("half", "sign", 5), Store("half", 6)}
HeldInEx == {Load("byte", "sign", 3), Load("half", "ones", 8), Store("byte", 1)}
AcrossWords ==
  {Load("word", "zero", 1), Load("word", "zero", 10), Load("half", "sign", 3),
   Load("half", "sign", 11), Store("word", 3), Store("half", 11)}
MCAccesses == InProtected \cup HeldInEx \cup AcrossWords
FromRefused == {Store("word", 6), Load("half", "sign", 5)}
None == {}
=============================================================================
