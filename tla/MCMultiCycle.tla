---------------------------- MODULE MCMultiCycle ----------------------------
(* All products and divisions of words of WIDTH bits, each followed by one *)
(* that uses every register its predecessor has left.                      *)
EXTENDS MultiCycle

MCOperations == Operation
MCFollowers ==
  {[kind |-> "mulhu", a |-> Size - 1, b |-> Size - 1],
   [kind |-> "mulh", a |-> Size - 1, b |-> 1],
   [kind |-> "div", a |-> Size \div 2, b |-> Size - 1],
   [kind |-> "rem", a |-> Size - 1, b |-> 0]}
=============================================================================
