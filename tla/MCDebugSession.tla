--------------------------- MODULE MCDebugSession ---------------------------
EXTENDS DebugSession

\* A core whose parameters fit the debug program, and the flag of its hart.
MCDebugAddress == BASEdebugPROGaddr
MCFlags == {FLAGgo, FLAGresume}

\* The core as verilator-model/top.sv instantiates it, and main() as it is.
TopHaltAddress == 437323776     \* 32'h1A110800
TopFlags == {FLAGgo}
=============================================================================
