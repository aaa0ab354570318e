----------------------------- MODULE MCTestRun -----------------------------
EXTENDS TestRun

Op(kind, srcs, alu, load) == [kind |-> kind, srcs |-> srcs, alu |-> alu, load |-> load]
MCInstrs ==
  {Op("alu", {1}, {2}, {}), Op("alu", {1, 2}, {1}, {}), Op("alu", {0}, {0}, {}),
   Op("multi", {1}, {1}, {}), Op("csr", {2}, {1}, {}),
   Op("load", {1}, {}, {2}), Op("load", {1}, {1}, {2}), Op("load", {1}, {1}, {1}),
   Op("load", {1}, {}, {0}), Op("store", {1, 2}, {}, {}), Op("branch", {1}, {}, {}),
   Op("jal", {}, {1}, {}), Op("jalr", {1}, {2}, {})}

MCData == [w \in {test_res + 4, data, data + 4} |-> IF w = data THEN 9 ELSE 0]

\* Tests that expect the right result, and tests that do not.
Nops == 0 .. 2
NopPairs == {<<0, 0>>, <<0, 1>>, <<1, 0>>, <<0, 2>>, <<1, 1>>, <<2, 0>>}
Codes(e) ==
  {TEST_IMM_OP(1, "addi", 6 + e, 7, 4095), TEST_IMM_SRC1_EQ_DEST(1, "addi", 12 + e, 7, 5),
   TEST_IMM_ZEROSRC1(1, "addi", 5 + e, 5),
   TEST_R_OP(1, "addi", 7 + e, 7), TEST_R_SRC1_EQ_DEST(1, "addi", 7 + e, 7),
   TEST_RR_OP(1, "div", 3 + e, 7, 2), TEST_RR_SRC1_EQ_DEST(1, "div", 3 + e, 7, 2),
   TEST_RR_SRC2_EQ_DEST(1, "add", 9 + e, 7, 2), TEST_RR_SRC12_EQ_DEST(1, "div", 1 + e, 7),
   TEST_RR_ZEROSRC1(1, "add", 7 + e, 7), TEST_RR_ZEROSRC2(1, "div", e - 1, 7),
   TEST_RR_ZEROSRC12(1, "add", e),
   TEST_LD_OP(1, 9 + e, 0, data)}
    \cup {TEST_IMM_DEST_BYPASS(1, n, "addi", 12 + e, 7, 5) : n \in Nops}
    \cup {TEST_IMM_SRC1_BYPASS(1, n, "addi", 12 + e, 7, 5) : n \in Nops}
    \cup {TEST_R_DEST_BYPASS(1, n, "addi", 7 + e, 7) : n \in Nops}
    \cup {TEST_RR_DEST_BYPASS(1, n, "div", 3 + e, 7, 2) : n \in Nops}
    \cup {TEST_RR_SRC12_BYPASS(1, p[1], p[2], "add", 9 + e, 7, 2) : p \in NopPairs}
    \cup {TEST_RR_SRC21_BYPASS(1, p[1], p[2], "div", 3 + e, 7, 2) : p \in NopPairs}
    \cup {TEST_LD_DEST_BYPASS(1, n, 9 + e, 0, data) : n \in Nops}
    \cup {TEST_LD_SRC1_BYPASS(1, n, 9 + e, -4, data + 4) : n \in Nops}

\* What has no expected result, or expects what it has stored.
PassCodes ==
  {TEST_IMM_ZERODEST(1, "addi", 7, 5), TEST_RR_ZERODEST(1, "div", 7, 2),
   TEST_ST_OP(1, 8, 4, data),
   TEST_BR2_OP_TAKEN(1, "beq", 4, 4), TEST_BR2_OP_NOTTAKEN(1, "bne", 4, 4)}
    \cup {TEST_ST_SRC12_BYPASS(1, p[1], p[2], 8, 4, data) : p \in NopPairs}
    \cup {TEST_ST_SRC21_BYPASS(1, p[1], p[2], 8, 4, data) : p \in NopPairs}
    \cup {TEST_BR2_SRC12_BYPASS(1, p[1], p[2], "bne", 4, 4) : p \in NopPairs}
    \cup {TEST_BR2_SRC21_BYPASS(1, p[1], p[2], "beq", 4, 5) : p \in NopPairs}
    \cup {TEST_JR_SRC1_BYPASS(1, n) : n \in Nops}
    \cup {TEST_JALR_SRC1_BYPASS(1, n) : n \in Nops}
FailCodes ==
  {TEST_BR2_OP_TAKEN(1, "bne", 4, 4), TEST_BR2_OP_NOTTAKEN(1, "beq", 4, 4),
   TEST_BR2_SRC12_BYPASS(1, 0, 0, "beq", 4, 4)}

\* An assertion about a register that holds 7.
Assertion(reg, value) == <<Li(reg, 7)>> \o RVTEST_IO_ASSERT_GPR_EQ(reg, value) \o <<Li(TESTNUM, 1)>>

Deserve(codes, end) == {[code |-> Test(c), verdict |-> end] : c \in codes}
MCTests ==
  Deserve(Codes(0) \cup PassCodes \cup {Assertion(3, 7)}, "pass")
    \cup Deserve(Codes(1) \cup FailCodes \cup {Assertion(3, 8)}, "fail")

\* An assertion about the register the macro loads the expected value to.
MCTestsX5 == Deserve({Assertion(5, 8)}, "fail")
=============================================================================
