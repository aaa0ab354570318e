----------------------------- MODULE TestMacros -----------------------------
(***************************************************************************)
(* tb/core/riscv_compliance_tests: the self-checking tests that the macros *)
(* of aw_test_macros.h (integer part) and compliance_io.h make.  A macro   *)
(* is the sequence of instructions it stands for; its parameter inst is    *)
(* the name of an instruction.  Words are the signed values they stand     *)
(* for, so that MASK_XLEN leaves an operand as it is.                      *)
(***************************************************************************)
EXTENDS Rv32

TESTNUM == 28
test_res == 4096         \* where results go
data == 4128             \* test data, used as base below

\* The labels of the macros that are not local; Linked resolves them.
fail == 4094
pass == 4092

La(rd, address) == <<Lui(rd, 1), Addi(rd, rd, address - 4096)>>
LaLabel(rd, distance) == <<Auipc(rd, 0), Addi(rd, rd, distance)>>

SWSIG(testnum, testreg) == La(28, test_res) \o <<Store(testreg, 4 * testnum, 28)>>
\* Mutant: the expected value goes to the register that is tested.
TEST_CASESameReg(testnum, testreg, correctval, code) ==
  code \o <<Li(testreg, correctval), Li(TESTNUM, testnum)>> \o SWSIG(testnum, testreg)
    \o <<Bne(testreg, testreg, fail)>>
TEST_CASE(testnum, testreg, correctval, code) ==
  code \o <<Li(29, correctval), Li(TESTNUM, testnum)>> \o SWSIG(testnum, testreg)
    \o <<Bne(testreg, 29, fail)>>

TEST_INSERT_NOPS(n) == [k \in 1 .. n |-> Nop]

\* What the bypass tests share: once with an empty pipeline behind, once not.
Twice(code) ==
  <<Li(4, 0)>> \o code
    \o <<Addi(4, 4, 1), Li(5, 2), Bne(4, 5, -4 * (Len(code) + 2))>>

SEXT_IMM(x) == IF x \div 2048 = 1 THEN x - 4096 ELSE x
Imm(inst, rd, rs1, imm) == I(inst, rd, rs1, 0, SEXT_IMM(imm))
R(inst, rd, rs1) == I(inst, rd, rs1, 0, 0)
RR(inst, rd, rs1, rs2) == I(inst, rd, rs1, rs2, 0)
Br(inst, rs1, rs2, distance) == I(inst, 0, rs1, rs2, distance)

-----------------------------------------------------------------------------
(* Immediate operands. *)

TEST_IMM_OP(t, inst, result, val1, imm) ==
  TEST_CASE(t, 30, result, <<Li(1, val1), Imm(inst, 30, 1, imm)>>)
TEST_IMM_SRC1_EQ_DEST(t, inst, result, val1, imm) ==
  TEST_CASE(t, 1, result, <<Li(1, val1), Imm(inst, 1, 1, imm)>>)
TEST_IMM_DEST_BYPASS(t, nops, inst, result, val1, imm) ==
  TEST_CASE(t, 6, result,
    Twice(<<Li(1, val1), Imm(inst, 30, 1, imm)>> \o TEST_INSERT_NOPS(nops)
          \o <<Addi(6, 30, 0)>>))
TEST_IMM_SRC1_BYPASS(t, nops, inst, result, val1, imm) ==
  TEST_CASE(t, 30, result,
    Twice(<<Li(1, val1)>> \o TEST_INSERT_NOPS(nops) \o <<Imm(inst, 30, 1, imm)>>))
TEST_IMM_ZEROSRC1(t, inst, result, imm) ==
  TEST_CASE(t, 1, result, <<Imm(inst, 1, 0, imm)>>)
TEST_IMM_ZERODEST(t, inst, val1, imm) ==
  TEST_CASE(t, 0, 0, <<Li(1, val1), Imm(inst, 0, 1, imm)>>)

-----------------------------------------------------------------------------
(* One register operand. *)

TEST_R_OP(t, inst, result, val1) ==
  TEST_CASE(t, 30, result, <<Li(1, val1), R(inst, 30, 1)>>)
TEST_R_SRC1_EQ_DEST(t, inst, result, val1) ==
  TEST_CASE(t, 1, result, <<Li(1, val1), R(inst, 1, 1)>>)
TEST_R_DEST_BYPASS(t, nops, inst, result, val1) ==
  TEST_CASE(t, 6, result,
    Twice(<<Li(1, val1), R(inst, 30, 1)>> \o TEST_INSERT_NOPS(nops) \o <<Addi(6, 30, 0)>>))

-----------------------------------------------------------------------------
(* Two register operands. *)

TwoOperands(val1, val2) == <<Li(1, val1), Li(2, val2)>>

TEST_RR_OP(t, inst, result, val1, val2) ==
  TEST_CASE(t, 30, result, TwoOperands(val1, val2) \o <<RR(inst, 30, 1, 2)>>)
TEST_RR_SRC1_EQ_DEST(t, inst, result, val1, val2) ==
  TEST_CASE(t, 1, result, TwoOperands(val1, val2) \o <<RR(inst, 1, 1, 2)>>)
TEST_RR_SRC2_EQ_DEST(t, inst, result, val1, val2) ==
  TEST_CASE(t, 2, result, TwoOperands(val1, val2) \o <<RR(inst, 2, 1, 2)>>)
TEST_RR_SRC12_EQ_DEST(t, inst, result, val1) ==
  TEST_CASE(t, 1, result, <<Li(1, val1), RR(inst, 1, 1, 1)>>)
TEST_RR_DEST_BYPASS(t, nops, inst, result, val1, val2) ==
  TEST_CASE(t, 6, result,
    Twice(TwoOperands(val1, val2) \o <<RR(inst, 30, 1, 2)>> \o TEST_INSERT_NOPS(nops)
          \o <<Addi(6, 30, 0)>>))

\* The operands are loaded src1_nops and src2_nops before their use.
Spaced(first, nops1, second, nops2, use) ==
  first \o TEST_INSERT_NOPS(nops1) \o second \o TEST_INSERT_NOPS(nops2) \o use
TEST_RR_SRC12_BYPASS(t, nops1, nops2, inst, result, val1, val2) ==
  TEST_CASE(t, 30, result,
    Twice(Spaced(<<Li(1, val1)>>, nops1, <<Li(2, val2)>>, nops2, <<RR(inst, 30, 1, 2)>>)))
TEST_RR_SRC21_BYPASS(t, nops1, nops2, inst, result, val1, val2) ==
  TEST_CASE(t, 30, result,
    Twice(Spaced(<<Li(2, val2)>>, nops1, <<Li(1, val1)>>, nops2, <<RR(inst, 30, 1, 2)>>)))

TEST_RR_ZEROSRC1(t, inst, result, val) ==
  TEST_CASE(t, 2, result, <<Li(1, val), RR(inst, 2, 0, 1)>>)
TEST_RR_ZEROSRC2(t, inst, result, val) ==
  TEST_CASE(t, 2, result, <<Li(1, val), RR(inst, 2, 1, 0)>>)
TEST_RR_ZEROSRC12(t, inst, result) == TEST_CASE(t, 1, result, <<RR(inst, 1, 0, 0)>>)
TEST_RR_ZERODEST(t, inst, val1, val2) ==
  TEST_CASE(t, 0, 0, TwoOperands(val1, val2) \o <<RR(inst, 0, 1, 2)>>)

-----------------------------------------------------------------------------
(* Loads and stores. *)

Numbered(t) == <<Li(TESTNUM, t)>> \o SWSIG(t, TESTNUM)
Compare(reg, result) == <<Li(29, result), Bne(reg, 29, fail)>>

TEST_LD_OP(t, result, offset, base) ==
  TEST_CASE(t, 30, result, La(1, base) \o <<Load(30, offset, 1)>>)
TEST_ST_OP(t, result, offset, base) ==
  TEST_CASE(t, 30, result,
    La(1, base) \o <<Li(2, result), Store(2, offset, 1), Load(30, offset, 1)>>)
TEST_LD_DEST_BYPASS(t, nops, result, offset, base) ==
  Numbered(t) \o Twice(La(1, base) \o <<Load(30, offset, 1)>> \o TEST_INSERT_NOPS(nops)
                       \o <<Addi(6, 30, 0)>> \o Compare(6, result))
TEST_LD_SRC1_BYPASS(t, nops, result, offset, base) ==
  Numbered(t) \o Twice(La(1, base) \o TEST_INSERT_NOPS(nops) \o <<Load(30, offset, 1)>>
                       \o Compare(30, result))
TEST_ST_SRC12_BYPASS(t, nops1, nops2, result, offset, base) ==
  Numbered(t) \o Twice(Spaced(<<Li(1, result)>>, nops1, La(2, base), nops2,
                              <<Store(1, offset, 2), Load(30, offset, 2)>>)
                       \o Compare(30, result))
TEST_ST_SRC21_BYPASS(t, nops1, nops2, result, offset, base) ==
  Numbered(t) \o Twice(Spaced(La(2, base), nops1, <<Li(1, result)>>, nops2,
                              <<Store(1, offset, 2), Load(30, offset, 2)>>)
                       \o Compare(30, result))

-----------------------------------------------------------------------------
(* Branches and jumps; distances are those of the local labels. *)

TEST_BR2_OP_TAKEN(t, inst, val1, val2) ==
  Numbered(t) \o TwoOperands(val1, val2)
    \o <<Br(inst, 1, 2, 12), Bne(0, TESTNUM, fail), Bne(0, TESTNUM, 12),
         Br(inst, 1, 2, -4), Bne(0, TESTNUM, fail)>>
TEST_BR2_OP_NOTTAKEN(t, inst, val1, val2) ==
  Numbered(t) \o TwoOperands(val1, val2)
    \o <<Br(inst, 1, 2, 8), Bne(0, TESTNUM, 8), Bne(0, TESTNUM, fail), Br(inst, 1, 2, -4)>>
TEST_BR2_SRC12_BYPASS(t, nops1, nops2, inst, val1, val2) ==
  Numbered(t) \o Twice(Spaced(<<Li(1, val1)>>, nops1, <<Li(2, val2)>>, nops2,
                              <<Br(inst, 1, 2, fail)>>))
TEST_BR2_SRC21_BYPASS(t, nops1, nops2, inst, val1, val2) ==
  Numbered(t) \o Twice(Spaced(<<Li(2, val2)>>, nops1, <<Li(1, val1)>>, nops2,
                              <<Br(inst, 1, 2, fail)>>))

\* The jump is one of jr and jalr x19.
JumpBypass(t, nops, rd) ==
  Numbered(t) \o Twice(LaLabel(6, 4 * (4 + nops)) \o TEST_INSERT_NOPS(nops)
                       \o <<Jalr(rd, 6, 0), Bne(0, TESTNUM, fail)>>)
TEST_JR_SRC1_BYPASS(t, nops) == JumpBypass(t, nops, 0)
TEST_JALR_SRC1_BYPASS(t, nops) == JumpBypass(t, nops, 19)

-----------------------------------------------------------------------------
(* The end of a test. *)

RVTEST_FAIL == <<I("ecall", 0, 0, 0, 0)>>
RVTEST_PASS == <<I("ret", 0, 0, 0, 0)>>   \* to the caller of the test
TEST_PASSFAIL == <<Bne(0, TESTNUM, pass)>> \o RVTEST_FAIL \o RVTEST_PASS

Linked(code) ==
  LET to_fail == Len(code) - 1
      Distance(k) == CASE code[k].imm = fail -> 4 * (to_fail - k)
                       [] code[k].imm = pass -> 4 * (to_fail + 1 - k)
                       [] OTHER -> code[k].imm IN
  [k \in 1 .. Len(code) |-> [code[k] EXCEPT !.imm = Distance(k)]]
Test(code) == Linked(code \o TEST_PASSFAIL)

-----------------------------------------------------------------------------
(* The assertions of the compliance tests.                                 *)

t0 == 5

\* The message of a failure says no more than the failure.
RVTEST_IO_ASSERT_GPR_EQ(reg, value) ==
  <<Li(t0, value), Beq(reg, t0, 12), Li(TESTNUM, 100)>> \o RVTEST_FAIL
=============================================================================
