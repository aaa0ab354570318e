-------------------------------- MODULE Rv32 --------------------------------
(***************************************************************************)
(* The instructions that the programs of the test benches use, and what    *)
(* each computes from the values of its operands (rtl/riscv_decoder.sv,    *)
(* rtl/riscv_alu.sv).  An instruction is a record; its encoding is left    *)
(* out, and words are integers that stay far inside 32 bits, -1 for        *)
(* 0xffffffff.                                                             *)
(***************************************************************************)
EXTENDS Integers, Sequences

Registers == 0 .. 31

I(op, rd, rs1, rs2, imm) ==
  [op |-> op, rd |-> rd, rs1 |-> rs1, rs2 |-> rs2, imm |-> imm]

Addi(rd, rs1, imm) == I("addi", rd, rs1, 0, imm)
Li(rd, value) == Addi(rd, 0, value)
Nop == Addi(0, 0, 0)
Andi(rd, rs1, bit) == I("andi", rd, rs1, 0, bit)     \* of a single bit
Lui(rd, page) == I("lui", rd, 0, 0, page)
Auipc(rd, page) == I("auipc", rd, 0, 0, page)
Add(rd, rs1, rs2) == I("add", rd, rs1, rs2, 0)
Load(rd, imm, rs1) == I("load", rd, rs1, 0, imm)
Store(rs2, imm, rs1) == I("store", 0, rs1, rs2, imm)
Bne(rs1, rs2, offset) == I("bne", 0, rs1, rs2, offset)
Beq(rs1, rs2, offset) == I("beq", 0, rs1, rs2, offset)
Jal(rd, offset) == I("jal", rd, 0, 0, offset)
Jalr(rd, rs1, imm) == I("jalr", rd, rs1, 0, imm)
Illegal == I("illegal", 0, 0, 0, 0)                  \* what zeros decode to

\* Signed, rounded to zero.
Divided(a, b) ==
  LET Size(x) == IF x < 0 THEN -x ELSE x
      q == Size(a) \div Size(b) IN
  IF b = 0 THEN -1 ELSE IF (a < 0) = (b < 0) THEN q ELSE -q

\* The value written to rd, given the values of the operands.
Result(i, pc, a, b) ==
  CASE i.op = "addi" -> a + i.imm
    [] i.op = "andi" -> i.imm * ((a \div i.imm) % 2)
    [] i.op = "lui" -> i.imm * 4096
    [] i.op = "auipc" -> pc + i.imm * 4096
    [] i.op = "add" -> a + b
    [] i.op = "div" -> Divided(a, b)
    [] i.op \in {"jal", "jalr"} -> pc + 4

Taken(i, a, b) == (i.op = "bne" /\ a # b) \/ (i.op = "beq" /\ a = b)

NextPc(i, pc, a, b) ==
  CASE i.op = "jal" \/ Taken(i, a, b) -> pc + i.imm
    [] i.op = "jalr" -> a + i.imm
    [] OTHER -> pc + 4

Computes(i) == i.op \in {"addi", "andi", "lui", "auipc", "add", "div", "jal", "jalr"}

\* Register 0 reads as zero, whatever is written to it.
Written(regs, rd, value) == IF rd = 0 THEN regs ELSE [regs EXCEPT ![rd] = value]

\* A program in memory, from base on.
In(program, base, pc) ==
  pc >= base /\ pc < base + 4 * Len(program) /\ (pc - base) % 4 = 0
At(program, base, pc) == program[((pc - base) \div 4) + 1]
=============================================================================
