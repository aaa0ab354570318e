------------------------- MODULE DebugSessionProofs -------------------------
(***************************************************************************)
(* A debug session leaves no trace in the program it stops, for every      *)
(* length of that program, hart, flag and duration of the request, if the  *)
(* core enters debug mode where the debug program is and the request stays *)
(* up until it has (Fits).                                                 *)
(***************************************************************************)
EXTENDS DebugSession, TLAPS

Fits == DM_HaltAddress = BASEdebugPROGaddr /\ HoldsRequest

-----------------------------------------------------------------------------
(* The invariant. *)

Types ==
  /\ pc \in Int /\ depc \in Int /\ debug_mode \in BOOLEAN
  /\ regs \in [Registers -> Int]
  /\ mem \in [DataAddress -> Int]
  /\ dscratch \in [{"dscratch0", "dscratch1"} -> Int]

\* Between seeing the request and debug mode, the request stays up.
Entering == ctrl # "DECODE" => ~debug_mode /\ debug_req_i

\* A flag that is set was set together with the word at the whereto address.
FlagSet ==
  /\ mem[FlagAt(MHartId)] \in {0, FLAGgo, FLAGresume}
  /\ mem[FlagAt(MHartId)] # 0 => whereto_written

\* Where debug mode is in its program, the whereto word included, and what it has
\* in the two registers it uses.
Places == {0, 4, 12, 16, 20, 24, 28, 32, 36, 40, 44, 48, 52, 56, 60, 64, 68, 72, 84, 88, 92, 96,
           100, 104, 108, 112, 116, 120, -1280}
BaseInA0 == {32, 36, 40, 44, 48, 52, 56, 60, 64, 68, 72, 84, 88, 108}
InDebugProgram ==
  debug_mode =>
    /\ Offset \in Places
    /\ Offset \in BaseInA0 => regs[a0] = BASEdebug
    /\ Offset \in {28, 32, 36, 56} => regs[s0] = MHartId
    /\ Offset \in {40, 60} => regs[s0] = MHartId + BASEdebug
    /\ Offset = 44 => regs[s0] \in {0, 1, 2}
    /\ Offset \in {44, 48} /\ regs[s0] # 0 => whereto_written
    /\ Offset \in {84, 88, 92, 96, -1280} => whereto_written
    /\ Offset \in {116, 120} => regs[s0] = dscratch["dscratch0"]
    /\ Offset = 120 => regs[a0] = dscratch["dscratch1"]

\* The program: it is inside its code, or at the trap base behind it, and stores
\* to 64 only.
UserPc == IF debug_mode THEN depc ELSE pc
UserAt(k) == UserPc = STARTprogrammADDR + 4 * k
InUserProgram ==
  /\ UserPc = TrapBase \/ \E k \in 0 .. Len(UserProgram) : UserAt(k)
  /\ \A k \in 0 .. Len(UserProgram) - 1 :
       UserAt(k) /\ UserProgram[k + 1] \in {Li(14, 102), Store(14, 0, 15)} => UserRegs[15] = 64
  /\ UserRegs[0] = 0

SessionInv == Types /\ Entering /\ FlagSet /\ InDebugProgram /\ InUserProgram

-----------------------------------------------------------------------------
(* The two programs, instruction by instruction. *)

LEMMA DebugCode ==
  /\ Len(DebugProgram) = 31
  /\ DebugProgram[1] = Jal(0, 12)
  /\ DebugProgram[2] = Jal(0, 96)
  /\ DebugProgram[3] = Jal(0, 68)
  /\ DebugProgram[4] = Nop
  /\ DebugProgram[5] = Csrw("dscratch0", s0)
  /\ DebugProgram[6] = Csrw("dscratch1", a0)
  /\ DebugProgram[7] = Csrr(s0, "mhartid")
  /\ DebugProgram[8] = Lui(a0, 160)
  /\ DebugProgram[9] = Store(s0, 256, a0)
  /\ DebugProgram[10] = Add(s0, s0, a0)
  /\ DebugProgram[11] = Load(s0, 1024, s0)
  /\ DebugProgram[12] = Andi(s0, s0, FLAGgo)
  /\ DebugProgram[13] = Bne(s0, 0, 36)
  /\ DebugProgram[14] = Csrr(s0, "mhartid")
  /\ DebugProgram[15] = Add(s0, s0, a0)
  /\ DebugProgram[16] = Load(s0, 1024, s0)
  /\ DebugProgram[17] = Andi(s0, s0, FLAGresume)
  /\ DebugProgram[18] = Bne(s0, 0, -64)
  /\ DebugProgram[19] = Jal(0, -48)
  /\ DebugProgram[20] = Store(0, 268, a0)
  /\ DebugProgram[21] = Ebreak
  /\ DebugProgram[22] = Csrr(s0, "dscratch0")
  /\ DebugProgram[23] = Store(0, 260, a0)
  /\ DebugProgram[24] = Csrr(a0, "dscratch1")
  /\ DebugProgram[25] = Jal(0, -1376)
  /\ DebugProgram[26] = Csrr(s0, "mhartid")
  /\ DebugProgram[27] = Lui(a0, 160)
  /\ DebugProgram[28] = Store(s0, 264, a0)
  /\ DebugProgram[29] = Csrr(s0, "dscratch0")
  /\ DebugProgram[30] = Csrr(a0, "dscratch1")
  /\ DebugProgram[31] = Dret
BY DEF DebugProgram, Vectors, Saves, Park, ExceptionEntry, GoingEntry, ResumeEntry

\* What the program consists of.
Settings == [op : {"addi"}, rd : 1 .. 31, rs1 : {0}, rs2 : {0}, imm : Int]
Ecall == I("ecall", 0, 0, 0, 0)
UserCodes == Settings \cup {Store(14, 0, 15), Ecall}

LEMMA SettingsAreCodes == \A rd \in 1 .. 31, v \in Int : Li(rd, v) \in UserCodes
BY DEF UserCodes, Settings, Li, Addi, I

LEMMA ProgramParts ==
  LET n == 3 * RepeatFactor IN
  /\ n \in Nat
  /\ StoreWords \in Seq(UserCodes) /\ StoreWordsAgain \in Seq(UserCodes)
  /\ AllOnes \in Seq(UserCodes) /\ ExitArguments \in Seq(UserCodes) /\ Exit \in Seq(UserCodes)
  /\ Len(StoreWords) = n /\ Len(StoreWordsAgain) = n
  /\ Len(AllOnes) = 31 /\ Len(ExitArguments) = 4 /\ Len(Exit) = 5
  /\ \A k \in 1 .. n :
       /\ StoreWords[k] = StoreWord[((k - 1) % 3) + 1]
       /\ StoreWordsAgain[k] = StoreWord[((k - 1) % 3) + 1]
  /\ \A k \in 1 .. 31 : AllOnes[k] = Li(k, -1)
<1> DEFINE n == 3 * RepeatFactor
<1>1. Len(StoreWord) = 3 /\ StoreWord[1] = Li(15, 64) /\ StoreWord[2] = Li(14, 102)
      /\ StoreWord[3] = Store(14, 0, 15)
  BY DEF StoreWord
<1>2. /\ StoreWords = [k \in 1 .. n |-> StoreWord[((k - 1) % 3) + 1]]
      /\ StoreWordsAgain = [k \in 1 .. n |-> StoreWord[((k - 1) % 3) + 1]]
  BY <1>1 DEF StoreWords, StoreWordsAgain, Repeated
<1>3. n \in Nat
  BY RepeatAssumption
<1>4. \A j \in 1 .. 3 : StoreWord[j] \in UserCodes
  BY <1>1, SettingsAreCodes DEF UserCodes
<1> HIDE DEF n
<1>5. ASSUME NEW k \in 1 .. n PROVE StoreWord[((k - 1) % 3) + 1] \in UserCodes
  <2>1. ((k - 1) % 3) + 1 \in 1 .. 3
    BY <1>3
  <2>2. QED BY <1>4, <2>1
<1>6. /\ StoreWords \in Seq(UserCodes) /\ Len(StoreWords) = n
      /\ StoreWordsAgain \in Seq(UserCodes) /\ Len(StoreWordsAgain) = n
  BY <1>2, <1>3, <1>5
<1>7. AllOnes \in Seq(UserCodes) /\ Len(AllOnes) = 31 /\ \A k \in 1 .. 31 : AllOnes[k] = Li(k, -1)
  <2>1. AllOnes = [k \in 1 .. 31 |-> Li(k, -1)]
    BY DEF AllOnes
  <2>2. \A k \in 1 .. 31 : Li(k, -1) \in UserCodes
    BY SettingsAreCodes
  <2>3. QED BY <2>1, <2>2
<1>8. ExitArguments \in Seq(UserCodes) /\ Len(ExitArguments) = 4
  <2>1. Li(11, 0) \in UserCodes /\ Li(12, 0) \in UserCodes /\ Li(13, 0) \in UserCodes
        /\ Li(17, 93) \in UserCodes
    BY SettingsAreCodes
  <2>2. QED BY <2>1 DEF ExitArguments
<1>9. Exit \in Seq(UserCodes) /\ Len(Exit) = 5
  <2>1. Li(11, 0) \in UserCodes /\ Li(12, 0) \in UserCodes /\ Li(13, 0) \in UserCodes
        /\ Li(17, 93) \in UserCodes /\ I("ecall", 0, 0, 0, 0) \in UserCodes
    BY SettingsAreCodes DEF UserCodes, Ecall
  <2>2. QED BY <2>1 DEF Exit
<1>10. QED BY <1>2, <1>3, <1>6, <1>7, <1>8, <1>9 DEF n

\* The program stores a word after the instructions that make it and its address.
Prepared(s) ==
  /\ s \in Seq(UserCodes)
  /\ \A k \in 1 .. Len(s) :
       /\ s[k] = Li(14, 102) => k > 1 /\ s[k - 1] = Li(15, 64)
       /\ s[k] = Store(14, 0, 15) => k > 1 /\ s[k - 1] = Li(14, 102)

LEMMA PreparedJoined ==
  ASSUME NEW s, NEW t, Prepared(s), Prepared(t)
  PROVE  Prepared(s \o t)
<1>1. /\ s \in Seq(UserCodes) /\ t \in Seq(UserCodes)
      /\ Len(s) \in Nat /\ Len(t) \in Nat
  BY DEF Prepared
<1>2. s \o t \in Seq(UserCodes) /\ Len(s \o t) = Len(s) + Len(t)
  BY <1>1
<1>3. \A k \in 1 .. Len(s) : (s \o t)[k] = s[k]
  BY <1>1
<1>4. \A k \in 1 .. Len(t) : (s \o t)[Len(s) + k] = t[k]
  BY <1>1
<1>5. ASSUME NEW k \in 1 .. Len(s \o t)
      PROVE  /\ (s \o t)[k] = Li(14, 102) => k > 1 /\ (s \o t)[k - 1] = Li(15, 64)
             /\ (s \o t)[k] = Store(14, 0, 15) => k > 1 /\ (s \o t)[k - 1] = Li(14, 102)
  <2>1. CASE k <= Len(s)
    <3>1. k \in 1 .. Len(s) /\ (k > 1 => k - 1 \in 1 .. Len(s))
      BY <1>1, <2>1
    <3>2. (s \o t)[k] = s[k] /\ (k > 1 => (s \o t)[k - 1] = s[k - 1])
      BY <1>3, <3>1
    <3>3. QED BY <3>1, <3>2 DEF Prepared
  <2>2. CASE k > Len(s)
    <3> DEFINE j == k - Len(s)
    <3>1. /\ j \in 1 .. Len(t) /\ (j > 1 => j - 1 \in 1 .. Len(t))
          /\ Len(s) + j = k /\ Len(s) + (j - 1) = k - 1 /\ (j > 1 => k > 1)
      BY <1>1, <1>2, <2>2
    <3>2. (s \o t)[k] = t[j]
      BY <1>4, <3>1
    <3>3. j > 1 => (s \o t)[k - 1] = t[j - 1]
      BY <1>4, <3>1
    <3>4. /\ t[j] = Li(14, 102) => j > 1 /\ t[j - 1] = Li(15, 64)
          /\ t[j] = Store(14, 0, 15) => j > 1 /\ t[j - 1] = Li(14, 102)
      BY <3>1 DEF Prepared
    <3>5. QED BY <3>1, <3>2, <3>3, <3>4
  <2>3. QED BY <1>1, <1>2, <2>1, <2>2
<1>6. QED BY <1>2, <1>5 DEF Prepared

LEMMA UserCode == Prepared(UserProgram)
<1> DEFINE n == 3 * RepeatFactor
<1>0. n \in Nat
  BY ProgramParts
<1>1. Li(15, 64) # Li(14, 102) /\ Li(15, 64) # Store(14, 0, 15) /\ Li(14, 102) # Store(14, 0, 15)
  BY DEF Li, Addi, Store, I
<1>2. StoreWord[1] = Li(15, 64) /\ StoreWord[2] = Li(14, 102) /\ StoreWord[3] = Store(14, 0, 15)
  BY DEF StoreWord
<1>3. ASSUME NEW s \in Seq(UserCodes), Len(s) = n,
             \A k \in 1 .. n : s[k] = StoreWord[((k - 1) % 3) + 1]
      PROVE  Prepared(s)
  <2> HIDE DEF n
  <2>1. ASSUME NEW k \in 1 .. n
        PROVE  /\ s[k] = Li(14, 102) => k > 1 /\ s[k - 1] = Li(15, 64)
               /\ s[k] = Store(14, 0, 15) => k > 1 /\ s[k - 1] = Li(14, 102)
    <3>1. (k - 1) % 3 \in 0 .. 2
      BY <1>0
    <3>2. CASE (k - 1) % 3 = 0
      BY <1>1, <1>2, <1>3, <3>2
    <3>3. CASE (k - 1) % 3 = 1
      <4>1. k > 1 /\ k - 1 \in 1 .. n /\ (k - 1 - 1) % 3 = 0
        BY <1>0, <3>3
      <4>2. s[k] = Li(14, 102) /\ s[k - 1] = Li(15, 64)
        BY <1>2, <1>3, <3>3, <4>1
      <4>3. QED BY <1>1, <4>1, <4>2
    <3>4. CASE (k - 1) % 3 = 2
      <4>1. k > 1 /\ k - 1 \in 1 .. n /\ (k - 1 - 1) % 3 = 1
        BY <1>0, <3>4
      <4>2. s[k] = Store(14, 0, 15) /\ s[k - 1] = Li(14, 102)
        BY <1>2, <1>3, <3>4, <4>1
      <4>3. QED BY <1>1, <4>1, <4>2
    <3>5. QED BY <3>1, <3>2, <3>3, <3>4
  <2>2. QED BY <1>3, <2>1 DEF Prepared
<1>4. Prepared(StoreWords) /\ Prepared(StoreWordsAgain)
  BY <1>3, ProgramParts
<1>5. ASSUME NEW rd \in 1 .. 31, NEW v \in Int, v # 102 \/ rd # 14
      PROVE  Li(rd, v) # Li(14, 102) /\ Li(rd, v) # Store(14, 0, 15)
  BY <1>5 DEF Li, Addi, Store, I
<1>6. Prepared(AllOnes)
  <2>1. \A k \in 1 .. 31 : Li(k, -1) # Li(14, 102) /\ Li(k, -1) # Store(14, 0, 15)
    BY DEF Li, Addi, Store, I
  <2>2. \A k \in 1 .. 31 : AllOnes[k] = Li(k, -1)
    BY ProgramParts
  <2>3. Len(AllOnes) = 31 /\ AllOnes \in Seq(UserCodes)
    BY ProgramParts
  <2>4. QED BY <2>1, <2>2, <2>3 DEF Prepared
<1>7. Prepared(ExitArguments)
  <2>1. /\ ExitArguments[1] = Li(11, 0) /\ ExitArguments[2] = Li(12, 0)
        /\ ExitArguments[3] = Li(13, 0) /\ ExitArguments[4] = Li(17, 93)
    BY DEF ExitArguments
  <2>2. \A k \in 1 .. 4 : ExitArguments[k] # Li(14, 102) /\ ExitArguments[k] # Store(14, 0, 15)
    BY <1>5, <2>1
  <2>3. QED BY <2>2, ProgramParts DEF Prepared
<1>8. Prepared(Exit)
  <2>1. /\ Exit[1] = Li(11, 0) /\ Exit[2] = Li(12, 0) /\ Exit[3] = Li(13, 0)
        /\ Exit[4] = Li(17, 93) /\ Exit[5] = Ecall
    BY DEF Exit, Ecall
  <2>2. Ecall # Li(14, 102) /\ Ecall # Store(14, 0, 15)
    BY DEF Ecall, Li, Addi, Store, I
  <2>3. \A k \in 1 .. 5 : Exit[k] # Li(14, 102) /\ Exit[k] # Store(14, 0, 15)
    BY <1>5, <2>1, <2>2
  <2>4. QED BY <2>3, ProgramParts DEF Prepared
<1>9. QED BY <1>4, <1>6, <1>7, <1>8, PreparedJoined DEF UserProgram

-----------------------------------------------------------------------------
(* What an instruction does, kind by kind. *)

Quiet == UNCHANGED <<mem, debug_mode, depc, dscratch, ctrl>>

LEMMA Kinds ==
  ASSUME Execute
  PROVE  /\ ctrl = "DECODE"
         /\ Computes(instr) => Compute
         /\ instr.op \in {"bne", "beq"} => Branch
         /\ instr.op \in {"load", "store"} => LoadOrStore
         /\ instr.op \in {"csrr", "csrw"} => CsrAccess
         /\ instr.op \in {"ecall", "illegal"} => Exception
         /\ instr.op = "dret" => DebugReturn
<1> SUFFICES ASSUME ctrl = "DECODE",
                    Compute \/ Branch \/ LoadOrStore \/ CsrAccess \/ Exception
                    \/ DebugReturn \/ DebugAgain
    PROVE  /\ Computes(instr) => Compute
           /\ instr.op \in {"bne", "beq"} => Branch
           /\ instr.op \in {"load", "store"} => LoadOrStore
           /\ instr.op \in {"csrr", "csrw"} => CsrAccess
           /\ instr.op \in {"ecall", "illegal"} => Exception
           /\ instr.op = "dret" => DebugReturn
  BY DEF Execute
<1>1. Compute => Computes(instr)
  BY DEF Compute
<1>2. Branch => instr.op \in {"bne", "beq"}
  BY DEF Branch
<1>3. LoadOrStore => instr.op \in {"load", "store"}
  BY DEF LoadOrStore
<1>4. CsrAccess => instr.op \in {"csrr", "csrw"}
  BY DEF CsrAccess
<1>5. Exception => instr.op \in {"ecall", "illegal", "ebreak"}
  BY DEF Exception
<1>6. DebugReturn => instr.op = "dret"
  BY DEF DebugReturn
<1>7. DebugAgain => instr.op = "ebreak"
  BY DEF DebugAgain
<1>8. Computes(instr) => instr.op \in {"addi", "andi", "lui", "auipc", "add", "div", "jal", "jalr"}
  BY DEF Computes
<1>9. QED BY <1>1, <1>2, <1>3, <1>4, <1>5, <1>6, <1>7, <1>8

LEMMA Jumps ==
  ASSUME Execute, NEW o \in Int, instr = Jal(0, o)
  PROVE  pc' = pc + o /\ regs' = regs /\ Quiet
<1>1. Compute
  BY Kinds DEF Computes, Jal, I
<1>2. QED BY <1>1 DEF Compute, NextInstr, NextPc, Written, Jal, I, Quiet

LEMMA SetsImmediate ==
  ASSUME Execute, Types, regs[0] = 0, NEW rd \in Registers, NEW v \in Int, instr = Li(rd, v)
  PROVE  pc' = pc + 4 /\ regs' = Written(regs, rd, v) /\ Quiet
<1>1. Compute
  BY Kinds DEF Computes, Li, Addi, I
<1>2. NextPc(instr, pc, a, b) = pc + 4
  BY DEF NextPc, Taken, Li, Addi, I
<1>3. instr.rd = rd /\ a = 0 /\ Result(instr, pc, a, b) = v
  BY DEF Result, a, Li, Addi, I
<1>4. QED BY <1>1, <1>2, <1>3 DEF Compute, NextInstr, Quiet

Bit(v, x) == v * ((x \div v) % 2)

LEMMA KeepsBit ==
  ASSUME Execute, NEW r \in Registers, NEW v \in Int, instr = Andi(r, r, v)
  PROVE  pc' = pc + 4 /\ regs' = Written(regs, r, Bit(v, regs[r])) /\ Quiet
<1>1. Compute
  BY Kinds DEF Computes, Andi, I
<1>2. NextPc(instr, pc, a, b) = pc + 4
  BY DEF NextPc, Taken, Andi, I
<1>3. instr.rd = r /\ Result(instr, pc, a, b) = Bit(v, regs[r])
  BY DEF Result, Bit, a, Andi, I
<1>4. QED BY <1>1, <1>2, <1>3 DEF Compute, NextInstr, Quiet

LEMMA SetsPage ==
  ASSUME Execute, NEW rd \in Registers, NEW page \in Int, instr = Lui(rd, page)
  PROVE  pc' = pc + 4 /\ regs' = Written(regs, rd, page * 4096) /\ Quiet
<1>1. Compute
  BY Kinds DEF Computes, Lui, I
<1>2. NextPc(instr, pc, a, b) = pc + 4
  BY DEF NextPc, Taken, Lui, I
<1>3. instr.rd = rd /\ Result(instr, pc, a, b) = page * 4096
  BY DEF Result, Lui, I
<1>4. QED BY <1>1, <1>2, <1>3 DEF Compute, NextInstr, Quiet

LEMMA Adds ==
  ASSUME Execute, NEW r \in Registers, NEW q \in Registers, instr = Add(r, r, q)
  PROVE  pc' = pc + 4 /\ regs' = Written(regs, r, regs[r] + regs[q]) /\ Quiet
<1>1. Compute
  BY Kinds DEF Computes, Add, I
<1>2. NextPc(instr, pc, a, b) = pc + 4
  BY DEF NextPc, Taken, Add, I
<1>3. instr.rd = r /\ Result(instr, pc, a, b) = regs[r] + regs[q]
  BY DEF Result, a, b, Add, I
<1>4. QED BY <1>1, <1>2, <1>3 DEF Compute, NextInstr, Quiet

LEMMA Branches ==
  ASSUME Execute, NEW r \in Registers, NEW o \in Int, instr = Bne(r, 0, o)
  PROVE  /\ pc' = IF regs[r] # regs[0] THEN pc + o ELSE pc + 4
         /\ regs' = regs /\ Quiet
<1>1. Branch
  BY Kinds DEF Bne, I
<1>2. NextPc(instr, pc, a, b) = IF regs[r] # regs[0] THEN pc + o ELSE pc + 4
  BY DEF NextPc, Taken, a, b, Bne, I
<1>3. QED BY <1>1, <1>2 DEF Branch, NextInstr, Quiet

LEMMA Loads ==
  ASSUME Execute, NEW rd \in Registers, NEW o \in Int, NEW r \in Registers, instr = Load(rd, o, r)
  PROVE  /\ pc' = pc + 4 /\ regs' = Written(regs, rd, mem[regs[r] + o])
         /\ Quiet
<1>1. LoadOrStore
  BY Kinds DEF Load, I
<1>2. NextPc(instr, pc, a, b) = pc + 4
  BY DEF NextPc, Taken, Load, I
<1>3. instr.op = "load" /\ instr.rd = rd /\ a + instr.imm = regs[r] + o
  BY DEF a, Load, I
<1>4. ctrl' = ctrl
  BY <1>1 DEF LoadOrStore
<1>5. QED BY <1>1, <1>2, <1>3, <1>4 DEF LoadOrStore, NextInstr, Quiet

Saved(d, v) ==
  mem' = [mem EXCEPT ![d] = v] /\ UNCHANGED <<regs, debug_mode, depc, dscratch, ctrl>>

LEMMA Stores ==
  ASSUME Execute, NEW q \in Registers, NEW o \in Int, NEW r \in Registers, instr = Store(q, o, r)
  PROVE  pc' = pc + 4 /\ Saved(regs[r] + o, regs[q])
<1>1. LoadOrStore
  BY Kinds DEF Store, I
<1>2. NextPc(instr, pc, a, b) = pc + 4
  BY DEF NextPc, Taken, Store, I
<1>3. instr.op = "store" /\ a + instr.imm = regs[r] + o /\ b = regs[q]
  BY DEF a, b, Store, I
<1>4. QED BY <1>1, <1>2, <1>3 DEF LoadOrStore, NextInstr, Saved

LEMMA ReadsCsr ==
  ASSUME Execute, NEW rd \in Registers, NEW csr, instr = Csrr(rd, csr)
  PROVE  /\ pc' = pc + 4
         /\ regs' = Written(regs, rd, IF csr = "mhartid" THEN MHartId ELSE dscratch[csr])
         /\ Quiet
<1>1. CsrAccess
  BY Kinds DEF Csrr
<1>2. NextPc(instr, pc, a, b) = pc + 4
  BY DEF NextPc, Taken, Csrr
<1>3. instr.op = "csrr" /\ instr.rd = rd /\ instr.csr = csr
  BY DEF Csrr
<1>4. QED BY <1>1, <1>2, <1>3 DEF CsrAccess, NextInstr, Quiet

LEMMA WritesCsr ==
  ASSUME Execute, NEW csr, NEW r \in Registers, instr = Csrw(csr, r)
  PROVE  /\ pc' = pc + 4 /\ dscratch' = [dscratch EXCEPT ![csr] = regs[r]]
         /\ UNCHANGED <<regs, mem, debug_mode, depc, ctrl>>
<1>1. CsrAccess
  BY Kinds DEF Csrw
<1>2. NextPc(instr, pc, a, b) = pc + 4
  BY DEF NextPc, Taken, Csrw
<1>3. instr.op = "csrw" /\ instr.csr = csr /\ a = regs[r]
  BY DEF a, Csrw
<1>4. QED BY <1>1, <1>2, <1>3 DEF CsrAccess, NextInstr

-----------------------------------------------------------------------------
(* Debug mode. *)

LEMMA Numbers ==
  /\ BASEdebugPROGaddr = 657408 /\ BASEdebug = 655360 /\ wheretoADDRESS = 656128
  /\ FlagAt(MHartId) = 656384 + MHartId /\ FlagAt(FlagHart) = 656384 + FlagHart
  /\ s0 = 8 /\ a0 = 10 /\ FLAGgo = 1 /\ FLAGresume = 2 /\ FLAGloop = 0
  /\ STARTprogrammADDR = 128 /\ AddressSpace = 1048576 /\ TrapBase = 0
BY DEF BASEdebugPROGaddr, BASEdebug, wheretoADDRESS, FlagAt, FlagADDRESSbase, s0, a0, FLAGgo,
       FLAGresume, FLAGloop, STARTprogrammADDR, AddressSpace, TrapBase

\* The instruction at each place of the debug program.
LEMMA DebugInstr ==
  ASSUME SessionInv, debug_mode
  PROVE  /\ Offset \in Places /\ pc = BASEdebugPROGaddr + Offset
         /\ Offset \in Places \ {-1280} => instr = DebugProgram[(Offset \div 4) + 1]
         /\ Offset = -1280 => instr = ToResume
<1>1. pc \in Int /\ Offset = pc - BASEdebugPROGaddr /\ Offset \in Places
  BY DEF SessionInv, Types, InDebugProgram, Offset
<1>2. pc = BASEdebugPROGaddr + Offset /\ Offset \in Int
  BY <1>1, Numbers
<1>3. pc % AddressSpace = pc
  BY <1>1, <1>2, Numbers DEF Places
<1>4. Len(DebugProgram) = 31
  BY DebugCode
<1>5. ASSUME Offset \in Places \ {-1280}
      PROVE  instr = DebugProgram[(Offset \div 4) + 1]
  <2>1. Offset >= 0 /\ Offset < 124 /\ Offset % 4 = 0
    BY <1>5 DEF Places
  <2>2. In(DebugProgram, BASEdebugPROGaddr, pc)
    BY <1>2, <1>4, <2>1, Numbers DEF In
  <2>3. At(DebugProgram, BASEdebugPROGaddr, pc) = DebugProgram[(Offset \div 4) + 1]
    BY DEF At, Offset
  <2>4. QED BY <1>3, <2>2, <2>3 DEF instr, Fetched
<1>6. ASSUME Offset = -1280
      PROVE  instr = ToResume
  <2>1. pc = wheretoADDRESS
    BY <1>2, <1>6, Numbers
  <2>2. ~In(DebugProgram, BASEdebugPROGaddr, pc)
    BY <2>1, Numbers DEF In
  <2>3. whereto_written
    BY <1>6 DEF SessionInv, InDebugProgram
  <2>4. QED BY <1>3, <2>1, <2>2, <2>3 DEF instr, Fetched
<1>7. QED BY <1>1, <1>2, <1>5, <1>6

\* A session leaves the program as it is.
Untouched == UserPc' = UserPc /\ UserRegs' = UserRegs /\ mem'[64] = mem[64]

LEMMA UserKept ==
  ASSUME SessionInv, Untouched
  PROVE  InUserProgram'
<1>1. InUserProgram
  BY DEF SessionInv
<1>2. QED BY <1>1 DEF InUserProgram, UserAt, Untouched

LEMMA RegistersOnly ==
  ASSUME SessionInv, debug_mode, ctrl = "DECODE", UNCHANGED hostVars, Quiet,
         Offset \notin {0, 12, 16, 20}, Offset' \notin {0, 12, 16, 20}, pc' \in Int,
         NEW r \in {s0, a0}, NEW v \in Int, regs' = Written(regs, r, v), InDebugProgram'
  PROVE  SessionInv' /\ Untouched
<1>1. Types /\ FlagSet
  BY DEF SessionInv
<1>2. r \in {8, 10} /\ regs' = [regs EXCEPT ![r] = v] /\ regs \in [Registers -> Int]
  BY <1>1, Numbers DEF Written, Types
<1>3. Types'
  BY <1>1, <1>2 DEF Types, Quiet, Registers
<1>4. FlagSet' /\ Entering'
  BY <1>1 DEF FlagSet, Entering, Quiet, hostVars
<1>5. UserRegs' = UserRegs
  BY <1>2, Numbers DEF UserRegs, Quiet, Registers
<1>6. Untouched
  BY <1>5 DEF Untouched, UserPc, Quiet
<1>7. QED BY <1>3, <1>4, <1>6, UserKept DEF SessionInv

LEMMA PcOnly ==
  ASSUME SessionInv, debug_mode, ctrl = "DECODE", UNCHANGED hostVars, Quiet,
         \/ Offset \in {0, 12, 16} /\ Offset' \in {0, 12, 16}
         \/ Offset \notin {0, 12, 16, 20} /\ Offset' \notin {0, 12, 16, 20},
         pc' \in Int, regs' = regs, InDebugProgram'
  PROVE  SessionInv' /\ Untouched
<1>1. Types /\ FlagSet
  BY DEF SessionInv
<1>2. Types'
  BY <1>1 DEF Types, Quiet
<1>3. FlagSet' /\ Entering'
  BY <1>1 DEF FlagSet, Entering, Quiet, hostVars
<1>4. UserRegs' = UserRegs
  BY DEF UserRegs, Quiet
<1>5. Untouched
  BY <1>4 DEF Untouched, UserPc, Quiet
<1>6. QED BY <1>2, <1>3, <1>5, UserKept DEF SessionInv

\* The stores of the debug program meet neither the word of the program nor a flag.
LEMMA MemoryOnly ==
  ASSUME SessionInv, debug_mode, ctrl = "DECODE", UNCHANGED hostVars,
         Offset \notin {0, 12, 16, 20}, Offset' \notin {0, 12, 16, 20}, pc' \in Int,
         NEW d \in {256, 260, 264}, NEW r \in Registers,
         Saved(BASEdebug + d, regs[r]), InDebugProgram'
  PROVE  SessionInv' /\ Untouched
<1>1. Types /\ FlagSet
  BY DEF SessionInv
<1>2. /\ regs[r] \in Int /\ BASEdebug + d # 64 /\ BASEdebug + d # FlagAt(MHartId)
      /\ BASEdebug + d \in Int /\ FlagAt(MHartId) \in Int
  BY <1>1, Numbers, AddressAssumption DEF Types
<1>3. 64 \in DataAddress /\ FlagAt(MHartId) \in DataAddress
  BY DEF DataAddress
<1>4. mem'[64] = mem[64] /\ mem'[FlagAt(MHartId)] = mem[FlagAt(MHartId)]
  BY <1>1, <1>2, <1>3 DEF Types, Saved
<1>5. Types'
  BY <1>1, <1>2 DEF Types, Saved
<1>6. FlagSet' /\ Entering'
  <2>1. FlagAt(MHartId)' = FlagAt(MHartId)
    BY DEF FlagAt, FlagADDRESSbase
  <2>2. QED BY <1>1, <1>4, <2>1 DEF FlagSet, Entering, hostVars, Saved
<1>7. UserRegs' = UserRegs
  BY DEF UserRegs, Saved
<1>8. Untouched
  BY <1>4, <1>7 DEF Untouched, UserPc, Saved
<1>9. QED BY <1>5, <1>6, <1>8, UserKept DEF SessionInv

LEMMA DebugExecute ==
  ASSUME SessionInv, debug_mode, Execute, UNCHANGED hostVars
  PROVE  SessionInv' /\ Untouched
<1>1. ctrl = "DECODE" /\ Types /\ FlagSet /\ InDebugProgram /\ UNCHANGED whereto_written
  BY Kinds DEF SessionInv, hostVars
<1>2. /\ pc \in Int /\ pc = BASEdebugPROGaddr + Offset /\ BASEdebugPROGaddr \in Int
      /\ Offset \in Places /\ Offset \in Int
  BY <1>1, DebugInstr, Numbers DEF Types, Offset
<1>3. ASSUME NEW d \in Int, pc' = pc + d
      PROVE  pc' \in Int /\ Offset' = Offset + d
  BY <1>2, <1>3 DEF Offset
<1>4. 0 \in Registers /\ s0 \in Registers /\ a0 \in Registers
  BY Numbers DEF Registers
<1>5. regs[0] = 0
  <2>1. UserRegs[0] = 0
    BY DEF SessionInv, InUserProgram
  <2>2. QED BY <1>4, <2>1, Numbers DEF UserRegs
<1>6. /\ regs \in [Registers -> Int] /\ mem \in [DataAddress -> Int]
      /\ dscratch["dscratch0"] \in Int /\ dscratch["dscratch1"] \in Int
  BY <1>1 DEF Types
<1>7. FlagAt(MHartId) \in DataAddress /\ FlagAt(MHartId) = MHartId + BASEdebug + 1024
  BY Numbers, AddressAssumption DEF DataAddress
<1>8. ASSUME Offset \in Places \ {-1280}
      PROVE  instr = DebugProgram[(Offset \div 4) + 1]
  BY <1>8, DebugInstr
<1>9. CASE Offset = 0
  <2>1. instr = Jal(0, 12)
    BY <1>9, <1>8, DebugCode DEF Places
  <2>2. pc' = pc + (12) /\ regs' = regs /\ Quiet
    BY <2>1, Jumps
  <2>3. pc' \in Int /\ Offset' = 12
    BY <1>3, <2>2, <1>9
  <2>4. InDebugProgram'
    BY <1>1, <2>2, <2>3, <1>9, Numbers DEF InDebugProgram, Places, BaseInA0, Quiet
  <2>5. QED BY <1>1, <2>2, <2>3, <2>4, <1>9, PcOnly
<1>10. CASE Offset = 4
  <2>1. instr = Jal(0, 96)
    BY <1>10, <1>8, DebugCode DEF Places
  <2>2. pc' = pc + (96) /\ regs' = regs /\ Quiet
    BY <2>1, Jumps
  <2>3. pc' \in Int /\ Offset' = 100
    BY <1>3, <2>2, <1>10
  <2>4. InDebugProgram'
    BY <1>1, <2>2, <2>3, <1>10, Numbers DEF InDebugProgram, Places, BaseInA0, Quiet
  <2>5. QED BY <1>1, <2>2, <2>3, <2>4, <1>10, PcOnly
<1>11. CASE Offset = 12
  <2>1. instr = Nop
    BY <1>11, <1>8, DebugCode DEF Places
  <2>2. pc' = pc + 4 /\ regs' = regs /\ Quiet
    BY <1>1, <1>4, <1>5, <2>1, SetsImmediate DEF Nop, Li, Written
  <2>3. pc' \in Int /\ Offset' = 16
    BY <1>3, <2>2, <1>11
  <2>4. InDebugProgram'
    BY <1>1, <2>2, <2>3, <1>11, Numbers DEF InDebugProgram, Places, BaseInA0, Quiet
  <2>5. QED BY <1>1, <2>2, <2>3, <2>4, <1>11, PcOnly
<1>12. CASE Offset = 16
  <2>1. instr = Csrw("dscratch0", s0)
    BY <1>12, <1>8, DebugCode DEF Places
  <2>2. /\ pc' = pc + 4 /\ dscratch' = [dscratch EXCEPT !["dscratch0"] = regs[s0]]
        /\ UNCHANGED <<regs, mem, debug_mode, depc, ctrl>>
    BY <1>4, <2>1, WritesCsr
  <2>3. pc' \in Int /\ Offset' = 20
    BY <1>3, <2>2, <1>12
  <2>4. InDebugProgram'
    BY <1>1, <2>2, <2>3, <1>12, Numbers DEF InDebugProgram, Places, BaseInA0
  <2>5. Types'
    BY <1>1, <1>4, <1>6, <2>2, <2>3 DEF Types
  <2>6. FlagSet' /\ Entering'
    BY <1>1, <2>2 DEF FlagSet, Entering
  <2>7. dscratch'["dscratch0"] = regs[s0] /\ dscratch'["dscratch0"] = regs[s0]
    BY <1>1, <2>2 DEF Types
  <2>8. UserRegs' = UserRegs
    BY <1>6, <2>2, <2>3, <2>7, <1>12, Numbers DEF UserRegs
  <2>9. Untouched
    BY <2>2, <2>8 DEF Untouched, UserPc
  <2>10. QED BY <2>4, <2>5, <2>6, <2>9, UserKept DEF SessionInv
<1>13. CASE Offset = 20
  <2>1. instr = Csrw("dscratch1", a0)
    BY <1>13, <1>8, DebugCode DEF Places
  <2>2. /\ pc' = pc + 4 /\ dscratch' = [dscratch EXCEPT !["dscratch1"] = regs[a0]]
        /\ UNCHANGED <<regs, mem, debug_mode, depc, ctrl>>
    BY <1>4, <2>1, WritesCsr
  <2>3. pc' \in Int /\ Offset' = 24
    BY <1>3, <2>2, <1>13
  <2>4. InDebugProgram'
    BY <1>1, <2>2, <2>3, <1>13, Numbers DEF InDebugProgram, Places, BaseInA0
  <2>5. Types'
    BY <1>1, <1>4, <1>6, <2>2, <2>3 DEF Types
  <2>6. FlagSet' /\ Entering'
    BY <1>1, <2>2 DEF FlagSet, Entering
  <2>7. dscratch'["dscratch1"] = regs[a0] /\ dscratch'["dscratch0"] = dscratch["dscratch0"]
    BY <1>1, <2>2 DEF Types
  <2>8. UserRegs' = UserRegs
    BY <1>6, <2>2, <2>3, <2>7, <1>13, Numbers DEF UserRegs
  <2>9. Untouched
    BY <2>2, <2>8 DEF Untouched, UserPc
  <2>10. QED BY <2>4, <2>5, <2>6, <2>9, UserKept DEF SessionInv
<1>14. CASE Offset = 24
  <2>1. instr = Csrr(s0, "mhartid")
    BY <1>14, <1>8, DebugCode DEF Places
  <2>2. pc' = pc + 4 /\ regs' = Written(regs, s0, MHartId) /\ Quiet
    BY <1>4, <2>1, ReadsCsr
  <2>3. pc' \in Int /\ Offset' = 28 /\ MHartId \in Int
    BY <1>3, <1>4, <1>6, <2>2, <1>14, Numbers, AddressAssumption
  <2>4. InDebugProgram'
    BY <1>1, <1>4, <1>6, <2>2, <2>3, <1>14, Numbers
      DEF InDebugProgram, Places, BaseInA0, Quiet, Written
  <2>5. QED BY <1>1, <2>2, <2>3, <2>4, <1>14, RegistersOnly
<1>15. CASE Offset = 28
  <2>1. instr = Lui(a0, 160)
    BY <1>15, <1>8, DebugCode DEF Places
  <2>2. pc' = pc + 4 /\ regs' = Written(regs, a0, 160 * 4096) /\ Quiet
    BY <1>4, <2>1, SetsPage
  <2>3. pc' \in Int /\ Offset' = 32 /\ 160 * 4096 \in Int
    BY <1>3, <1>4, <1>6, <2>2, <1>15, Numbers, AddressAssumption
  <2>4. InDebugProgram'
    BY <1>1, <1>4, <1>6, <2>2, <2>3, <1>15, Numbers
      DEF InDebugProgram, Places, BaseInA0, Quiet, Written
  <2>5. QED BY <1>1, <2>2, <2>3, <2>4, <1>15, RegistersOnly
<1>16. CASE Offset = 32
  <2>1. instr = Store(s0, 256, a0)
    BY <1>16, <1>8, DebugCode DEF Places
  <2>2. pc' = pc + 4 /\ Saved(BASEdebug + 256, regs[s0])
    <3>1. regs[a0] = BASEdebug
      BY <1>1, <1>16 DEF InDebugProgram, BaseInA0
    <3>2. QED BY <1>4, <2>1, <3>1, Stores
  <2>3. pc' \in Int /\ Offset' = 36
    BY <1>3, <2>2, <1>16
  <2>4. InDebugProgram'
    BY <1>1, <2>2, <2>3, <1>16, Numbers DEF InDebugProgram, Places, BaseInA0, Saved
  <2>5. QED BY <1>1, <1>4, <2>2, <2>3, <2>4, <1>16, MemoryOnly
<1>17. CASE Offset = 36
  <2>1. instr = Add(s0, s0, a0)
    BY <1>17, <1>8, DebugCode DEF Places
  <2>2. pc' = pc + 4 /\ regs' = Written(regs, s0, regs[s0] + regs[a0]) /\ Quiet
    BY <1>4, <2>1, Adds
  <2>3. pc' \in Int /\ Offset' = 40 /\ regs[s0] + regs[a0] \in Int
    BY <1>3, <1>4, <1>6, <2>2, <1>17, Numbers, AddressAssumption
  <2>4. InDebugProgram'
    BY <1>1, <1>4, <1>6, <2>2, <2>3, <1>17, Numbers
      DEF InDebugProgram, Places, BaseInA0, Quiet, Written
  <2>5. QED BY <1>1, <2>2, <2>3, <2>4, <1>17, RegistersOnly
<1>18. CASE Offset = 40
  <2>1. instr = Load(s0, 1024, s0)
    BY <1>18, <1>8, DebugCode DEF Places
  <2>2. pc' = pc + 4 /\ regs' = Written(regs, s0, mem[regs[s0] + 1024]) /\ Quiet
    BY <1>4, <2>1, Loads
  <2>0. regs[s0] + 1024 = FlagAt(MHartId)
    BY <1>1, <1>7, <1>18, Numbers, AddressAssumption DEF InDebugProgram
  <2>3. /\ pc' \in Int /\ Offset' = 44
        /\ mem[regs[s0] + 1024] \in {0, 1, 2} /\ (mem[regs[s0] + 1024] # 0 => whereto_written)
    BY <1>1, <1>3, <1>6, <1>7, <2>0, <2>2, <1>18, Numbers DEF FlagSet
  <2>4. InDebugProgram'
    BY <1>1, <1>4, <1>6, <2>2, <2>3, <1>18, Numbers
      DEF InDebugProgram, Places, BaseInA0, Quiet, Written
  <2>5. QED BY <1>1, <2>2, <2>3, <2>4, <1>18, RegistersOnly
<1>19. CASE Offset = 44
  <2>1. instr = Andi(s0, s0, FLAGgo)
    BY <1>19, <1>8, DebugCode DEF Places
  <2>2. pc' = pc + 4 /\ regs' = Written(regs, s0, Bit(FLAGgo, regs[s0])) /\ Quiet
    BY <1>4, <2>1, KeepsBit, Numbers
  <2>3. pc' \in Int /\ Offset' = 48 /\ Bit(FLAGgo, regs[s0]) \in Int
    BY <1>3, <1>4, <1>6, <2>2, <1>19, Numbers, AddressAssumption DEF Bit
  <2>4. InDebugProgram'
    BY <1>1, <1>4, <1>6, <2>2, <2>3, <1>19, Numbers
      DEF InDebugProgram, Places, BaseInA0, Quiet, Written, Bit
  <2>5. QED BY <1>1, <2>2, <2>3, <2>4, <1>19, RegistersOnly
<1>20. CASE Offset = 48
  <2>1. instr = Bne(s0, 0, 36)
    BY <1>20, <1>8, DebugCode DEF Places
  <2>2. /\ pc' = IF regs[s0] # 0 THEN pc + (36) ELSE pc + 4
        /\ regs' = regs /\ Quiet
    BY <1>4, <1>5, <2>1, Branches
  <2>3. pc' \in Int /\ Offset' = IF regs[s0] # 0 THEN 84 ELSE 52
    BY <1>3, <2>2, <1>20
  <2>4. InDebugProgram'
    BY <1>1, <2>2, <2>3, <1>20, Numbers DEF InDebugProgram, Places, BaseInA0, Quiet
  <2>5. QED BY <1>1, <2>2, <2>3, <2>4, <1>20, PcOnly
<1>21. CASE Offset = 52
  <2>1. instr = Csrr(s0, "mhartid")
    BY <1>21, <1>8, DebugCode DEF Places
  <2>2. pc' = pc + 4 /\ regs' = Written(regs, s0, MHartId) /\ Quiet
    BY <1>4, <2>1, ReadsCsr
  <2>3. pc' \in Int /\ Offset' = 56 /\ MHartId \in Int
    BY <1>3, <1>4, <1>6, <2>2, <1>21, Numbers, AddressAssumption
  <2>4. InDebugProgram'
    BY <1>1, <1>4, <1>6, <2>2, <2>3, <1>21, Numbers
      DEF InDebugProgram, Places, BaseInA0, Quiet, Written
  <2>5. QED BY <1>1, <2>2, <2>3, <2>4, <1>21, RegistersOnly
<1>22. CASE Offset = 56
  <2>1. instr = Add(s0, s0, a0)
    BY <1>22, <1>8, DebugCode DEF Places
  <2>2. pc' = pc + 4 /\ regs' = Written(regs, s0, regs[s0] + regs[a0]) /\ Quiet
    BY <1>4, <2>1, Adds
  <2>3. pc' \in Int /\ Offset' = 60 /\ regs[s0] + regs[a0] \in Int
    BY <1>3, <1>4, <1>6, <2>2, <1>22, Numbers, AddressAssumption
  <2>4. InDebugProgram'
    BY <1>1, <1>4, <1>6, <2>2, <2>3, <1>22, Numbers
      DEF InDebugProgram, Places, BaseInA0, Quiet, Written
  <2>5. QED BY <1>1, <2>2, <2>3, <2>4, <1>22, RegistersOnly
<1>23. CASE Offset = 60
  <2>1. instr = Load(s0, 1024, s0)
    BY <1>23, <1>8, DebugCode DEF Places
  <2>2. pc' = pc + 4 /\ regs' = Written(regs, s0, mem[regs[s0] + 1024]) /\ Quiet
    BY <1>4, <2>1, Loads
  <2>0. regs[s0] + 1024 = FlagAt(MHartId)
    BY <1>1, <1>7, <1>23, Numbers, AddressAssumption DEF InDebugProgram
  <2>3. /\ pc' \in Int /\ Offset' = 64
        /\ mem[regs[s0] + 1024] \in {0, 1, 2} /\ (mem[regs[s0] + 1024] # 0 => whereto_written)
    BY <1>1, <1>3, <1>6, <1>7, <2>0, <2>2, <1>23, Numbers DEF FlagSet
  <2>4. InDebugProgram'
    BY <1>1, <1>4, <1>6, <2>2, <2>3, <1>23, Numbers
      DEF InDebugProgram, Places, BaseInA0, Quiet, Written
  <2>5. QED BY <1>1, <2>2, <2>3, <2>4, <1>23, RegistersOnly
<1>24. CASE Offset = 64
  <2>1. instr = Andi(s0, s0, FLAGresume)
    BY <1>24, <1>8, DebugCode DEF Places
  <2>2. pc' = pc + 4 /\ regs' = Written(regs, s0, Bit(FLAGresume, regs[s0])) /\ Quiet
    BY <1>4, <2>1, KeepsBit, Numbers
  <2>3. pc' \in Int /\ Offset' = 68 /\ Bit(FLAGresume, regs[s0]) \in Int
    BY <1>3, <1>4, <1>6, <2>2, <1>24, Numbers, AddressAssumption DEF Bit
  <2>4. InDebugProgram'
    BY <1>1, <1>4, <1>6, <2>2, <2>3, <1>24, Numbers
      DEF InDebugProgram, Places, BaseInA0, Quiet, Written, Bit
  <2>5. QED BY <1>1, <2>2, <2>3, <2>4, <1>24, RegistersOnly
<1>25. CASE Offset = 68
  <2>1. instr = Bne(s0, 0, -64)
    BY <1>25, <1>8, DebugCode DEF Places
  <2>2. /\ pc' = IF regs[s0] # 0 THEN pc + (-64) ELSE pc + 4
        /\ regs' = regs /\ Quiet
    BY <1>4, <1>5, <2>1, Branches
  <2>3. pc' \in Int /\ Offset' = IF regs[s0] # 0 THEN 4 ELSE 72
    BY <1>3, <2>2, <1>25
  <2>4. InDebugProgram'
    BY <1>1, <2>2, <2>3, <1>25, Numbers DEF InDebugProgram, Places, BaseInA0, Quiet
  <2>5. QED BY <1>1, <2>2, <2>3, <2>4, <1>25, PcOnly
<1>26. CASE Offset = 72
  <2>1. instr = Jal(0, -48)
    BY <1>26, <1>8, DebugCode DEF Places
  <2>2. pc' = pc + (-48) /\ regs' = regs /\ Quiet
    BY <2>1, Jumps
  <2>3. pc' \in Int /\ Offset' = 24
    BY <1>3, <2>2, <1>26
  <2>4. InDebugProgram'
    BY <1>1, <2>2, <2>3, <1>26, Numbers DEF InDebugProgram, Places, BaseInA0, Quiet
  <2>5. QED BY <1>1, <2>2, <2>3, <2>4, <1>26, PcOnly
<1>27. CASE Offset = 84
  <2>1. instr = Csrr(s0, "dscratch0")
    BY <1>27, <1>8, DebugCode DEF Places
  <2>2. pc' = pc + 4 /\ regs' = Written(regs, s0, dscratch["dscratch0"]) /\ Quiet
    BY <1>4, <2>1, ReadsCsr
  <2>3. pc' \in Int /\ Offset' = 88 /\ dscratch["dscratch0"] \in Int
    BY <1>3, <1>4, <1>6, <2>2, <1>27, Numbers, AddressAssumption
  <2>4. InDebugProgram'
    BY <1>1, <1>4, <1>6, <2>2, <2>3, <1>27, Numbers
      DEF InDebugProgram, Places, BaseInA0, Quiet, Written
  <2>5. QED BY <1>1, <2>2, <2>3, <2>4, <1>27, RegistersOnly
<1>28. CASE Offset = 88
  <2>1. instr = Store(0, 260, a0)
    BY <1>28, <1>8, DebugCode DEF Places
  <2>2. pc' = pc + 4 /\ Saved(BASEdebug + 260, regs[0])
    <3>1. regs[a0] = BASEdebug
      BY <1>1, <1>28 DEF InDebugProgram, BaseInA0
    <3>2. QED BY <1>4, <2>1, <3>1, Stores
  <2>3. pc' \in Int /\ Offset' = 92
    BY <1>3, <2>2, <1>28
  <2>4. InDebugProgram'
    BY <1>1, <2>2, <2>3, <1>28, Numbers DEF InDebugProgram, Places, BaseInA0, Saved
  <2>5. QED BY <1>1, <1>4, <2>2, <2>3, <2>4, <1>28, MemoryOnly
<1>29. CASE Offset = 92
  <2>1. instr = Csrr(a0, "dscratch1")
    BY <1>29, <1>8, DebugCode DEF Places
  <2>2. pc' = pc + 4 /\ regs' = Written(regs, a0, dscratch["dscratch1"]) /\ Quiet
    BY <1>4, <2>1, ReadsCsr
  <2>3. pc' \in Int /\ Offset' = 96 /\ dscratch["dscratch1"] \in Int
    BY <1>3, <1>4, <1>6, <2>2, <1>29, Numbers, AddressAssumption
  <2>4. InDebugProgram'
    BY <1>1, <1>4, <1>6, <2>2, <2>3, <1>29, Numbers
      DEF InDebugProgram, Places, BaseInA0, Quiet, Written
  <2>5. QED BY <1>1, <2>2, <2>3, <2>4, <1>29, RegistersOnly
<1>30. CASE Offset = 96
  <2>1. instr = Jal(0, -1376)
    BY <1>30, <1>8, DebugCode DEF Places
  <2>2. pc' = pc + (-1376) /\ regs' = regs /\ Quiet
    BY <2>1, Jumps
  <2>3. pc' \in Int /\ Offset' = -1280
    BY <1>3, <2>2, <1>30
  <2>4. InDebugProgram'
    BY <1>1, <2>2, <2>3, <1>30, Numbers DEF InDebugProgram, Places, BaseInA0, Quiet
  <2>5. QED BY <1>1, <2>2, <2>3, <2>4, <1>30, PcOnly
<1>31. CASE Offset = 100
  <2>1. instr = Csrr(s0, "mhartid")
    BY <1>31, <1>8, DebugCode DEF Places
  <2>2. pc' = pc + 4 /\ regs' = Written(regs, s0, MHartId) /\ Quiet
    BY <1>4, <2>1, ReadsCsr
  <2>3. pc' \in Int /\ Offset' = 104 /\ MHartId \in Int
    BY <1>3, <1>4, <1>6, <2>2, <1>31, Numbers, AddressAssumption
  <2>4. InDebugProgram'
    BY <1>1, <1>4, <1>6, <2>2, <2>3, <1>31, Numbers
      DEF InDebugProgram, Places, BaseInA0, Quiet, Written
  <2>5. QED BY <1>1, <2>2, <2>3, <2>4, <1>31, RegistersOnly
<1>32. CASE Offset = 104
  <2>1. instr = Lui(a0, 160)
    BY <1>32, <1>8, DebugCode DEF Places
  <2>2. pc' = pc + 4 /\ regs' = Written(regs, a0, 160 * 4096) /\ Quiet
    BY <1>4, <2>1, SetsPage
  <2>3. pc' \in Int /\ Offset' = 108 /\ 160 * 4096 \in Int
    BY <1>3, <1>4, <1>6, <2>2, <1>32, Numbers, AddressAssumption
  <2>4. InDebugProgram'
    BY <1>1, <1>4, <1>6, <2>2, <2>3, <1>32, Numbers
      DEF InDebugProgram, Places, BaseInA0, Quiet, Written
  <2>5. QED BY <1>1, <2>2, <2>3, <2>4, <1>32, RegistersOnly
<1>33. CASE Offset = 108
  <2>1. instr = Store(s0, 264, a0)
    BY <1>33, <1>8, DebugCode DEF Places
  <2>2. pc' = pc + 4 /\ Saved(BASEdebug + 264, regs[s0])
    <3>1. regs[a0] = BASEdebug
      BY <1>1, <1>33 DEF InDebugProgram, BaseInA0
    <3>2. QED BY <1>4, <2>1, <3>1, Stores
  <2>3. pc' \in Int /\ Offset' = 112
    BY <1>3, <2>2, <1>33
  <2>4. InDebugProgram'
    BY <1>1, <2>2, <2>3, <1>33, Numbers DEF InDebugProgram, Places, BaseInA0, Saved
  <2>5. QED BY <1>1, <1>4, <2>2, <2>3, <2>4, <1>33, MemoryOnly
<1>34. CASE Offset = 112
  <2>1. instr = Csrr(s0, "dscratch0")
    BY <1>34, <1>8, DebugCode DEF Places
  <2>2. pc' = pc + 4 /\ regs' = Written(regs, s0, dscratch["dscratch0"]) /\ Quiet
    BY <1>4, <2>1, ReadsCsr
  <2>3. pc' \in Int /\ Offset' = 116 /\ dscratch["dscratch0"] \in Int
    BY <1>3, <1>4, <1>6, <2>2, <1>34, Numbers, AddressAssumption
  <2>4. InDebugProgram'
    BY <1>1, <1>4, <1>6, <2>2, <2>3, <1>34, Numbers
      DEF InDebugProgram, Places, BaseInA0, Quiet, Written
  <2>5. QED BY <1>1, <2>2, <2>3, <2>4, <1>34, RegistersOnly
<1>35. CASE Offset = 116
  <2>1. instr = Csrr(a0, "dscratch1")
    BY <1>35, <1>8, DebugCode DEF Places
  <2>2. pc' = pc + 4 /\ regs' = Written(regs, a0, dscratch["dscratch1"]) /\ Quiet
    BY <1>4, <2>1, ReadsCsr
  <2>3. pc' \in Int /\ Offset' = 120 /\ dscratch["dscratch1"] \in Int
    BY <1>3, <1>4, <1>6, <2>2, <1>35, Numbers, AddressAssumption
  <2>4. InDebugProgram'
    BY <1>1, <1>4, <1>6, <2>2, <2>3, <1>35, Numbers
      DEF InDebugProgram, Places, BaseInA0, Quiet, Written
  <2>5. QED BY <1>1, <2>2, <2>3, <2>4, <1>35, RegistersOnly
<1>36. CASE Offset = 120
  <2>1. instr = Dret
    BY <1>36, <1>8, DebugCode DEF Places
  <2>2. /\ pc' = depc /\ debug_mode' = FALSE
        /\ UNCHANGED <<regs, mem, depc, dscratch, ctrl>>
    BY <2>1, Kinds DEF DebugReturn, Dret, I
  <2>3. regs[s0] = dscratch["dscratch0"] /\ regs[a0] = dscratch["dscratch1"]
    BY <1>1, <1>36 DEF InDebugProgram
  <2>4. InDebugProgram'
    BY <2>2 DEF InDebugProgram
  <2>5. Types'
    BY <1>1, <2>2 DEF Types
  <2>6. FlagSet' /\ Entering'
    BY <1>1, <2>2 DEF FlagSet, Entering
  <2>7. UserRegs' = UserRegs
    BY <1>6, <2>2, <2>3, <1>36 DEF UserRegs
  <2>8. Untouched
    BY <2>2, <2>7 DEF Untouched, UserPc
  <2>9. QED BY <2>4, <2>5, <2>6, <2>8, UserKept DEF SessionInv
<1>37. CASE Offset = -1280
  <2>1. instr = Jal(0, 1284)
    BY <1>37, DebugInstr DEF ToResume
  <2>2. pc' = pc + (1284) /\ regs' = regs /\ Quiet
    BY <2>1, Jumps
  <2>3. pc' \in Int /\ Offset' = 4
    BY <1>3, <2>2, <1>37
  <2>4. InDebugProgram'
    BY <1>1, <2>2, <2>3, <1>37, Numbers DEF InDebugProgram, Places, BaseInA0, Quiet
  <2>5. QED BY <1>1, <2>2, <2>3, <2>4, <1>37, PcOnly
<1>38. QED BY <1>2, <1>9, <1>10, <1>11, <1>12, <1>13, <1>14, <1>15, <1>16, <1>17, <1>18, <1>19,
             <1>20, <1>21, <1>22, <1>23, <1>24, <1>25, <1>26, <1>27, <1>28, <1>29, <1>30,
             <1>31, <1>32, <1>33, <1>34, <1>35, <1>36, <1>37
  DEF Places

-----------------------------------------------------------------------------
(* The program. *)

LEMMA UserInstruction ==
  ASSUME SessionInv, ~debug_mode
  PROVE  /\ instr = UserInstr(pc)
         /\ \/ instr = Illegal
            \/ \E k \in 0 .. Len(UserProgram) - 1 :
                 pc = STARTprogrammADDR + 4 * k /\ instr = UserProgram[k + 1]
<1>1. /\ pc \in Int
      /\ pc = TrapBase \/ \E k \in 0 .. Len(UserProgram) : pc = STARTprogrammADDR + 4 * k
  BY DEF SessionInv, Types, InUserProgram, UserAt, UserPc
<1>2. Len(UserProgram) \in Nat
  BY UserCode DEF Prepared
<1>3. 0 <= pc /\ pc < wheretoADDRESS
  BY <1>1, <1>2, Numbers, ProgramAssumption
<1>4. pc % AddressSpace = pc
  BY <1>1, <1>3, Numbers
<1>5. ~In(DebugProgram, BASEdebugPROGaddr, pc) /\ pc # wheretoADDRESS
  BY <1>1, <1>3, Numbers DEF In
<1>6. instr = UserInstr(pc)
  BY <1>4, <1>5 DEF instr, Fetched
<1>7. CASE pc = TrapBase
  <2>1. ~In(UserProgram, STARTprogrammADDR, pc)
    BY <1>7, Numbers DEF In
  <2>2. QED BY <1>6, <2>1 DEF UserInstr
<1>8. ASSUME NEW k \in 0 .. Len(UserProgram), pc = STARTprogrammADDR + 4 * k
      PROVE  \/ instr = Illegal
             \/ k \in 0 .. Len(UserProgram) - 1 /\ instr = UserProgram[k + 1]
  <2>1. CASE k = Len(UserProgram)
    <3>1. ~In(UserProgram, STARTprogrammADDR, pc)
      BY <1>2, <1>8, <2>1, Numbers DEF In
    <3>2. QED BY <1>6, <3>1 DEF UserInstr
  <2>2. CASE k # Len(UserProgram)
    <3>1. k \in 0 .. Len(UserProgram) - 1
      BY <1>2, <2>2
    <3>2. In(UserProgram, STARTprogrammADDR, pc) \/ ~In(UserProgram, STARTprogrammADDR, pc)
      OBVIOUS
    <3>3. ((pc - STARTprogrammADDR) \div 4) + 1 = k + 1
      BY <1>2, <1>8, Numbers
    <3>4. At(UserProgram, STARTprogrammADDR, pc) = UserProgram[k + 1]
      BY <3>3 DEF At
    <3>5. QED BY <1>6, <3>1, <3>2, <3>4 DEF UserInstr
  <2>3. QED BY <2>1, <2>2
<1>9. QED BY <1>1, <1>6, <1>7, <1>8

\* What the program does by itself, in the words of this module.
UserRuns ==
  LET i == UserInstr(UserPc) x == UserRegs[i.rs1] y == UserRegs[i.rs2] IN
  \/ /\ Computes(i)
     /\ UserRegs' = Written(UserRegs, i.rd, Result(i, UserPc, x, y))
     /\ UserPc' = NextPc(i, UserPc, x, y)
     /\ mem'[64] = mem[64]
  \/ i.op = "store" /\ mem'[64] = y /\ UserPc' = UserPc + 4 /\ UserRegs' = UserRegs
  \/ i.op \in {"ecall", "illegal"} /\ UserPc' = TrapBase /\ UserRegs' = UserRegs
     /\ mem'[64] = mem[64]

LEMMA SameMeaning ==
  /\ User!UserInit <=> /\ UserPc = STARTprogrammADDR
                       /\ UserRegs = [r \in Registers |-> 0] /\ mem[64] = 0
  /\ UserRuns => User!UserStep
  /\ Untouched => UNCHANGED User!userVars
<1>1. User!UserProgram = UserProgram
  <2>1. /\ \A rd, v : User!Li(rd, v) = Li(rd, v)
        /\ \A q, o, r : User!Store(q, o, r) = Store(q, o, r)
        /\ User!I("ecall", 0, 0, 0, 0) = I("ecall", 0, 0, 0, 0)
    BY DEF User!Li, Li, User!Addi, Addi, User!Store, Store, User!I, I
  <2>2. User!StoreWord = StoreWord
    BY <2>1 DEF User!StoreWord, StoreWord
  <2>3. User!StoreWords = StoreWords /\ User!StoreWordsAgain = StoreWordsAgain
    BY <2>2 DEF User!StoreWords, StoreWords, User!StoreWordsAgain, StoreWordsAgain,
                User!Repeated, Repeated
  <2>4. User!AllOnes = AllOnes
    BY <2>1 DEF User!AllOnes, AllOnes
  <2>5. User!ExitArguments = ExitArguments /\ User!Exit = Exit
    BY <2>1 DEF User!ExitArguments, ExitArguments, User!Exit, Exit
  <2>6. QED BY <2>3, <2>4, <2>5 DEF User!UserProgram, UserProgram
<1>2. User!STARTprogrammADDR = STARTprogrammADDR /\ User!Registers = Registers
  BY DEF User!STARTprogrammADDR, STARTprogrammADDR, User!Registers, Registers
<1>3. User!Illegal = Illegal
  BY DEF User!Illegal, Illegal, User!I, I
<1>4. \A at : User!UserInstr(at) = UserInstr(at)
  BY <1>1, <1>2, <1>3 DEF User!UserInstr, UserInstr, User!In, In, User!At, At
<1>5. \A i, at, x, y : User!Result(i, at, x, y) = Result(i, at, x, y)
  <2>1. \A x, y : User!Divided(x, y) = Divided(x, y)
    BY DEF User!Divided, Divided
  <2>2. QED BY <2>1 DEF User!Result, Result
<1>6. \A i, at, x, y : User!NextPc(i, at, x, y) = NextPc(i, at, x, y)
  <2>1. \A i, x, y : User!Taken(i, x, y) <=> Taken(i, x, y)
    BY DEF User!Taken, Taken
  <2>2. QED BY <2>1 DEF User!NextPc, NextPc
<1>7. /\ \A i : User!Computes(i) <=> Computes(i)
      /\ \A f, r, v : User!Written(f, r, v) = Written(f, r, v)
  BY DEF User!Computes, Computes, User!Written, Written
<1>8. QED BY <1>2, <1>4, <1>5, <1>6, <1>7
  DEF UserRuns, UserPc, Untouched, User!UserInit, User!UserStep, User!userVars

\* Outside debug mode the program's registers are the core's.
LEMMA OwnRegisters ==
  ASSUME ~debug_mode, regs \in [Registers -> Int]
  PROVE  UserRegs = regs /\ UserPc = pc
BY DEF UserRegs, UserPc

LEMMA UserExecute ==
  ASSUME SessionInv, ~debug_mode, Execute, UNCHANGED hostVars
  PROVE  SessionInv' /\ UserRuns
<1>1. ctrl = "DECODE" /\ Types /\ FlagSet /\ InUserProgram
  BY Kinds DEF SessionInv
<1>2. UserRegs = regs /\ UserPc = pc /\ regs[0] = 0
  <2>1. UserRegs = regs /\ UserPc = pc
    BY <1>1, OwnRegisters DEF Types
  <2>2. QED BY <1>1, <2>1 DEF InUserProgram
<1>3. Len(UserProgram) \in Nat /\ \A k \in 1 .. Len(UserProgram) : UserProgram[k] \in UserCodes
  BY UserCode DEF Prepared
\* From one instruction to the next.
<1>4. ASSUME NEW k \in 0 .. Len(UserProgram) - 1, pc = STARTprogrammADDR + 4 * k,
             debug_mode' = debug_mode, Types', pc' = pc + 4, regs'[0] = 0,
             UserProgram[k + 1] = Li(15, 64) => regs'[15] = 64,
             UserProgram[k + 1] = Li(14, 102) => regs'[15] = regs[15]
      PROVE  InUserProgram'
  <2>1. UserPc' = pc' /\ UserRegs' = regs'
    <3>1. ~debug_mode' /\ regs' \in [Registers -> Int]
      BY <1>4 DEF Types
    <3>2. QED BY <3>1 DEF UserRegs, UserPc
  <2>2. k + 1 \in 0 .. Len(UserProgram) /\ pc' = STARTprogrammADDR + 4 * (k + 1)
    BY <1>3, <1>4, Numbers
  <2>3. ASSUME NEW j \in 0 .. Len(UserProgram) - 1, pc' = STARTprogrammADDR + 4 * j,
               UserProgram[j + 1] \in {Li(14, 102), Store(14, 0, 15)}
        PROVE  regs'[15] = 64
    <3>1. j = k + 1
      BY <1>3, <1>4, <2>2, <2>3, Numbers
    <3>2. k + 2 \in 1 .. Len(UserProgram) /\ k + 2 - 1 = k + 1
      BY <1>3, <2>3, <3>1
    <3>3. \/ UserProgram[k + 1] = Li(15, 64)
          \/ UserProgram[k + 1] = Li(14, 102)
      <4>1. UserProgram[k + 2] \in {Li(14, 102), Store(14, 0, 15)}
        BY <2>3, <3>1
      <4>2. QED BY <3>2, <4>1, UserCode DEF Prepared
    <3>4. UserProgram[k + 1] = Li(14, 102) => regs[15] = 64
      BY <1>1, <1>2, <1>4 DEF InUserProgram, UserAt
    <3>5. QED BY <1>4, <3>3, <3>4
  <2>4. QED BY <1>4, <2>1, <2>2, <2>3 DEF InUserProgram, UserAt
<1>5. CASE instr \in {Illegal, Ecall}
  <2>1. instr.op \in {"ecall", "illegal"}
    BY <1>5 DEF Illegal, Ecall, I
  <2>2. pc' = TrapBase /\ regs' = regs /\ Quiet
    BY <2>1, Kinds DEF Exception, Quiet
  <2>3. UserPc' = TrapBase /\ UserRegs' = UserRegs /\ mem'[64] = mem[64]
    BY <2>2 DEF UserPc, UserRegs, Quiet
  <2>4. Types'
    BY <1>1, <2>2, Numbers DEF Types, Quiet
  <2>5. InUserProgram'
    BY <1>1, <1>3, <2>3, Numbers DEF InUserProgram, UserAt
  <2>6. FlagSet' /\ Entering' /\ InDebugProgram'
    BY <1>1, <2>2 DEF FlagSet, Entering, InDebugProgram, Quiet, hostVars
  <2>7. UserRuns
    BY <1>2, <2>1, <2>3, UserInstruction DEF UserRuns
  <2>8. QED BY <2>4, <2>5, <2>6, <2>7 DEF SessionInv
<1>6. ASSUME NEW k \in 0 .. Len(UserProgram) - 1, pc = STARTprogrammADDR + 4 * k,
             instr = UserProgram[k + 1], instr # Ecall
      PROVE  SessionInv' /\ UserRuns
  <2>1. \/ \E rd \in 1 .. 31, v \in Int : instr = Li(rd, v)
        \/ instr = Store(14, 0, 15)
    <3>1. k + 1 \in 1 .. Len(UserProgram)
      BY <1>3
    <3>2. instr \in UserCodes
      BY <1>3, <1>6, <3>1
    <3>3. CASE instr \in Settings
      <4>1. instr.rd \in 1 .. 31 /\ instr.imm \in Int /\ instr = Li(instr.rd, instr.imm)
        BY <3>3 DEF Settings, Li, Addi, I
      <4>2. QED BY <4>1
    <3>4. QED BY <1>6, <3>2, <3>3 DEF UserCodes
  <2>2. ASSUME NEW rd \in 1 .. 31, NEW v \in Int, instr = Li(rd, v)
        PROVE  SessionInv' /\ UserRuns
    <3>1. rd \in Registers /\ rd # 0
      BY DEF Registers
    <3>2. pc' = pc + 4 /\ regs' = Written(regs, rd, v) /\ Quiet
      BY <1>1, <1>2, <2>2, <3>1, SetsImmediate
    <3>3. regs' = [regs EXCEPT ![rd] = v]
      BY <3>1, <3>2 DEF Written
    <3>4. Types'
      BY <1>1, <3>1, <3>2, <3>3 DEF Types, Quiet
    <3>5. regs'[0] = 0
      BY <1>1, <1>2, <3>1, <3>3 DEF Types, Registers
    <3>6. instr = Li(15, 64) => regs'[15] = 64
      <4>1. instr = Li(15, 64) => rd = 15 /\ v = 64
        BY <2>2 DEF Li, Addi, I
      <4>2. QED BY <1>1, <3>1, <3>3, <4>1 DEF Types
    <3>7. instr = Li(14, 102) => regs'[15] = regs[15]
      <4>1. instr = Li(14, 102) => rd = 14
        BY <2>2 DEF Li, Addi, I
      <4>2. 15 \in Registers
        BY DEF Registers
      <4>3. QED BY <1>1, <3>1, <3>3, <4>1, <4>2 DEF Types
    <3>8. debug_mode' = debug_mode
      BY <3>2 DEF Quiet
    <3>9. InUserProgram'
      BY <1>4, <1>6, <3>2, <3>4, <3>5, <3>6, <3>7, <3>8
    <3>10. FlagSet' /\ Entering' /\ InDebugProgram'
      BY <1>1, <3>2 DEF FlagSet, Entering, InDebugProgram, Quiet, hostVars
    <3>11. UserPc' = pc' /\ UserRegs' = regs' /\ mem'[64] = mem[64]
      <4>1. ~debug_mode' /\ regs' \in [Registers -> Int] /\ mem' = mem
        BY <3>2, <3>4, <3>8 DEF Types, Quiet
      <4>2. QED BY <4>1 DEF UserRegs, UserPc
    <3>12. /\ Computes(instr) /\ instr.rd = rd
           /\ Result(instr, pc, regs[instr.rs1], regs[instr.rs2]) = v
           /\ NextPc(instr, pc, regs[instr.rs1], regs[instr.rs2]) = pc + 4
      BY <1>2, <2>2 DEF Computes, Result, NextPc, Taken, Li, Addi, I
    <3>13. UserRuns
      BY <1>2, <3>2, <3>11, <3>12, UserInstruction DEF UserRuns
    <3>14. QED BY <3>4, <3>9, <3>10, <3>13 DEF SessionInv
  <2>3. CASE instr = Store(14, 0, 15)
    <3>1. regs[15] = 64
      BY <1>1, <1>2, <1>6, <2>3 DEF InUserProgram, UserAt
    <3>2. 14 \in Registers /\ 15 \in Registers
      BY DEF Registers
    <3>3. pc' = pc + 4 /\ Saved(regs[15] + 0, regs[14])
      BY <2>3, <3>2, Stores
    <3>4. /\ mem' = [mem EXCEPT ![64] = regs[14]]
          /\ UNCHANGED <<regs, debug_mode, depc, dscratch, ctrl>>
      BY <3>1, <3>3 DEF Saved
    <3>5. 64 \in DataAddress /\ regs[14] \in Int
      BY <1>1, <3>2 DEF DataAddress, Types
    <3>6. Types'
      BY <1>1, <3>3, <3>4, <3>5 DEF Types
    <3>7. mem'[64] = regs[14] /\ mem'[FlagAt(MHartId)] = mem[FlagAt(MHartId)]
      <4>1. FlagAt(MHartId) # 64 /\ FlagAt(MHartId) \in DataAddress
        BY Numbers, AddressAssumption DEF DataAddress
      <4>2. QED BY <1>1, <3>4, <3>5, <4>1 DEF Types
    <3>8. FlagSet' /\ Entering' /\ InDebugProgram'
      BY <1>1, <3>4, <3>7 DEF FlagSet, Entering, InDebugProgram, hostVars
    <3>9. /\ Store(14, 0, 15) # Li(15, 64) /\ Store(14, 0, 15) # Li(14, 102)
          /\ instr.op = "store" /\ instr.rs2 = 14
      BY <2>3 DEF Li, Addi, Store, I
    <3>10. InUserProgram'
      BY <1>2, <1>4, <1>6, <2>3, <3>3, <3>4, <3>6, <3>9
    <3>11. UserPc' = pc' /\ UserRegs' = UserRegs
      BY <3>4 DEF UserRegs, UserPc
    <3>12. UserRuns
      BY <1>2, <3>3, <3>7, <3>9, <3>11, UserInstruction DEF UserRuns
    <3>13. QED BY <3>6, <3>8, <3>10, <3>12 DEF SessionInv
  <2>4. QED BY <2>1, <2>2, <2>3
<1>7. QED BY <1>5, <1>6, UserInstruction

-----------------------------------------------------------------------------
(* Every step. *)

LEMMA InitSession ==
  ASSUME SessionInit
  PROVE  SessionInv /\ User!UserInit
<1>1. regs \in [Registers -> Int] /\ ~debug_mode
  BY DEF SessionInit
<1>2. UserRegs = regs /\ UserPc = pc
  BY <1>1, OwnRegisters
<1>3. 64 \in DataAddress /\ FlagAt(MHartId) \in DataAddress
  BY DEF DataAddress
<1>4. mem \in [DataAddress -> Int] /\ mem[64] = 0 /\ mem[FlagAt(MHartId)] = 0
  BY <1>3 DEF SessionInit
<1>5. Types /\ Entering /\ FlagSet /\ InDebugProgram
  <2>1. dscratch \in [{"dscratch0", "dscratch1"} -> Int]
    BY DEF SessionInit
  <2>2. pc \in Int /\ depc \in Int /\ debug_mode \in BOOLEAN
    <3>1. pc = STARTprogrammADDR /\ depc = 0 /\ debug_mode = FALSE
      BY DEF SessionInit
    <3>2. pc \in Int
      BY <3>1, Numbers
    <3>3. debug_mode \in BOOLEAN
      BY <3>1
    <3>4. QED BY <3>1, <3>2, <3>3
  <2>3. QED BY <1>1, <1>4, <2>1, <2>2 DEF SessionInit, Types, Entering, FlagSet, InDebugProgram
<1>6. InUserProgram
  <2>1. Len(UserProgram) \in Nat
    BY UserCode DEF Prepared
  <2>2. UserAt(0) /\ 0 \in 0 .. Len(UserProgram)
    BY <1>2, <2>1, Numbers DEF UserAt, SessionInit
  <2>3. ASSUME NEW k \in 0 .. Len(UserProgram) - 1, UserAt(k)
        PROVE  UserProgram[k + 1] \notin {Li(14, 102), Store(14, 0, 15)}
    <3>1. k = 0 /\ 1 \in 1 .. Len(UserProgram)
      BY <1>2, <2>1, <2>3, Numbers DEF UserAt, SessionInit
    <3>2. QED BY <3>1, UserCode DEF Prepared
  <2>4. UserRegs[0] = 0
    BY <1>2 DEF SessionInit, Registers
  <2>5. QED BY <2>2, <2>3, <2>4 DEF InUserProgram
<1>7. User!UserInit
  BY <1>2, <1>4, SameMeaning DEF SessionInit
<1>8. QED BY <1>5, <1>6, <1>7 DEF SessionInv

LEMMA NothingMoves ==
  ASSUME SessionInv, UNCHANGED <<pc, regs, mem, debug_mode, depc, dscratch>>,
         whereto_written => whereto_written', Entering'
  PROVE  SessionInv' /\ Untouched
<1>1. Types' /\ FlagSet' /\ InDebugProgram'
  BY DEF SessionInv, Types, FlagSet, InDebugProgram, Offset
<1>2. Untouched
  BY DEF Untouched, UserPc, UserRegs, Offset
<1>3. QED BY <1>1, <1>2, UserKept DEF SessionInv

LEMMA EntersDebug ==
  ASSUME Fits, SessionInv, EnterDebug, UNCHANGED hostVars
  PROVE  SessionInv' /\ Untouched
<1>1. Types /\ FlagSet /\ ~debug_mode /\ debug_req_i
  BY DEF SessionInv, Entering, EnterDebug
<1>2. /\ pc' = BASEdebugPROGaddr /\ debug_mode' = TRUE /\ depc' = pc /\ ctrl' = "DECODE"
      /\ UNCHANGED <<regs, mem, dscratch>>
  BY <1>1 DEF EnterDebug, HaltRequest, Fits
<1>3. Offset' = 0
  BY <1>2, Numbers DEF Offset
<1>4. Types'
  BY <1>1, <1>2, Numbers DEF Types
<1>5. FlagSet' /\ Entering'
  BY <1>1, <1>2 DEF FlagSet, Entering, hostVars
<1>6. InDebugProgram'
  BY <1>2, <1>3 DEF InDebugProgram, Places, BaseInA0
<1>7. UserRegs' = UserRegs /\ UserPc' = UserPc
  BY <1>1, <1>2, <1>3 DEF UserRegs, UserPc
<1>8. Untouched
  BY <1>2, <1>7 DEF Untouched
<1>9. QED BY <1>4, <1>5, <1>6, <1>8, UserKept DEF SessionInv

LEMMA AnswerUntouched ==
  ASSUME Fits, SessionInv, NEW flag \in Flags, Answer(flag)
  PROVE  SessionInv' /\ Untouched
<1>1. /\ Types /\ InDebugProgram /\ debug_mode /\ ctrl = "DECODE"
      /\ mem' = [mem EXCEPT ![FlagAt(FlagHart)] = flag] /\ whereto_written' = TRUE
      /\ UNCHANGED <<pc, regs, debug_mode, depc, dscratch, ctrl>>
  BY DEF SessionInv, Entering, Answer, Fits, DebugFLAG, whereto
<1>2. flag \in {0, 1, 2}
  BY FlagsAssumption, Numbers
<1>3. /\ FlagAt(FlagHart) # 64 /\ 64 \in DataAddress /\ FlagAt(MHartId) \in DataAddress
      /\ FlagAt(FlagHart) \in DataAddress
  BY Numbers, AddressAssumption DEF DataAddress
<1>4. Types'
  BY <1>1, <1>2, <1>3 DEF Types
<1>5. FlagSet'
  <2>1. mem'[FlagAt(MHartId)] \in {0, 1, 2}
    <3>1. mem[FlagAt(MHartId)] \in {0, 1, 2}
      BY Numbers DEF SessionInv, FlagSet
    <3>2. QED BY <1>1, <1>2, <1>3, <3>1 DEF Types
  <2>2. QED BY <1>1, <2>1, Numbers DEF FlagSet
<1>6. Entering'
  BY <1>1 DEF Entering
<1>7. InDebugProgram'
  BY <1>1 DEF InDebugProgram, Offset
<1>8. UserRegs' = UserRegs /\ UserPc' = UserPc
  BY <1>1 DEF UserRegs, UserPc, Offset
<1>9. mem'[64] = mem[64]
  BY <1>1, <1>3 DEF Types
<1>10. Untouched
  BY <1>8, <1>9 DEF Untouched
<1>11. QED BY <1>4, <1>5, <1>6, <1>7, <1>10, UserKept DEF SessionInv

LEMMA StepSession ==
  ASSUME Fits, SessionInv, [SessionNext]_sessionVars
  PROVE  SessionInv' /\ (UserRuns \/ Untouched)
<1>1. Entering
  BY DEF SessionInv
<1>2. CASE CoreStep
  <2>1. UNCHANGED hostVars /\ (Execute \/ SeeRequest \/ FlushForDebug \/ EnterDebug)
    BY <1>2 DEF CoreStep
  <2>2. CASE Execute
    BY <2>1, <2>2, DebugExecute, UserExecute
  <2>3. CASE SeeRequest
    <3>1. Entering'
      BY <2>1, <2>3 DEF SeeRequest, HaltRequest, Entering, hostVars
    <3>2. QED BY <2>1, <2>3, <3>1, NothingMoves DEF SeeRequest, hostVars
  <2>4. CASE FlushForDebug
    <3>1. Entering'
      BY <1>1, <2>1, <2>4 DEF FlushForDebug, Entering, hostVars
    <3>2. QED BY <2>1, <2>4, <3>1, NothingMoves DEF FlushForDebug, hostVars
  <2>5. CASE EnterDebug
    BY <2>1, <2>5, EntersDebug
  <2>6. QED BY <2>1, <2>2, <2>3, <2>4, <2>5
<1>3. CASE Stall \/ ReleaseReset \/ EnableFetch \/ RaiseRequest \/ UNCHANGED sessionVars
  <2>1. UNCHANGED coreVars /\ whereto_written' = whereto_written /\ (debug_req_i => debug_req_i')
    BY <1>3 DEF Stall, ReleaseReset, EnableFetch, RaiseRequest, sessionVars, hostVars
  <2>2. Entering'
    BY <1>1, <2>1 DEF Entering, coreVars
  <2>3. QED BY <2>1, <2>2, NothingMoves DEF coreVars
<1>4. CASE Answers
  BY <1>4, AnswerUntouched DEF Answers
<1>5. QED BY <1>2, <1>3, <1>4 DEF SessionNext

\* A debug session changes nothing for the program it stops (DebugTransparent), if
\* the core enters debug mode where the debug program is, and the request stays up
\* until then.
THEOREM SessionTransparent ==
  ASSUME Fits
  PROVE  SessionSpec => DebugTransparent
<1>1. SessionInit => SessionInv /\ User!UserInit
  BY InitSession
<1>2. SessionInv /\ [SessionNext]_sessionVars => SessionInv'
  BY StepSession
<1>3. SessionInv /\ [SessionNext]_sessionVars => [User!UserStep]_(User!userVars)
  BY StepSession, SameMeaning
<1>4. QED BY <1>1, <1>2, <1>3, PTL DEF SessionSpec, DebugTransparent, User!UserSpec
=============================================================================
