-------------------------- MODULE LoadStoreProofs --------------------------
(***************************************************************************)
(* For every address space, every set of accesses and every timing of the  *)
(* memory, the protection unit and the stalls: the load-store unit keeps   *)
(* its types, and waits for an answer exactly while one is owed; an access *)
(* transfers each of its bytes once, a load writes what it addressed, and  *)
(* a refused access transfers nothing more.                                *)
(***************************************************************************)
EXTENDS LoadStoreTransfers, TLAPS

Inv == TypeOK /\ AnswerExpected

-----------------------------------------------------------------------------
(* Types of addresses, lanes and loaded bytes. *)

LEMMA AddrInRange ==
  ASSUME TypeOK, data_req_ex
  PROVE  data_addr \in Address /\ Offset \in Lanes /\ data_addr \div 4 \in MemWords
<1>1. ex \in AccessType
  BY AccessesAssumption DEF TypeOK, data_req_ex
<1>2. ex.addr \in Address
  BY <1>1 DEF AccessType
<1>3. data_addr \in Address
  BY <1>2, NBytesAssumption DEF data_addr, Address
<1>4. data_addr \in Int /\ 0 <= data_addr /\ data_addr < NBYTES
  BY <1>3, NBytesAssumption DEF Address
<1>5. Offset \in Lanes
  BY <1>4 DEF Offset, Lanes
<1>6. data_addr \div 4 \in MemWords
  BY <1>4, NBytesAssumption DEF MemWords
<1> QED BY <1>3, <1>5, <1>6

LEMMA WordBytes ==
  ASSUME NEW w \in MemWords
  PROVE  MemoryWord(w) \in [Lanes -> LoadByte]
<1>1. ASSUME NEW k \in Lanes
      PROVE  4 * w + k \in Address
  BY <1>1, NBytesAssumption DEF MemWords, Lanes, Address
<1> QED BY <1>1 DEF MemoryWord, LoadByte

LEMMA FillByte ==
  ASSUME NEW sext \in {"zero", "sign", "ones"}, NEW top \in LoadByte
  PROVE  Fill(sext, top) \in LoadByte
<1>1. SignBit(top) \in {0, 1}
  BY DEF SignBit, LoadByte
<1> QED BY <1>1 DEF Fill, LoadByte

LEMMA AlignedByte ==
  ASSUME TypeOK, NEW rdata \in [Lanes -> LoadByte], NEW i \in Lanes
  PROVE  RdataByte(rdata, i) \in LoadByte
BY DEF RdataByte, TypeOK, Lanes

LEMMA LoadedWord ==
  ASSUME TypeOK, NEW rdata \in [Lanes -> LoadByte]
  PROVE  data_rdata_ext(rdata) \in [Lanes -> LoadByte]
<1>1. Size(data_type_q) \in 1 .. 4
  BY DEF TypeOK, Size
<1>2. Size(data_type_q) - 1 \in Lanes
  BY <1>1 DEF Lanes
<1>3. Fill(data_sign_ext_q, RdataByte(rdata, Size(data_type_q) - 1)) \in LoadByte
  BY <1>2, AlignedByte, FillByte DEF TypeOK
<1> QED BY <1>3, AlignedByte DEF data_rdata_ext

-----------------------------------------------------------------------------
(* Every cycle keeps the types. *)

LEMMA TypeStep ==
  ASSUME TypeOK, NEW in \in Inputs, SurroundingsOK(in), Clock(in)
  PROVE  TypeOK'
<1>1. in.gnt => data_req_ex
  BY DEF SurroundingsOK, data_req_o
<1>2. ex' \in Accesses \cup {NoAccess} /\ data_misaligned_ex' \in BOOLEAN
  BY DEF Clock, NextWordOfAccess, NextAccess, TypeOK, Inputs
<1>3. CS' \in {"IDLE", "WAIT_RVALID", "WAIT_RVALID_EX_STALL", "IDLE_EX_STALL"}
  <2>1. CASE Idle(in)
    BY <2>1 DEF Idle, Granted
  <2>2. CASE WaitRvalid(in)
    BY <2>2 DEF WaitRvalid, Granted
  <2>3. CASE WaitRvalidExStall(in)
    BY <2>3 DEF WaitRvalidExStall
  <2>4. CASE IdleExStall(in)
    BY <2>4 DEF IdleExStall
  <2> QED BY <2>1, <2>2, <2>3, <2>4 DEF Clock
<1>4. /\ data_type_q' \in {"word", "half", "byte"}
      /\ rdata_offset_q' \in Lanes
      /\ data_sign_ext_q' \in {"zero", "sign", "ones"}
      /\ data_we_q' \in BOOLEAN
  <2>1. CASE in.gnt
    <3>1. ex \in AccessType /\ Offset \in Lanes
      BY <1>1, <2>1, AddrInRange, AccessesAssumption DEF TypeOK, data_req_ex
    <3> QED BY <2>1, <3>1 DEF Clock, GrantRegs, AccessType
  <2>2. CASE ~in.gnt
    BY <2>2 DEF Clock, GrantRegs, TypeOK
  <2> QED BY <2>1, <2>2
<1>5. rdata_q' \in [Lanes -> LoadByte]
  <2>1. CASE in.rvalid
    <3>1. Head(pending) \in MemWords
      BY <2>1 DEF SurroundingsOK, TypeOK
    <3> QED BY <3>1, WordBytes, LoadedWord DEF Clock, RdataReg, TypeOK
  <2>2. CASE ~in.rvalid
    BY <2>2 DEF Clock, RdataReg, TypeOK
  <2> QED BY <2>1, <2>2
<1>6. regfile_we_lsu' \in BOOLEAN
  <2>1. CASE ex_valid(in)
    BY <2>1 DEF Clock, WbReg, regfile_we_ex
  <2>2. CASE ~ex_valid(in)
    BY <2>2 DEF Clock, WbReg
  <2> QED BY <2>1, <2>2
<1>7. data_err_state_q' \in {"IDLE", "GIVE_ERROR"} /\ ctrl_fsm_cs' \in {"DECODE", "FLUSH_WB"}
  BY DEF Clock, ErrorFsm, Controller
<1>8. pending' \in Seq(MemWords)
  <2>1. (IF in.rvalid THEN Tail(pending) ELSE pending) \in Seq(MemWords)
    BY DEF SurroundingsOK, TypeOK
  <2>2. in.gnt => data_addr \div 4 \in MemWords
    BY <1>1, AddrInRange
  <2> QED BY <2>1, <2>2 DEF Clock, MemStep
<1> QED BY <1>2, <1>3, <1>4, <1>5, <1>6, <1>7, <1>8 DEF TypeOK

-----------------------------------------------------------------------------
(* The memory owes a word exactly in the states that wait for one. *)

LEMMA PendingLength ==
  ASSUME TypeOK, NEW in \in Inputs, SurroundingsOK(in), MemStep(in)
  PROVE  /\ in.rvalid => Len(pending) >= 1
         /\ Len(pending') = Len(pending) - (IF in.rvalid THEN 1 ELSE 0)
                                         + (IF in.gnt THEN 1 ELSE 0)
<1> DEFINE Kept == IF in.rvalid THEN Tail(pending) ELSE pending
<1>1. in.rvalid => Len(pending) >= 1
  BY DEF SurroundingsOK, TypeOK
<1>2. /\ Kept \in Seq(MemWords)
      /\ Len(Kept) = Len(pending) - (IF in.rvalid THEN 1 ELSE 0)
  BY <1>1 DEF SurroundingsOK, TypeOK
<1>3. in.gnt => data_addr \div 4 \in MemWords
  BY AddrInRange DEF SurroundingsOK, data_req_o
<1>4. pending' = IF in.gnt THEN Append(Kept, data_addr \div 4) ELSE Kept
  BY DEF MemStep
<1> HIDE DEF Kept
<1>5. CASE in.gnt
  BY <1>1, <1>2, <1>3, <1>4, <1>5
<1>6. CASE ~in.gnt
  BY <1>1, <1>2, <1>4, <1>6
<1> QED BY <1>5, <1>6

LEMMA AnswerStep ==
  ASSUME TypeOK, AnswerExpected, NEW in \in Inputs, SurroundingsOK(in), Clock(in)
  PROVE  AnswerExpected'
<1>1. /\ in.rvalid => Len(pending) >= 1
      /\ Len(pending') = Len(pending) - (IF in.rvalid THEN 1 ELSE 0)
                                      + (IF in.gnt THEN 1 ELSE 0)
  BY PendingLength DEF Clock
<1>2. in.gnt => CS = "IDLE" \/ (CS = "WAIT_RVALID" /\ in.rvalid)
  BY DEF SurroundingsOK, data_req_o
<1>3. CASE Idle(in)
  BY <1>1, <1>3 DEF Idle, Granted, AnswerExpected
<1>4. CASE WaitRvalid(in)
  BY <1>1, <1>2, <1>4 DEF WaitRvalid, Granted, AnswerExpected
<1>5. CASE WaitRvalidExStall(in)
  BY <1>1, <1>2, <1>5 DEF WaitRvalidExStall, AnswerExpected
<1>6. CASE IdleExStall(in)
  BY <1>1, <1>2, <1>6 DEF IdleExStall, AnswerExpected
<1> QED BY <1>3, <1>4, <1>5, <1>6 DEF Clock

-----------------------------------------------------------------------------
LEMMA InvInit == Init => Inv
<1> SUFFICES ASSUME Init PROVE Inv
  OBVIOUS
<1>1. rdata_q \in [Lanes -> LoadByte]
  BY DEF Init, LoadByte
<1>2. pending \in Seq(MemWords) /\ Len(pending) = 0
  BY DEF Init
<1>3. rdata_offset_q \in Lanes
  BY DEF Init, Lanes
<1>4. AnswerExpected
  BY <1>2 DEF Init, AnswerExpected
<1>5. /\ ex \in Accesses \cup {NoAccess}
      /\ data_misaligned_ex \in BOOLEAN
      /\ CS \in {"IDLE", "WAIT_RVALID", "WAIT_RVALID_EX_STALL", "IDLE_EX_STALL"}
      /\ data_type_q \in {"word", "half", "byte"}
      /\ data_sign_ext_q \in {"zero", "sign", "ones"}
      /\ data_we_q \in BOOLEAN
      /\ regfile_we_lsu \in BOOLEAN
      /\ data_err_state_q \in {"IDLE", "GIVE_ERROR"}
      /\ ctrl_fsm_cs \in {"DECODE", "FLUSH_WB"}
  BY DEF Init
<1> QED BY <1>1, <1>2, <1>3, <1>4, <1>5 DEF Inv, TypeOK

LEMMA InvNext == Inv /\ [Next]_lsuVars => Inv'
<1> SUFFICES ASSUME Inv, [Next]_lsuVars PROVE Inv'
  OBVIOUS
<1>1. CASE Next
  <2>1. PICK in \in Inputs : SurroundingsOK(in) /\ Clock(in)
    BY <1>1 DEF Next
  <2> QED BY <2>1, TypeStep, AnswerStep DEF Inv
<1>2. CASE UNCHANGED lsuVars
  BY <1>2 DEF Inv, TypeOK, AnswerExpected, lsuVars
<1> QED BY <1>1, <1>2

LEMMA SpecInv == Spec => []Inv
BY InvInit, InvNext, PTL DEF Spec

\* The registers of the unit and of the pipeline around it keep their types.
THEOREM TypeCorrect == Spec => []TypeOK
<1>1. Inv => TypeOK
  BY DEF Inv
<1> QED BY <1>1, SpecInv, PTL

\* Both assertions of riscv_load_store_unit.sv on its protocol: no grant before
\* the last answer, and no answer while the unit is idle.
THEOREM ProtocolHeld == Spec => []AnswerExpected
<1>1. Inv => AnswerExpected
  BY DEF Inv
<1> QED BY <1>1, SpecInv, PTL

-----------------------------------------------------------------------------
(* The bytes of an access: those in its first word, and those in the next. *)

FirstWord(a) == a.addr \div 4
SecondWord(a) == ((a.addr + 4) % NBYTES) \div 4
AcrossTwo(a) == Crosses(a.type, a.addr % 4)
LastWord(a) == IF AcrossTwo(a) THEN SecondWord(a) ELSE FirstWord(a)

Near(a) == {i \in 0 .. Size(a.type) - 1 : (a.addr % 4) + i < 4}
Far(a)  == {i \in 0 .. Size(a.type) - 1 : (a.addr % 4) + i >= 4}
Part(a, I) == {<<ByteAddress(a, i), i>> : i \in I}

\* A word holds four bytes and the address space whole words; it wraps.
LEMMA ByteOfWord ==
  ASSUME NEW addr \in Address, NEW i \in Lanes
  PROVE  /\ addr % 4 \in Lanes
         /\ ((addr + 4) % NBYTES) % 4 = addr % 4
         /\ (addr + 4) % NBYTES \in Address
         /\ (addr % 4) + i < 4 => (addr + i) % NBYTES = 4 * (addr \div 4) + ((addr % 4) + i)
         /\ (addr % 4) + i >= 4 =>
              (addr + i) % NBYTES = 4 * (((addr + 4) % NBYTES) \div 4) + ((addr % 4) + i - 4)
         /\ addr = 4 * (addr \div 4) + (addr % 4)
         /\ (addr + 4) % NBYTES = 4 * (((addr + 4) % NBYTES) \div 4) + (addr % 4)
<1> DEFINE q == addr \div 4  o == addr % 4  m == NBYTES \div 4
<1>1. /\ addr \in Int /\ 0 <= addr /\ addr < NBYTES /\ NBYTES \in Int /\ i \in 0 .. 3
      /\ NBYTES = 4 * m /\ m \in Int /\ m >= 1
  BY NBytesAssumption DEF Address, Lanes
<1>2. addr = 4 * q + o /\ o \in 0 .. 3 /\ q \in Int /\ 0 <= q /\ q < m
  BY <1>1
<1> HIDE DEF q, o, m
<1>3. ASSUME NEW k \in 0 .. 4
      PROVE  (addr + k) % NBYTES = IF addr + k < NBYTES THEN addr + k ELSE addr + k - NBYTES
  BY <1>1
<1>4. (addr + 4) % NBYTES = IF q + 1 < m THEN 4 * (q + 1) + o ELSE o
  <2>1. (addr + 4) % NBYTES = IF addr + 4 < NBYTES THEN addr + 4 ELSE addr + 4 - NBYTES
    BY <1>3
  <2>2. addr + 4 < NBYTES <=> q + 1 < m
    BY <1>1, <1>2
  <2>3. ~(q + 1 < m) => addr + 4 - NBYTES = o
    BY <1>1, <1>2
  <2> QED BY <1>2, <2>1, <2>2, <2>3
<1>5. /\ ((addr + 4) % NBYTES) % 4 = o
      /\ ((addr + 4) % NBYTES) \div 4 = IF q + 1 < m THEN q + 1 ELSE 0
  BY <1>2, <1>4
<1>6. (addr + i) % NBYTES = IF addr + i < NBYTES THEN addr + i ELSE addr + i - NBYTES
  BY <1>1, <1>3
<1>7. o + i < 4 => (addr + i) % NBYTES = 4 * q + (o + i)
  BY <1>1, <1>2, <1>6
<1>8. o + i >= 4 => (addr + i) % NBYTES = 4 * (IF q + 1 < m THEN q + 1 ELSE 0) + (o + i - 4)
  <2> SUFFICES ASSUME o + i >= 4
               PROVE  (addr + i) % NBYTES = 4 * (IF q + 1 < m THEN q + 1 ELSE 0) + (o + i - 4)
    OBVIOUS
  <2>1. CASE q + 1 < m
    BY <1>1, <1>2, <1>6, <2>1
  <2>2. CASE ~(q + 1 < m)
    <3>1. q + 1 = m
      BY <1>1, <1>2, <2>2
    <3> QED BY <1>1, <1>2, <1>6, <2>2, <3>1
  <2> QED BY <2>1, <2>2
<1>9. (addr + 4) % NBYTES \in Address
  BY <1>1, <1>2, <1>4 DEF Address
<1>10. (addr + 4) % NBYTES = 4 * (((addr + 4) % NBYTES) \div 4) + o
  BY <1>2, <1>4, <1>5
<1>11. o \in Lanes
  BY <1>2 DEF Lanes
<1> QED BY <1>2, <1>5, <1>7, <1>8, <1>9, <1>10, <1>11 DEF q, o

LEMMA AccessBytes ==
  ASSUME NEW a \in AccessType
  PROVE  /\ Size(a.type) \in 1 .. 4 /\ Near(a) \subseteq Lanes /\ Far(a) \subseteq Lanes
         /\ Near(a) \cup Far(a) = 0 .. Size(a.type) - 1 /\ Near(a) \cap Far(a) = {}
         /\ ~AcrossTwo(a) <=> Far(a) = {}
         /\ BytesOf(a) = Part(a, Near(a)) \cup Part(a, Far(a))
         /\ Part(a, Near(a)) \cap Part(a, Far(a)) = {}
<1>1. a.type \in {"word", "half", "byte"} /\ a.addr \in Address
  BY DEF AccessType
<1>2. a.addr % 4 \in 0 .. 3
  BY <1>1, ByteOfWord DEF Lanes
<1>3. Size(a.type) \in 1 .. 4
  BY <1>1 DEF Size
<1>4. Near(a) \subseteq Lanes /\ Far(a) \subseteq Lanes
  BY <1>3 DEF Near, Far, Lanes
<1>5. Near(a) \cup Far(a) = 0 .. Size(a.type) - 1 /\ Near(a) \cap Far(a) = {}
  BY <1>2, <1>3 DEF Near, Far
<1>6. ~AcrossTwo(a) <=> Far(a) = {}
  <2>1. AcrossTwo(a) => Size(a.type) - 1 \in Far(a)
    BY <1>1, <1>2 DEF AcrossTwo, Crosses, Far, Size
  <2>2. ~AcrossTwo(a) => Far(a) = {}
    BY <1>1, <1>2 DEF AcrossTwo, Crosses, Far, Size
  <2> QED BY <2>1, <2>2
<1>7. BytesOf(a) = Part(a, Near(a)) \cup Part(a, Far(a))
  BY <1>5 DEF BytesOf, Part
<1>8. Part(a, Near(a)) \cap Part(a, Far(a)) = {}
  BY <1>5 DEF Part
<1> QED BY <1>3, <1>4, <1>5, <1>6, <1>7, <1>8

-----------------------------------------------------------------------------
(* How far the access in EX has come.                                      *)

StallStates == {"WAIT_RVALID_EX_STALL", "IDLE_EX_STALL"}

\* Each word that was granted has transferred its part.
PartsInv ==
  /\ ex = NoAccess => parts = <<>> /\ refused = NotRefused /\ CS \notin StallStates
                      /\ ~data_misaligned_ex
  /\ data_misaligned_ex => AcrossTwo(ex)
  /\ ex # NoAccess /\ refused = NotRefused =>
       \/ CS \notin StallStates /\ ~data_misaligned_ex /\ parts = <<>>
       \/ (CS \in StallStates <=> ~data_misaligned_ex) /\ parts = <<Part(ex, Near(ex))>>
       \/ CS \in StallStates /\ data_misaligned_ex
          /\ parts = <<Part(ex, Near(ex)), Part(ex, Far(ex))>>

\* The last word of a load is on its way, and the first one is kept.
Awaits(a) ==
  /\ data_type_q = a.type /\ rdata_offset_q = a.addr % 4 /\ data_sign_ext_q = a.sext
  /\ ~data_we_q
  /\ Head(pending) = LastWord(a)
  /\ AcrossTwo(a) => rdata_q = MemoryWord(FirstWord(a))

\* The answers to a load in EX ...
ExLoads ==
  ex # NoAccess /\ ~ex.we /\ refused = NotRefused =>
    /\ CS \in StallStates => ~AcrossTwo(ex)
    /\ CS = "WAIT_RVALID_EX_STALL" => Awaits(ex)
    /\ CS = "IDLE_EX_STALL" => rdata_q = LoadValue(ex)
    /\ data_misaligned_ex /\ CS = "IDLE" => rdata_q = MemoryWord(FirstWord(ex))
    /\ data_misaligned_ex /\ CS = "WAIT_RVALID" => Head(pending) = FirstWord(ex) /\ ~data_we_q

\* ... and to the load in WB.
WbLoads ==
  wb # NoAccess =>
    /\ wb \in Accesses /\ ~wb.we /\ regfile_we_lsu
    /\ \/ CS = "IDLE" /\ rdata_q = LoadValue(wb)
       \/ CS = "WAIT_RVALID" /\ Awaits(wb)

-----------------------------------------------------------------------------
(* What a grant transfers and what an answer returns.                      *)

LEMMA RequestInEx ==
  ASSUME TypeOK, ex # NoAccess, data_misaligned_ex => AcrossTwo(ex)
  PROVE  /\ ex \in AccessType /\ ex \in Accesses /\ data_req_ex
         /\ Offset = ex.addr % 4
         /\ data_misaligned_o <=> ~data_misaligned_ex /\ AcrossTwo(ex)
         /\ data_addr \div 4 = IF data_misaligned_ex THEN SecondWord(ex) ELSE FirstWord(ex)
         /\ data_addr = 4 * (data_addr \div 4) + Offset
<1>1. ex \in Accesses /\ ex \in AccessType /\ data_req_ex
  BY AccessesAssumption DEF TypeOK, data_req_ex
<1>2. ex.addr \in Address
  BY <1>1 DEF AccessType
<1>3. /\ ((ex.addr + 4) % NBYTES) % 4 = ex.addr % 4
      /\ ex.addr = 4 * (ex.addr \div 4) + (ex.addr % 4)
      /\ (ex.addr + 4) % NBYTES = 4 * (((ex.addr + 4) % NBYTES) \div 4) + (ex.addr % 4)
  <2>1. 0 \in Lanes
    BY DEF Lanes
  <2> QED BY <1>2, <2>1, ByteOfWord
<1>4. Offset = ex.addr % 4
  BY <1>3 DEF Offset, data_addr
<1>5. data_misaligned_o <=> ~data_misaligned_ex /\ AcrossTwo(ex)
  BY <1>1, <1>4 DEF data_misaligned_o, AcrossTwo
<1>6. data_addr \div 4 = IF data_misaligned_ex THEN SecondWord(ex) ELSE FirstWord(ex)
  BY DEF data_addr, SecondWord, FirstWord
<1>7. data_addr = 4 * (data_addr \div 4) + Offset
  <2>1. CASE data_misaligned_ex
    BY <1>3, <1>4, <2>1 DEF data_addr
  <2>2. CASE ~data_misaligned_ex
    BY <1>3, <1>4, <2>2 DEF data_addr
  <2> QED BY <2>1, <2>2
<1> QED BY <1>1, <1>4, <1>5, <1>6, <1>7

\* The lanes of a request carry the bytes of the access that lie in its word.
LEMMA GrantedPart ==
  ASSUME TypeOK, ex # NoAccess, data_misaligned_ex => AcrossTwo(ex)
  PROVE  {Lane(k) : k \in data_be} = Part(ex, IF data_misaligned_ex THEN Far(ex) ELSE Near(ex))
<1> DEFINE o == ex.addr % 4
           in_word == IF data_misaligned_ex THEN Far(ex) ELSE Near(ex)
           lane(i) == IF data_misaligned_ex THEN o + i - 4 ELSE o + i
<1>1. /\ ex \in AccessType /\ data_req_ex /\ Offset = o
      /\ data_addr \div 4 = IF data_misaligned_ex THEN SecondWord(ex) ELSE FirstWord(ex)
      /\ data_addr = 4 * (data_addr \div 4) + Offset
  BY RequestInEx
<1>2. ex.addr \in Address /\ ex.type \in {"word", "half", "byte"}
  BY <1>1 DEF AccessType
<1>3. in_word \subseteq Lanes
  BY <1>1, AccessBytes
<1>4. o \in 0 .. 3
  <2>1. 0 \in Lanes
    BY DEF Lanes
  <2> QED BY <1>2, <2>1, ByteOfWord DEF Lanes
<1>5. data_be = {lane(i) : i \in in_word}
  <2>1. CASE ex.type = "word"
    <3>1. CASE data_misaligned_ex
      <4>1. data_be = {k \in Lanes : k < o}
        BY <1>1, <2>1, <3>1 DEF data_be
      <4>2. in_word = {i \in 0 .. 3 : o + i >= 4}
        BY <2>1, <3>1 DEF Far, Size
      <4>3. ASSUME NEW k \in data_be PROVE k + 4 - o \in in_word /\ lane(k + 4 - o) = k
        BY <1>4, <3>1, <4>1, <4>2, <4>3 DEF Lanes
      <4>4. ASSUME NEW i \in in_word PROVE lane(i) \in data_be
        BY <1>4, <3>1, <4>1, <4>2, <4>4 DEF Lanes
      <4> HIDE DEF lane, in_word
      <4> QED BY <4>3, <4>4
    <3>2. CASE ~data_misaligned_ex
      <4>1. data_be = {k \in Lanes : k >= o}
        BY <1>1, <2>1, <3>2 DEF data_be
      <4>2. in_word = {i \in 0 .. 3 : o + i < 4}
        BY <2>1, <3>2 DEF Near, Size
      <4>3. ASSUME NEW k \in data_be PROVE k - o \in in_word /\ lane(k - o) = k
        BY <1>4, <3>2, <4>1, <4>2, <4>3 DEF Lanes
      <4>4. ASSUME NEW i \in in_word PROVE lane(i) \in data_be
        BY <1>4, <3>2, <4>1, <4>2, <4>4 DEF Lanes
      <4> HIDE DEF lane, in_word
      <4> QED BY <4>3, <4>4
    <3> QED BY <3>1, <3>2
  <2>2. CASE ex.type = "half"
    <3>1. CASE data_misaligned_ex
      <4>1. o = 3
        BY <2>2, <3>1 DEF AcrossTwo, Crosses
      <4>2. data_be = {0}
        BY <2>2, <3>1 DEF data_be
      <4>3. in_word = {1}
        BY <2>2, <3>1, <4>1 DEF Far, Size
      <4>4. lane(1) = 0
        BY <3>1, <4>1
      <4> HIDE DEF lane, in_word
      <4> QED BY <4>2, <4>3, <4>4
    <3>2. CASE ~data_misaligned_ex
      <4>1. data_be = {o, o + 1} \cap Lanes
        BY <1>1, <2>2, <3>2 DEF data_be
      <4>2. in_word = {i \in 0 .. 1 : o + i < 4}
        BY <2>2, <3>2 DEF Near, Size
      <4>3. ASSUME NEW k \in data_be PROVE k - o \in in_word /\ lane(k - o) = k
        BY <1>4, <3>2, <4>1, <4>2, <4>3 DEF Lanes
      <4>4. ASSUME NEW i \in in_word PROVE lane(i) \in data_be
        <5>1. i \in 0 .. 1 /\ o + i < 4 /\ lane(i) = o + i
          BY <3>2, <4>2, <4>4
        <5>2. o + i \in Lanes /\ o + i \in {o, o + 1}
          BY <1>4, <5>1 DEF Lanes
        <5> QED BY <4>1, <5>1, <5>2
      <4> HIDE DEF lane, in_word
      <4> QED BY <4>3, <4>4
    <3> QED BY <3>1, <3>2
  <2>3. CASE ex.type = "byte"
    <3>1. ~data_misaligned_ex
      BY <2>3 DEF AcrossTwo, Crosses
    <3>2. data_be = {o} /\ in_word = {0}
      BY <1>1, <1>4, <2>3, <3>1 DEF data_be, Near, Size
    <3> QED BY <1>4, <3>1, <3>2
  <2> QED BY <1>2, <2>1, <2>2, <2>3
<1>6. ASSUME NEW i \in in_word
      PROVE  Lane(lane(i)) = <<ByteAddress(ex, i), i>>
  <2>1. i \in Lanes /\ i \in 0 .. 3
    BY <1>3 DEF Lanes
  <2>2. lane(i) \in Lanes
    BY <1>4, <2>1 DEF Near, Far, Lanes
  <2>3. (lane(i) - Offset) % 4 = i
    <3>1. CASE data_misaligned_ex
      <4>1. lane(i) - Offset = i - 4
        BY <1>1, <1>4, <2>1, <3>1
      <4> QED BY <2>1, <4>1
    <3>2. CASE ~data_misaligned_ex
      <4>1. lane(i) - Offset = i
        BY <1>1, <1>4, <2>1, <3>2
      <4> QED BY <2>1, <4>1
    <3> QED BY <3>1, <3>2
  <2>4. data_wdata[lane(i)][2] = i
    BY <2>2, <2>3 DEF data_wdata
  <2>5. data_addr - Offset + lane(i) = ByteAddress(ex, i)
    <3>1. CASE data_misaligned_ex
      <4>1. o + i >= 4
        BY <3>1 DEF Far
      <4>2. (ex.addr + i) % NBYTES = 4 * SecondWord(ex) + (o + i - 4)
        BY <1>2, <2>1, <4>1, ByteOfWord DEF SecondWord
      <4>3. SecondWord(ex) \in Int
        BY <1>2, <2>1, ByteOfWord, NBytesAssumption DEF SecondWord, Address
      <4> QED BY <1>1, <1>4, <2>1, <3>1, <4>2, <4>3 DEF ByteAddress
    <3>2. CASE ~data_misaligned_ex
      <4>1. o + i < 4
        BY <3>2 DEF Near
      <4>2. (ex.addr + i) % NBYTES = 4 * FirstWord(ex) + (o + i)
        BY <1>2, <2>1, <4>1, ByteOfWord DEF FirstWord
      <4>3. FirstWord(ex) \in Int
        BY <1>2, NBytesAssumption DEF FirstWord, Address
      <4> QED BY <1>1, <1>4, <2>1, <3>2, <4>2, <4>3 DEF ByteAddress
    <3> QED BY <3>1, <3>2
  <2> HIDE DEF lane
  <2> QED BY <2>4, <2>5 DEF Lane
<1> HIDE DEF in_word, lane, o
<1>7. {Lane(k) : k \in data_be} = {Lane(lane(i)) : i \in in_word}
  BY <1>5
<1>8. {Lane(lane(i)) : i \in in_word} = {<<ByteAddress(ex, i), i>> : i \in in_word}
  BY <1>6
<1> QED BY <1>7, <1>8 DEF Part, in_word

\* The answer to the last word of a load completes its value.
LEMMA AnswerCompletes ==
  ASSUME NEW a \in AccessType, Awaits(a)
  PROVE  data_rdata_ext(MemoryWord(Head(pending))) = LoadValue(a)
<1> DEFINE rdata == MemoryWord(Head(pending))  o == a.addr % 4  size == Size(a.type)
<1>1. a.addr \in Address /\ size \in 1 .. 4
  BY AccessBytes DEF AccessType
<1>2. o \in 0 .. 3
  <2>1. 0 \in Lanes
    BY DEF Lanes
  <2> QED BY <1>1, <2>1, ByteOfWord DEF Lanes
<1>3. ASSUME NEW i \in 0 .. size - 1
      PROVE  RdataByte(rdata, i) = <<"mem", ByteAddress(a, i)>>
  <2>1. i \in Lanes /\ i \in 0 .. 3
    BY <1>1 DEF Lanes
  <2>2. CASE o + i >= 4
    <3>1. AcrossTwo(a)
      <4>1. i \in Far(a)
        BY <2>2 DEF Far
      <4> QED BY <4>1, AccessBytes
    <3>2. RdataByte(rdata, i) = rdata[o + i - 4] /\ rdata = MemoryWord(SecondWord(a))
      BY <1>2, <2>1, <2>2, <3>1 DEF RdataByte, Awaits, LastWord
    <3>3. o + i - 4 \in Lanes
      BY <1>2, <2>1, <2>2 DEF Lanes
    <3>4. (a.addr + i) % NBYTES = 4 * SecondWord(a) + (o + i - 4)
      BY <1>1, <2>1, <2>2, ByteOfWord DEF SecondWord
    <3> QED BY <3>2, <3>3, <3>4 DEF MemoryWord, ByteAddress
  <2>3. CASE o + i < 4
    <3>1. o + i \in Lanes
      BY <1>2, <2>1, <2>3 DEF Lanes
    <3>2. RdataByte(rdata, i) = MemoryWord(FirstWord(a))[o + i]
      <4>1. CASE AcrossTwo(a)
        BY <1>2, <2>1, <2>3, <4>1 DEF RdataByte, Awaits, AcrossTwo
      <4>2. CASE ~AcrossTwo(a)
        BY <1>2, <2>1, <2>3, <4>2 DEF RdataByte, Awaits, AcrossTwo, LastWord
      <4> QED BY <4>1, <4>2
    <3>3. (a.addr + i) % NBYTES = 4 * FirstWord(a) + (o + i)
      BY <1>1, <2>1, <2>3, ByteOfWord DEF FirstWord
    <3> QED BY <3>1, <3>2, <3>3 DEF MemoryWord, ByteAddress
  <2> QED BY <1>2, <2>1, <2>2, <2>3
<1> HIDE DEF rdata, size
<1>4. Size(data_type_q) = size /\ data_sign_ext_q = a.sext
  BY DEF Awaits, size
<1>5. RdataByte(rdata, size - 1) = <<"mem", ByteAddress(a, size - 1)>>
  BY <1>1, <1>3
<1>6. ASSUME NEW i \in Lanes, i < size
      PROVE  RdataByte(rdata, i) = <<"mem", ByteAddress(a, i)>>
  <2>1. i \in 0 .. size - 1
    BY <1>1, <1>6 DEF Lanes
  <2> QED BY <1>3, <2>1
<1>7. data_rdata_ext(rdata) =
        [i \in Lanes |-> IF i < size THEN <<"mem", ByteAddress(a, i)>>
                         ELSE Fill(a.sext, <<"mem", ByteAddress(a, size - 1)>>)]
  BY <1>4, <1>5, <1>6 DEF data_rdata_ext
<1> QED BY <1>7 DEF LoadValue, rdata, size

-----------------------------------------------------------------------------
(* One cycle of the unit with an access in EX.                             *)

TransferCycle(in) ==
  /\ Inv /\ PartsInv
  /\ in \in Inputs /\ SurroundingsOK(in) /\ Clock(in) /\ Track(in)

LEMMA Handshake ==
  ASSUME NEW in, TransferCycle(in), ex # NoAccess
  PROVE  /\ ex_ready(in) <=> ex_valid(in)
         /\ Leaves(in) <=> ~data_misaligned_o /\ ex_valid(in)
         /\ in.gnt => /\ CS = "IDLE" \/ (CS = "WAIT_RVALID" /\ in.rvalid)
                      /\ ~data_err_o /\ (ex_valid(in) <=> ~in.stall)
         /\ data_err_o => /\ CS = "IDLE" \/ (CS = "WAIT_RVALID" /\ in.rvalid)
                          /\ ~in.gnt /\ (ex_valid(in) <=> ~in.stall)
                          /\ data_addr \div 4 \in Refused
         /\ CS \in StallStates => ~in.gnt /\ ~data_err_o /\ (ex_valid(in) <=> ~in.stall)
         /\ ~in.gnt /\ ~data_err_o /\ CS \notin StallStates => ~ex_valid(in)
<1> USE DEF TransferCycle
<1>1. data_req_ex /\ ~in.branch
  BY DEF data_req_ex, SurroundingsOK
<1>2. ex_ready(in) <=> ex_valid(in)
  BY <1>1 DEF ex_ready, ex_valid
<1>3. Leaves(in) <=> ~data_misaligned_o /\ ex_valid(in)
  BY <1>1, <1>2 DEF Leaves
<1>4. in.gnt \/ data_err_o => CS = "IDLE" \/ (CS = "WAIT_RVALID" /\ in.rvalid)
  BY DEF SurroundingsOK, data_req_o
<1>5. data_err_o => in.refuse /\ ~in.gnt /\ data_addr \div 4 \in Refused
  BY DEF SurroundingsOK
<1>6. CS \in {"IDLE", "WAIT_RVALID"} \cup StallStates
  BY DEF Inv, TypeOK, StallStates
<1>7. in.gnt \/ data_err_o => (ex_valid(in) <=> ~in.stall)
  BY <1>1, <1>4 DEF ex_valid, lsu_ready_ex, lsu_ready_wb
<1>8. CS \in StallStates => ~in.gnt /\ ~data_err_o /\ (ex_valid(in) <=> ~in.stall)
  BY <1>1, <1>4 DEF ex_valid, lsu_ready_ex, lsu_ready_wb, StallStates
<1>9. ~in.gnt /\ ~data_err_o /\ CS \notin StallStates => ~ex_valid(in)
  BY <1>1, <1>6 DEF ex_valid, lsu_ready_ex, lsu_ready_wb
<1> QED BY <1>2, <1>3, <1>4, <1>5, <1>7, <1>8, <1>9

LEMMA NextState ==
  ASSUME NEW in, TransferCycle(in), ex # NoAccess
  PROVE  CS' = CASE in.gnt /\ ex_valid(in) -> "WAIT_RVALID"
                 [] in.gnt /\ ~ex_valid(in) -> "WAIT_RVALID_EX_STALL"
                 [] ~in.gnt /\ CS \notin StallStates ->
                      IF CS = "WAIT_RVALID" /\ ~in.rvalid THEN "WAIT_RVALID" ELSE "IDLE"
                 [] CS \in StallStates /\ ex_valid(in) ->
                      IF CS = "WAIT_RVALID_EX_STALL" /\ ~in.rvalid THEN "WAIT_RVALID" ELSE "IDLE"
                 [] CS \in StallStates /\ ~ex_valid(in) ->
                      IF CS = "WAIT_RVALID_EX_STALL" /\ ~in.rvalid
                      THEN "WAIT_RVALID_EX_STALL" ELSE "IDLE_EX_STALL"
<1> USE DEF TransferCycle, StallStates
<1>1. CS \in StallStates => ~in.gnt
  BY Handshake
<1>2. in.gnt => CS = "IDLE" \/ (CS = "WAIT_RVALID" /\ in.rvalid)
  BY Handshake
<1>3. CASE Idle(in)
  BY <1>3 DEF Idle, Granted
<1>4. CASE WaitRvalid(in)
  BY <1>2, <1>4 DEF WaitRvalid, Granted
<1>5. CASE WaitRvalidExStall(in)
  BY <1>1, <1>5 DEF WaitRvalidExStall
<1>6. CASE IdleExStall(in)
  BY <1>1, <1>6 DEF IdleExStall
<1> QED BY <1>3, <1>4, <1>5, <1>6 DEF Clock

\* Without an access in EX nothing is requested, refused or transferred.
LEMMA NothingInEx ==
  ASSUME NEW in, TransferCycle(in), ex = NoAccess
  PROVE  /\ ~in.gnt /\ ~data_err_o /\ ~data_misaligned_o /\ ~Leaves(in) /\ ~ex_valid(in)
         /\ parts' = <<>> /\ refused' = NotRefused /\ left' = Nothing
         /\ CS' \notin StallStates /\ ~data_misaligned_ex'
         /\ CS \in {"IDLE", "WAIT_RVALID"}
         /\ CS' = IF CS = "WAIT_RVALID" /\ ~in.rvalid THEN "WAIT_RVALID" ELSE "IDLE"
<1> USE DEF TransferCycle
<1>1. ~data_req_ex
  BY DEF data_req_ex
<1>2. ~in.gnt /\ ~data_err_o
  BY <1>1 DEF SurroundingsOK, data_req_o
<1>3. ~data_misaligned_o /\ ~Leaves(in) /\ ~ex_valid(in)
  BY <1>1 DEF data_misaligned_o, Leaves, ex_valid
<1>4. parts = <<>> /\ refused = NotRefused /\ CS \notin StallStates /\ ~data_misaligned_ex
  BY DEF PartsInv
<1>5. parts' = <<>> /\ refused' = NotRefused /\ left' = Nothing
  BY <1>2, <1>3, <1>4 DEF Track, NowParts, NowRefused
<1>6. CS \in {"IDLE", "WAIT_RVALID"}
  BY <1>4 DEF Inv, TypeOK, StallStates
<1>7. CS' = IF CS = "WAIT_RVALID" /\ ~in.rvalid THEN "WAIT_RVALID" ELSE "IDLE"
  BY <1>2, <1>6 DEF Clock, Idle, WaitRvalid, WaitRvalidExStall, IdleExStall
<1>8. ~data_misaligned_ex'
  BY <1>3, <1>4 DEF Clock, NextWordOfAccess, NextAccess
<1> QED BY <1>2, <1>3, <1>5, <1>6, <1>7, <1>8 DEF StallStates

LEMMA AppendToOne ==
  ASSUME NEW x, NEW y
  PROVE  Append(<<>>, x) = <<x>> /\ Append(<<x>>, y) = <<x, y>>
<1> DEFINE S == {x, y}
<1>1. /\ <<x>> \in Seq(S) /\ <<x, y>> \in Seq(S) /\ Append(<<x>>, y) \in Seq(S)
  OBVIOUS
<1>2. Len(Append(<<x>>, y)) = 2 /\ Append(<<x>>, y)[1] = x /\ Append(<<x>>, y)[2] = y
  BY <1>1
<1>3. \A s, t \in Seq(S) : Len(s) = Len(t) /\ (\A i \in 1 .. Len(s) : s[i] = t[i]) => s = t
  OBVIOUS
<1>4. \A i \in 1 .. 2 : Append(<<x>>, y)[i] = <<x, y>>[i]
  BY <1>2
<1>5. Append(<<x>>, y) = <<x, y>>
  BY <1>1, <1>2, <1>3, <1>4
<1>6. Append(<<>>, x) = <<x>>
  OBVIOUS
<1> QED BY <1>5, <1>6

\* What the grant of a cycle adds.
LEMMA NowTransferred ==
  ASSUME NEW in, TransferCycle(in), ex # NoAccess, refused = NotRefused, ~data_err_o
  PROVE  /\ NowRefused = NotRefused
         /\ ~in.gnt => NowParts(in) = parts
         /\ in.gnt => NowParts(in) = IF data_misaligned_ex
                                     THEN <<Part(ex, Near(ex)), Part(ex, Far(ex))>>
                                     ELSE <<Part(ex, Near(ex))>>
<1> USE DEF TransferCycle
<1>1. NowRefused = NotRefused
  BY DEF NowRefused
<1>2. ASSUME in.gnt
      PROVE  NowParts(in) = IF data_misaligned_ex
                            THEN <<Part(ex, Near(ex)), Part(ex, Far(ex))>>
                            ELSE <<Part(ex, Near(ex))>>
  <2>1. CS \notin StallStates
    BY <1>2, Handshake DEF StallStates
  <2>2. parts = IF data_misaligned_ex THEN <<Part(ex, Near(ex))>> ELSE <<>>
    BY <2>1 DEF PartsInv
  <2>3. {Lane(k) : k \in data_be} = Part(ex, IF data_misaligned_ex THEN Far(ex) ELSE Near(ex))
    BY GrantedPart DEF PartsInv, Inv
  <2>4. NowParts(in) = Append(parts, {Lane(k) : k \in data_be})
    BY <1>2 DEF NowParts
  <2>5. \A x, y : Append(<<>>, x) = <<x>> /\ Append(<<x>>, y) = <<x, y>>
    BY AppendToOne
  <2>6. CASE data_misaligned_ex
    BY ONLY <2>2, <2>3, <2>4, <2>5, <2>6, Zenon
  <2>7. CASE ~data_misaligned_ex
    BY ONLY <2>2, <2>3, <2>4, <2>5, <2>7, Zenon
  <2> QED BY <2>6, <2>7
<1> QED BY <1>1, <1>2 DEF NowParts

LEMMA PartsStep ==
  ASSUME NEW in, TransferCycle(in)
  PROVE  PartsInv'
<1> USE DEF TransferCycle
<1>1. CASE ex = NoAccess
  BY <1>1, NothingInEx DEF PartsInv
<1>2. CASE ex # NoAccess
  <2>1. /\ ex_ready(in) <=> ex_valid(in)
        /\ Leaves(in) <=> ~data_misaligned_o /\ ex_valid(in)
    BY <1>2, Handshake
  <2>2. /\ data_misaligned_o <=> ~data_misaligned_ex /\ AcrossTwo(ex)
        /\ data_misaligned_ex => AcrossTwo(ex)
    BY <1>2, RequestInEx DEF Inv, PartsInv
  <2>3. CASE Leaves(in)
    <3>1. parts' = <<>> /\ refused' = NotRefused
      BY <2>3 DEF Track
    <3>2. ~data_misaligned_ex'
      BY <2>1, <2>3 DEF Clock, NextWordOfAccess, NextAccess
    <3>3. CS' \notin StallStates
      BY <1>2, <2>1, <2>3, NextState DEF StallStates, Inv, TypeOK
    <3> QED BY <3>1, <3>2, <3>3 DEF PartsInv
  <2>4. CASE ~Leaves(in)
    <3>1. ex' = ex /\ data_misaligned_ex' = (data_misaligned_ex \/ (data_misaligned_o /\ ex_valid(in)))
      BY <2>1, <2>4 DEF Clock, NextWordOfAccess, NextAccess, data_misaligned_o, Inv, TypeOK
    <3>2. parts' = NowParts(in) /\ refused' = NowRefused
      BY <2>4 DEF Track
    <3>3. data_misaligned_ex' => AcrossTwo(ex')
      BY <2>2, <3>1
    <3>4. ASSUME refused' = NotRefused
          PROVE  \/ CS' \notin StallStates /\ ~data_misaligned_ex' /\ parts' = <<>>
                 \/ /\ CS' \in StallStates <=> ~data_misaligned_ex'
                    /\ parts' = <<Part(ex, Near(ex))>>
                 \/ /\ CS' \in StallStates /\ data_misaligned_ex'
                    /\ parts' = <<Part(ex, Near(ex)), Part(ex, Far(ex))>>
      <4>1. refused = NotRefused /\ ~data_err_o
        <5>1. NotRefused \notin Nat
          BY DEF NotRefused
        <5> QED BY <3>2, <3>4, <5>1 DEF NowRefused
      <4>2. /\ ~in.gnt => parts' = parts
            /\ in.gnt => parts' = IF data_misaligned_ex
                                  THEN <<Part(ex, Near(ex)), Part(ex, Far(ex))>>
                                  ELSE <<Part(ex, Near(ex))>>
        BY <1>2, <3>2, <4>1, NowTransferred
      <4>3. CASE in.gnt
        <5>1. CS' \in StallStates <=> ~ex_valid(in)
          BY <1>2, <4>3, NextState DEF StallStates
        <5>2. data_misaligned_ex => ~ex_valid(in)
          BY <2>1, <2>2, <2>4
        <5> QED BY <2>1, <2>2, <2>4, <3>1, <4>2, <4>3, <5>1, <5>2
      <4>4. CASE ~in.gnt /\ CS \notin StallStates
        <5>1. ~ex_valid(in) /\ CS' \notin StallStates
          BY <1>2, <4>1, <4>4, Handshake, NextState DEF StallStates
        <5> QED BY <1>2, <3>1, <4>1, <4>2, <4>4, <5>1 DEF PartsInv
      <4>5. CASE CS \in StallStates
        <5>1. CS' \in StallStates <=> ~ex_valid(in)
          BY <1>2, <4>5, Handshake, NextState DEF StallStates
        <5>2. ~in.gnt
          BY <1>2, <4>5, Handshake
        <5> QED BY <1>2, <2>1, <2>2, <2>4, <3>1, <4>1, <4>2, <4>5, <5>1, <5>2 DEF PartsInv
      <4> QED BY <4>3, <4>4, <4>5
    <3> QED BY <1>2, <3>1, <3>3, <3>4 DEF PartsInv
  <2> QED BY <2>3, <2>4
<1> QED BY <1>1, <1>2

LEMMA LeavesComplete ==
  ASSUME NEW in, TransferCycle(in), Leaves(in)
  PROVE  /\ ex # NoAccess
         /\ NowRefused = NotRefused =>
              NowParts(in) = IF AcrossTwo(ex) THEN <<Part(ex, Near(ex)), Part(ex, Far(ex))>>
                             ELSE <<Part(ex, Near(ex))>>
<1> USE DEF TransferCycle
<1>1. ex # NoAccess
  BY DEF Leaves, data_req_ex
<1> SUFFICES ASSUME NowRefused = NotRefused
             PROVE  NowParts(in) = IF AcrossTwo(ex)
                                   THEN <<Part(ex, Near(ex)), Part(ex, Far(ex))>>
                                   ELSE <<Part(ex, Near(ex))>>
  BY <1>1
<1>2. refused = NotRefused /\ ~data_err_o
  BY DEF NowRefused, NotRefused
<1>3. data_misaligned_ex <=> AcrossTwo(ex)
  BY <1>1, Handshake, RequestInEx DEF Inv, PartsInv
<1>4. CASE in.gnt
  BY <1>1, <1>2, <1>3, <1>4, NowTransferred
<1>5. CASE ~in.gnt
  <2>1. CS \in StallStates /\ NowParts(in) = parts
    BY <1>1, <1>2, <1>5, Handshake DEF NowParts
  <2> QED BY <1>1, <1>2, <1>3, <2>1 DEF PartsInv
<1> QED BY <1>4, <1>5

LEMMA TransferredStep ==
  ASSUME NEW in, TransferCycle(in)
  PROVE  TransferredOnce'
<1> USE DEF TransferCycle
<1>1. CASE ~Leaves(in)
  BY <1>1 DEF Track, Nothing, TransferredOnce
<1>2. CASE Leaves(in)
  <2>1. left' = [access |-> ex, parts |-> NowParts(in), refused |-> NowRefused] /\ ex # NoAccess
    BY <1>2, LeavesComplete DEF Track
  <2> SUFFICES ASSUME NowRefused = NotRefused
               PROVE  /\ UNION {NowParts(in)[n] : n \in DOMAIN NowParts(in)} = BytesOf(ex)
                      /\ \A m, n \in DOMAIN NowParts(in) :
                           m # n => NowParts(in)[m] \cap NowParts(in)[n] = {}
    BY <2>1 DEF TransferredOnce
  <2> DEFINE near == Part(ex, Near(ex))  far == Part(ex, Far(ex))
  <2>2. NowParts(in) = IF AcrossTwo(ex) THEN <<near, far>> ELSE <<near>>
    BY <1>2, LeavesComplete
  <2>3. /\ BytesOf(ex) = near \cup far /\ near \cap far = {}
        /\ ~AcrossTwo(ex) => far = {}
    <3>1. ex \in AccessType
      BY <2>1, RequestInEx DEF Inv, PartsInv
    <3>2. Far(ex) = {} => far = {}
      BY DEF Part
    <3> HIDE DEF far
    <3> QED BY <3>1, <3>2, AccessBytes DEF far
  <2> HIDE DEF near, far
  <2>4. CASE AcrossTwo(ex)
    <3>1. DOMAIN NowParts(in) = {1, 2} /\ NowParts(in)[1] = near /\ NowParts(in)[2] = far
      BY <2>2, <2>4
    <3> QED BY <2>3, <3>1
  <2>5. CASE ~AcrossTwo(ex)
    <3>1. DOMAIN NowParts(in) = {1} /\ NowParts(in)[1] = near
      BY <2>2, <2>5
    <3> QED BY <2>3, <2>5, <3>1
  <2> QED BY <2>4, <2>5
<1> QED BY <1>1, <1>2

-----------------------------------------------------------------------------
(* Loads.  What another unit holds in EX has no second word to load: its   *)
(* answer would find the unit waiting, and be kept unaligned.              *)

StalledLoads == \A a \in Stallable : a.we \/ ~AcrossTwo(a)

LEMMA Answers ==
  ASSUME NEW in, TransferCycle(in)
  PROVE  /\ in.rvalid => CS \in {"WAIT_RVALID", "WAIT_RVALID_EX_STALL"}
         /\ in.gnt => Head(pending') = data_addr \div 4
         /\ ~in.gnt /\ ~in.rvalid => pending' = pending
         /\ in.gnt => /\ data_type_q' = ex.type /\ rdata_offset_q' = Offset
                      /\ data_sign_ext_q' = ex.sext /\ data_we_q' = ex.we
         /\ ~in.gnt => UNCHANGED <<data_type_q, rdata_offset_q, data_sign_ext_q, data_we_q>>
         /\ ~in.rvalid => rdata_q' = rdata_q
<1> USE DEF TransferCycle
<1>1. in.rvalid => Len(pending) >= 1
  BY PendingLength DEF Inv, Clock
<1>2. in.rvalid => CS \in {"WAIT_RVALID", "WAIT_RVALID_EX_STALL"}
  BY <1>1 DEF Inv, AnswerExpected
<1>3. in.gnt => Head(pending') = data_addr \div 4
  <2> SUFFICES ASSUME in.gnt PROVE Head(pending') = data_addr \div 4
    OBVIOUS
  <2>1. CS = "IDLE" \/ (CS = "WAIT_RVALID" /\ in.rvalid)
    BY DEF SurroundingsOK, data_req_o
  <2>2. (IF in.rvalid THEN Tail(pending) ELSE pending) = <<>>
    <3>1. pending \in Seq(MemWords) /\ \A words \in Seq(MemWords) : Len(words) = 0 => words = <<>>
      BY DEF Inv, TypeOK
    <3>2. CASE in.rvalid
      <4>1. Len(pending) = 1 /\ pending # <<>>
        BY <1>1, <1>2, <3>2 DEF Inv, AnswerExpected, SurroundingsOK
      <4>2. Tail(pending) \in Seq(MemWords) /\ Len(Tail(pending)) = 0
        BY <3>1, <4>1
      <4> QED BY <3>1, <3>2, <4>2
    <3>3. CASE ~in.rvalid
      <4>1. Len(pending) = 0
        BY <2>1, <3>3 DEF Inv, AnswerExpected
      <4> QED BY <3>1, <3>3, <4>1
    <3> QED BY <3>2, <3>3
  <2>3. pending' = Append(<<>>, data_addr \div 4)
    BY <2>2 DEF Clock, MemStep
  <2> QED BY <2>3
<1>4. ~in.gnt /\ ~in.rvalid => pending' = pending
  BY DEF Clock, MemStep
<1>5. ~in.rvalid => rdata_q' = rdata_q
  BY DEF Clock, RdataReg
<1> QED BY <1>2, <1>3, <1>4, <1>5 DEF Clock, GrantRegs

\* A load in EX, granted without its answer, is awaited.
LEMMA GrantAwaits ==
  ASSUME NEW in, NEW a, a = ex, TransferCycle(in), ExLoads, in.gnt, ~a.we,
         refused = NotRefused, data_misaligned_ex <=> AcrossTwo(a)
  PROVE  Awaits(a)'
<1> USE DEF TransferCycle
<1>1. ex # NoAccess
  BY DEF SurroundingsOK, data_req_o, data_req_ex
<1>2. /\ Offset = a.addr % 4
      /\ data_addr \div 4 = IF data_misaligned_ex THEN SecondWord(a) ELSE FirstWord(a)
  BY <1>1, RequestInEx DEF Inv
<1>3. AcrossTwo(a) => rdata_q' = MemoryWord(FirstWord(a))
  <2> SUFFICES ASSUME AcrossTwo(a) PROVE rdata_q' = MemoryWord(FirstWord(a))
    OBVIOUS
  <2>1. CS = "IDLE" \/ (CS = "WAIT_RVALID" /\ in.rvalid)
    BY <1>1, Handshake
  <2>2. CASE CS = "IDLE"
    BY <1>1, <2>2, Answers DEF ExLoads
  <2>3. CASE CS = "WAIT_RVALID" /\ in.rvalid
    BY <1>1, <2>3 DEF ExLoads, Clock, RdataReg
  <2> QED BY <2>1, <2>2, <2>3
<1>4. data_type_q' = a.type /\ rdata_offset_q' = a.addr % 4 /\ data_sign_ext_q' = a.sext
      /\ ~data_we_q' /\ Head(pending') = LastWord(a)
  BY <1>2, Answers DEF LastWord
<1> QED BY <1>3, <1>4 DEF Awaits, AcrossTwo, LastWord, FirstWord, SecondWord

\* A load held in EX: its answer is kept, or still on its way.
LEMMA HeldAnswer ==
  ASSUME NEW in, NEW a, a = ex, TransferCycle(in), ExLoads, CS \in StallStates,
         ~a.we, refused = NotRefused
  PROVE  /\ CS = "WAIT_RVALID_EX_STALL" /\ ~in.rvalid => Awaits(a)'
         /\ CS = "IDLE_EX_STALL" \/ in.rvalid => rdata_q' = LoadValue(a)
         /\ ~AcrossTwo(a)
<1> USE DEF TransferCycle
<1>1. ex # NoAccess
  BY DEF PartsInv
<1>2. ~AcrossTwo(a) /\ ~data_misaligned_o /\ ~data_misaligned_ex /\ a \in AccessType
  BY <1>1, RequestInEx DEF ExLoads, Inv, PartsInv
<1>3. ~in.gnt
  BY <1>1, Handshake
<1>4. ASSUME CS = "WAIT_RVALID_EX_STALL", ~in.rvalid
      PROVE  Awaits(a)'
  <2>1. Awaits(a)
    BY <1>1, <1>4 DEF ExLoads
  <2>2. UNCHANGED <<pending, rdata_q, data_type_q, rdata_offset_q, data_sign_ext_q, data_we_q>>
    BY <1>3, <1>4, Answers
  <2> QED BY <1>3, <1>4, <2>1, <2>2 DEF Awaits, AcrossTwo, LastWord, FirstWord, SecondWord
<1>5. ASSUME CS = "IDLE_EX_STALL" \/ in.rvalid
      PROVE  rdata_q' = LoadValue(a)
  <2>1. CASE CS = "IDLE_EX_STALL"
    <3>1. ~in.rvalid /\ rdata_q = LoadValue(a)
      BY <1>1, <2>1, Answers DEF ExLoads
    <3> QED BY <3>1, Answers
  <2>2. CASE in.rvalid
    <3>1. Awaits(a)
      BY <1>1, <2>2, Answers DEF ExLoads, StallStates
    <3>2. data_rdata_ext(MemoryWord(Head(pending))) = LoadValue(a)
      BY <1>2, <3>1, AnswerCompletes
    <3> QED BY <1>2, <2>2, <3>1, <3>2 DEF Clock, RdataReg, Awaits
  <2> QED BY <1>5, <2>1, <2>2
<1> QED BY <1>2, <1>4, <1>5

LEMMA ExLoadsStep ==
  ASSUME StalledLoads, NEW in, TransferCycle(in), ExLoads
  PROVE  ExLoads'
<1> USE DEF TransferCycle
<1>1. CASE ex = NoAccess
  BY <1>1, NothingInEx DEF ExLoads, StallStates
<1>2. CASE Leaves(in)
  <2>1. ex # NoAccess /\ ex_valid(in) /\ ex_ready(in) /\ ~data_misaligned_o
    BY <1>2, LeavesComplete, Handshake
  <2>2. ~data_misaligned_ex'
    BY <2>1 DEF Clock, NextWordOfAccess, NextAccess
  <2>3. CS' \notin StallStates
    BY <2>1, NextState DEF StallStates, Inv, TypeOK
  <2> QED BY <2>2, <2>3 DEF ExLoads, StallStates
<1>3. CASE ex # NoAccess /\ ~Leaves(in)
  <2>1. PICK a : a = ex
    OBVIOUS
  <2>2. /\ ex_ready(in) <=> ex_valid(in)
        /\ ~data_misaligned_o => ~ex_valid(in)
    BY <1>3, Handshake
  <2>3. ex' = a /\ data_misaligned_ex' = (data_misaligned_ex \/ (data_misaligned_o /\ ex_valid(in)))
    BY <1>3, <2>1, <2>2 DEF Clock, NextWordOfAccess, NextAccess, data_misaligned_o, Inv, TypeOK
  <2>4. refused' = NowRefused
    BY <1>3 DEF Track
  <2> SUFFICES ASSUME ~a.we, refused' = NotRefused
               PROVE  /\ CS' \in StallStates => ~AcrossTwo(a)
                      /\ CS' = "WAIT_RVALID_EX_STALL" => Awaits(a)'
                      /\ CS' = "IDLE_EX_STALL" => rdata_q' = LoadValue(a)
                      /\ data_misaligned_ex' /\ CS' = "IDLE" => rdata_q' = MemoryWord(FirstWord(a))
                      /\ data_misaligned_ex' /\ CS' = "WAIT_RVALID" =>
                           Head(pending') = FirstWord(a) /\ ~data_we_q'
    BY <2>3 DEF ExLoads
  <2>5. refused = NotRefused /\ ~data_err_o
    BY <2>4 DEF NowRefused, NotRefused
  <2>6. /\ a \in Accesses
        /\ data_misaligned_o <=> ~data_misaligned_ex /\ AcrossTwo(a)
        /\ data_misaligned_ex => AcrossTwo(a)
        /\ data_addr \div 4 = IF data_misaligned_ex THEN SecondWord(a) ELSE FirstWord(a)
    BY <1>3, <2>1, RequestInEx DEF Inv, PartsInv
  <2>7. CASE in.gnt /\ ~ex_valid(in)
    <3>1. CS' = "WAIT_RVALID_EX_STALL" /\ in.stall
      BY <1>3, <2>7, Handshake, NextState
    <3>2. ~AcrossTwo(a)
      BY <1>3, <2>1, <3>1 DEF StalledLoads, SurroundingsOK
    <3>3. Awaits(a)'
      BY <2>1, <2>5, <2>6, <2>7, <3>2, GrantAwaits
    <3> QED BY <3>1, <3>2, <3>3
  <2>8. CASE in.gnt /\ ex_valid(in)
    <3>1. CS' = "WAIT_RVALID" /\ data_misaligned_o
      <4>1. CS' = "WAIT_RVALID"
        BY <1>3, <2>8, Handshake, NextState
      <4>2. data_misaligned_o
        BY <2>2, <2>8
      <4> QED BY <4>1, <4>2
    <3>2. Head(pending') = FirstWord(a) /\ ~data_we_q'
      BY <2>1, <2>6, <2>8, <3>1, Answers
    <3> QED BY <3>1, <3>2 DEF StallStates
  <2>9. CASE ~in.gnt /\ CS \notin StallStates
    <3>1. /\ ~ex_valid(in) /\ data_misaligned_ex' = data_misaligned_ex
          /\ CS' = IF CS = "WAIT_RVALID" /\ ~in.rvalid THEN "WAIT_RVALID" ELSE "IDLE"
      <4>1. ~ex_valid(in)
        BY <1>3, <2>5, <2>9, Handshake
      <4>2. data_misaligned_ex' = data_misaligned_ex
        BY <2>3, <4>1 DEF Inv, TypeOK
      <4>3. CS' = IF CS = "WAIT_RVALID" /\ ~in.rvalid THEN "WAIT_RVALID" ELSE "IDLE"
        BY <1>3, <2>9, NextState
      <4> QED BY <4>1, <4>2, <4>3
    <3>2. CASE CS = "WAIT_RVALID" /\ ~in.rvalid
      BY <1>3, <2>1, <2>5, <2>9, <3>1, <3>2, Answers DEF ExLoads, StallStates
    <3>3. CASE CS = "WAIT_RVALID" /\ in.rvalid
      BY <1>3, <2>1, <2>5, <2>9, <3>1, <3>3 DEF ExLoads, StallStates, Clock, RdataReg
    <3>4. CASE CS = "IDLE"
      BY <1>3, <2>1, <2>5, <2>9, <3>1, <3>4, Answers DEF ExLoads, StallStates
    <3> QED BY <2>9, <3>2, <3>3, <3>4 DEF Inv, TypeOK, StallStates
  <2>10. CASE CS \in StallStates
    <3>1. ~AcrossTwo(a)
      BY <2>1, <2>5, <2>10, HeldAnswer
    <3>2. ~ex_valid(in) /\ ~data_misaligned_ex'
      BY <2>2, <2>3, <2>6, <3>1
    <3>3. CS' = IF CS = "WAIT_RVALID_EX_STALL" /\ ~in.rvalid
                THEN "WAIT_RVALID_EX_STALL" ELSE "IDLE_EX_STALL"
      <4>1. ~in.gnt
        BY <1>3, <2>10, Handshake
      <4> QED BY <1>3, <2>10, <3>2, <4>1, NextState
    <3>4. CASE CS = "WAIT_RVALID_EX_STALL" /\ ~in.rvalid
      BY <2>1, <2>5, <2>10, <3>1, <3>2, <3>3, <3>4, HeldAnswer
    <3>5. CASE CS = "IDLE_EX_STALL" \/ in.rvalid
      <4>1. CS = "IDLE_EX_STALL" => ~in.rvalid
        BY Answers
      <4> QED BY <2>1, <2>5, <2>10, <3>1, <3>2, <3>3, <3>5, <4>1, HeldAnswer
    <3> QED BY <2>10, <3>4, <3>5 DEF StallStates
  <2> QED BY <2>7, <2>8, <2>9, <2>10
<1> QED BY <1>1, <1>2, <1>3
LEMMA WbLoadsStep ==
  ASSUME NEW in, TransferCycle(in), ExLoads, WbLoads
  PROVE  WbLoads'
<1> USE DEF TransferCycle
<1>1. CASE Leaves(in) /\ ~ex.we /\ NowRefused = NotRefused
  <2>1. PICK a : a = ex
    OBVIOUS
  <2>2. ex # NoAccess /\ ex_valid(in) /\ ~data_misaligned_o
    BY <1>1, LeavesComplete, Handshake
  <2>3. refused = NotRefused /\ ~data_err_o
    BY <1>1 DEF NowRefused, NotRefused
  <2>4. /\ a \in Accesses
        /\ data_misaligned_ex <=> AcrossTwo(a)
    BY <2>1, <2>2, RequestInEx DEF Inv, PartsInv
  <2>5. wb' = a /\ ~a.we
    BY <1>1, <2>1 DEF Track
  <2>6. regfile_we_lsu'
    BY <1>1, <2>2, <2>3 DEF Clock, WbReg, regfile_we_ex, data_req_ex
  <2>7. CASE in.gnt
    <3>1. CS' = "WAIT_RVALID"
      BY <2>2, <2>7, Handshake, NextState
    <3>2. Awaits(a)'
      BY <2>1, <2>3, <2>4, <2>5, <2>7, GrantAwaits
    <3> QED BY <2>4, <2>5, <2>6, <3>1, <3>2 DEF WbLoads
  <2>8. CASE ~in.gnt
    <3>1. CS \in StallStates
      BY <2>2, <2>3, <2>8, Handshake
    <3>2. CS' = IF CS = "WAIT_RVALID_EX_STALL" /\ ~in.rvalid THEN "WAIT_RVALID" ELSE "IDLE"
      BY <2>2, <2>8, <3>1, NextState
    <3>3. CASE CS = "WAIT_RVALID_EX_STALL" /\ ~in.rvalid
      <4>1. Awaits(a)'
        BY <2>1, <2>3, <2>5, <3>1, <3>3, HeldAnswer
      <4> QED BY <2>4, <2>5, <2>6, <3>2, <3>3, <4>1 DEF WbLoads
    <3>4. CASE ~(CS = "WAIT_RVALID_EX_STALL" /\ ~in.rvalid)
      <4>1. rdata_q' = LoadValue(a)
        BY <2>1, <2>3, <2>5, <3>1, <3>4, HeldAnswer DEF StallStates
      <4> QED BY <2>4, <2>5, <2>6, <3>2, <3>4, <4>1 DEF WbLoads
    <3> QED BY <3>3, <3>4
  <2> QED BY <2>7, <2>8
<1>2. CASE ~(Leaves(in) /\ ~ex.we /\ NowRefused = NotRefused)
  <2>1. wb' = IF lsu_ready_wb(in) THEN NoAccess ELSE wb
    BY <1>2 DEF Track
  <2> SUFFICES ASSUME wb # NoAccess, ~lsu_ready_wb(in) PROVE WbLoads'
    BY <2>1 DEF WbLoads
  <2>2. PICK a : a = wb
    OBVIOUS
  <2>3. CS = "WAIT_RVALID" /\ ~in.rvalid /\ ~ex_valid(in)
    BY DEF lsu_ready_wb, ex_valid
  <2>4. ~in.gnt
    BY <2>3 DEF SurroundingsOK, data_req_o
  <2>5. CS' = "WAIT_RVALID"
    BY <2>3, <2>4, NothingInEx, NextState DEF StallStates
  <2>6. regfile_we_lsu'
    BY <2>3 DEF Clock, WbReg, WbLoads
  <2>7. Awaits(a)'
    <3>1. Awaits(a)
      BY <2>2, <2>3 DEF WbLoads
    <3>2. UNCHANGED <<pending, rdata_q, data_type_q, rdata_offset_q, data_sign_ext_q, data_we_q>>
      BY <2>3, <2>4, Answers
    <3> QED BY <3>1, <3>2 DEF Awaits, AcrossTwo, LastWord, FirstWord, SecondWord
  <2>8. wb' = a /\ a \in Accesses /\ ~a.we
    BY <2>1, <2>2 DEF WbLoads
  <2> QED BY <2>5, <2>6, <2>7, <2>8 DEF WbLoads
<1> QED BY <1>1, <1>2

\* The value written is the one loaded, kept by the unit or arriving now.
LEMMA LoadsExactStep ==
  ASSUME NEW in, TransferCycle(in), WbLoads
  PROVE  LoadsExact'
<1> USE DEF TransferCycle
<1>1. CASE ~(wb # NoAccess /\ lsu_ready_wb(in))
  <2>1. loaded' = [access |-> NoAccess]
    BY <1>1 DEF Track
  <2> QED BY <2>1 DEF LoadsExact
<1>2. CASE wb # NoAccess /\ lsu_ready_wb(in)
  <2>1. loaded' = [access |-> wb, written |-> regfile_we_lsu, value |-> data_rdata_ex_o(in)]
    BY <1>2 DEF Track
  <2>2. wb \in AccessType /\ regfile_we_lsu
    BY <1>2, AccessesAssumption DEF WbLoads
  <2>3. data_rdata_ex_o(in) = LoadValue(wb)
    <3>1. CASE CS = "IDLE"
      <4>1. rdata_q = LoadValue(wb) /\ ~in.rvalid
        BY <1>2, <3>1, Answers DEF WbLoads
      <4> QED BY <4>1 DEF data_rdata_ex_o
    <3>2. CASE CS = "WAIT_RVALID"
      <4>1. Awaits(wb) /\ in.rvalid
        BY <1>2, <3>2 DEF WbLoads, lsu_ready_wb
      <4> QED BY <2>2, <4>1, AnswerCompletes DEF data_rdata_ex_o
    <3> QED BY <1>2, <3>1, <3>2 DEF WbLoads
  <2> QED BY <2>1, <2>2, <2>3 DEF LoadsExact
<1> QED BY <1>1, <1>2
-----------------------------------------------------------------------------
(* Refusals.  The error answers the word in EX: the access ends there only  *)
(* when no word is left to ask for, and nothing else holds it.              *)

RefusedLast ==
  \A a \in Accesses :
    /\ AcrossTwo(a) => FirstWord(a) \notin Refused
    /\ a \in Stallable => FirstWord(a) \notin Refused /\ LastWord(a) \notin Refused

LEMMA ErrorLeaves ==
  ASSUME RefusedLast, NEW in, TransferCycle(in), data_err_o
  PROVE  Leaves(in) /\ ~in.gnt
<1> USE DEF TransferCycle
<1>1. ex # NoAccess
  BY NothingInEx
<1>2. data_addr \div 4 \in Refused /\ ~in.gnt /\ (ex_valid(in) <=> ~in.stall)
  BY <1>1, Handshake
<1>3. /\ ex \in Accesses
      /\ data_misaligned_o <=> ~data_misaligned_ex /\ AcrossTwo(ex)
      /\ data_misaligned_ex => AcrossTwo(ex)
      /\ data_addr \div 4 = IF data_misaligned_ex THEN SecondWord(ex) ELSE FirstWord(ex)
  BY <1>1, RequestInEx DEF Inv, PartsInv
<1>4. ~data_misaligned_o
  BY <1>2, <1>3 DEF RefusedLast
<1>5. ~in.stall
  <2>1. in.stall => ex \in Stallable
    BY <1>1 DEF SurroundingsOK
  <2>2. FirstWord(ex) \in Refused \/ LastWord(ex) \in Refused
    BY <1>2, <1>3 DEF LastWord
  <2> QED BY <1>3, <2>1, <2>2 DEF RefusedLast
<1> QED BY <1>1, <1>2, <1>4, <1>5, Handshake

LEMMA RefusalStep ==
  ASSUME RefusedLast, NEW in, TransferCycle(in), refused = NotRefused
  PROVE  refused' = NotRefused /\ RefusalFinal'
<1> USE DEF TransferCycle
<1>1. CASE data_err_o
  <2>1. Leaves(in) /\ NowParts(in) = parts
    BY <1>1, ErrorLeaves DEF NowParts
  <2>2. NowRefused = Len(parts)
    BY <1>1 DEF NowRefused
  <2>3. /\ refused' = NotRefused
        /\ left' = [access |-> ex, parts |-> parts, refused |-> Len(parts)]
    BY <2>1, <2>2 DEF Track
  <2> QED BY <2>3 DEF RefusalFinal
<1>2. CASE ~data_err_o
  <2>1. NowRefused = NotRefused
    BY <1>2 DEF NowRefused
  <2>2. refused' = NotRefused
    BY <2>1 DEF Track
  <2>3. left'.refused = NotRefused
    BY <2>1 DEF Track, Nothing
  <2> QED BY <2>2, <2>3 DEF RefusalFinal
<1> QED BY <1>1, <1>2

-----------------------------------------------------------------------------
(* The invariants, from the reset on.                                      *)

LEMMA TransferStart ==
  TransferInit => /\ Inv /\ PartsInv /\ ExLoads /\ WbLoads /\ refused = NotRefused
                  /\ TransferredOnce /\ LoadsExact /\ RefusalFinal
<1> SUFFICES ASSUME TransferInit
             PROVE  /\ Inv /\ PartsInv /\ ExLoads /\ WbLoads /\ refused = NotRefused
                    /\ TransferredOnce /\ LoadsExact /\ RefusalFinal
  OBVIOUS
<1>1. Inv
  BY InvInit DEF TransferInit
<1>2. PartsInv /\ ExLoads /\ WbLoads
  BY DEF TransferInit, Init, PartsInv, ExLoads, WbLoads, StallStates
<1>3. TransferredOnce /\ LoadsExact /\ RefusalFinal
  BY DEF TransferInit, Nothing, TransferredOnce, LoadsExact, RefusalFinal
<1> QED BY <1>1, <1>2, <1>3 DEF TransferInit

LEMMA TransferCycles ==
  ASSUME Inv, PartsInv, TransferNext
  PROVE  Inv' /\ \E in : TransferCycle(in)
<1>1. PICK in \in Inputs : SurroundingsOK(in) /\ Clock(in) /\ Track(in)
  BY DEF TransferNext
<1>2. TransferCycle(in)
  BY <1>1 DEF TransferCycle
<1>3. Next
  BY <1>1 DEF Next
<1> QED BY <1>2, <1>3, InvNext

LEMMA TransferStutter ==
  ASSUME UNCHANGED transferVars
  PROVE  /\ Inv => Inv'
         /\ PartsInv => PartsInv'
         /\ ExLoads => ExLoads'
         /\ WbLoads => WbLoads'
         /\ refused = NotRefused => refused' = NotRefused
         /\ TransferredOnce => TransferredOnce'
         /\ LoadsExact => LoadsExact'
         /\ RefusalFinal => RefusalFinal'
<1> USE DEF transferVars
<1>1. Inv => Inv'
  BY InvNext
<1>2. PartsInv => PartsInv'
  BY DEF lsuVars, PartsInv, Part, Near, Far, AcrossTwo
<1>3. ExLoads => ExLoads'
  BY DEF lsuVars, ExLoads, Awaits, AcrossTwo, LastWord, FirstWord, SecondWord
<1>4. WbLoads => WbLoads'
  BY DEF lsuVars, WbLoads, Awaits, AcrossTwo, LastWord, FirstWord, SecondWord
<1>5. TransferredOnce => TransferredOnce'
  BY DEF TransferredOnce
<1>6. LoadsExact => LoadsExact'
  BY DEF LoadsExact
<1>7. RefusalFinal => RefusalFinal'
  BY DEF RefusalFinal
<1> QED BY <1>1, <1>2, <1>3, <1>4, <1>5, <1>6, <1>7

\* The history variables restrict nothing: what was proved of the unit holds.
LEMMA TransfersFollowUnit == TransferSpec => Spec
<1>1. TransferInit => Init
  BY DEF TransferInit
<1>2. [TransferNext]_transferVars => [Next]_lsuVars
  BY DEF TransferNext, Next, transferVars
<1> QED BY <1>1, <1>2, PTL DEF TransferSpec, Spec

\* riscv_load_store_unit.sv, data_be and the misaligned accesses of
\* riscv_id_stage.sv: an access that leaves EX had each of its bytes
\* transferred once, whatever stalls, late grants and late answers it met.
THEOREM EachByteOnce == TransferSpec => []TransferredOnce
<1>1. Inv /\ PartsInv /\ TransferredOnce /\ [TransferNext]_transferVars
        => Inv' /\ PartsInv' /\ TransferredOnce'
  BY TransferCycles, TransferStutter, PartsStep, TransferredStep
<1> QED BY <1>1, TransferStart, PTL DEF TransferSpec

\* riscv_load_store_unit.sv, rdata_q and data_rdata_ext: a load writes its
\* register with the bytes it addressed, sign or zero extended, if no load
\* across words is held in EX by another unit.
THEOREM LoadsExactIfNotHeld ==
  ASSUME StalledLoads
  PROVE  TransferSpec => []LoadsExact
<1> DEFINE I == Inv /\ PartsInv /\ ExLoads /\ WbLoads /\ LoadsExact
<1>1. I /\ [TransferNext]_transferVars => I'
  BY TransferCycles, TransferStutter, PartsStep, ExLoadsStep, WbLoadsStep, LoadsExactStep
<1>2. TransferInit => I
  BY TransferStart
<1>3. I => LoadsExact
  OBVIOUS
<1> QED BY <1>1, <1>2, <1>3, PTL DEF TransferSpec

\* riscv_pmp.sv, data_err_state_q: a refused access transfers nothing after
\* the refusal, if the refused word is the last one it asks for.
THEOREM RefusalFinalIfLast ==
  ASSUME RefusedLast
  PROVE  TransferSpec => []RefusalFinal
<1> DEFINE I == Inv /\ PartsInv /\ refused = NotRefused /\ RefusalFinal
<1>1. I /\ [TransferNext]_transferVars => I'
  BY TransferCycles, TransferStutter, PartsStep, RefusalStep
<1>2. TransferInit => I
  BY TransferStart
<1>3. I => RefusalFinal
  OBVIOUS
<1> QED BY <1>1, <1>2, <1>3, PTL DEF TransferSpec
=============================================================================
