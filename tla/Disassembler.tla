---------------------------- MODULE Disassembler ----------------------------
(***************************************************************************)
(* Disassembler::decode: what is printed for an instruction, and that it   *)
(* is the instruction.  A line of output is its mnemonic, its dot and its  *)
(* operands; addresses are displacements in words.                         *)
(***************************************************************************)
EXTENDS Assembler

VARIABLE text  \* what was printed for word

-----------------------------------------------------------------------------
(* InstructionParser. *)

Opcode(w) == w.hi \div 1024

\* read(nbits), whose fields follow one another from bit 6.
Read(w, from, n) ==
  IF from < 16 THEN (w.hi \div 2^(16 - from - n)) % 2^n ELSE (w.lo \div 2^(32 - from - n)) % 2^n
AsSigned(v, n) == IF v >= 2^(n - 1) THEN v - 2^n ELSE v
ReadSigned(w, from, n) == AsSigned(Read(w, from, n), n)
ReadReg(w, k) == Read(w, 1 + 5 * k, 5)
ReadXo(w) == Read(w, 21, 10)
Rc(w) == Read(w, 31, 1)

ExtendedOpcode(w) ==
  CASE Opcode(w) \in {19, 31, 63} -> ReadXo(w)
    [] Opcode(w) = 30 -> Read(w, 27, 3)
    [] Opcode(w) \in {58, 62} -> Read(w, 30, 2)
    [] OTHER -> -1

-----------------------------------------------------------------------------
(* The printers. *)

Line(m, dot, ops) == [m |-> <<m>>, dot |-> dot, ops |-> ops]
LineOf(parts, ops) == [m |-> parts, dot |-> 0, ops |-> ops]
ShouldNotReachHere(w) == Line("ShouldNotReachHere", 0, <<w>>)

\* A table that has a code for each name, read from code to name.
Codes(table) == {table[m] : m \in DOMAIN table}
NameIn(table, key) == CHOOSE m \in DOMAIN table : table[m] = key

\* always is printed as nothing.
Condition == [lt |-> <<12, 0>>, le |-> <<4, 1>>, eq |-> <<12, 2>>, ge |-> <<4, 0>>,
              gt |-> <<12, 1>>, ne |-> <<4, 2>>, dnz |-> <<16, 0>>, always |-> <<20, 0>>]

print_B_bc(w) ==
  LET BO == ReadReg(w, 1)  BI == ReadReg(w, 2)  BD == ReadSigned(w, 16, 14)  LK == Rc(w)
  IN  IF BO = 20
      THEN IF BI = 31 /\ BD = 1 /\ LK = 1 THEN Line("mpclr", 0, <<>>) ELSE ShouldNotReachHere(w)
      ELSE IF <<BO, BI % 4>> \in Codes(Condition)
           THEN LineOf(<<"b", NameIn(Condition, <<BO, BI % 4>>), "", LK>>, <<BI \div 4, BD>>)
           ELSE ShouldNotReachHere(w)

\* read_signed(24), which begins in the first halfword.
ReadLI(w) == AsSigned((w.hi % 1024) * 16384 + w.lo \div 4, 24)

print_I_b(w) == LineOf(<<"b", "", "", Rc(w)>>, <<ReadLI(w)>>)

\* d.mnemonic() of the table comes as m.
print_D_reg_reg_simm(w, m) ==
  LET RT == ReadReg(w, 1)  RA == ReadReg(w, 2)  SI == ReadSigned(w, 16, 16)
  IN  IF RA = 0 /\ m \in {"addi", "addis"} THEN Line(IF m = "addi" THEN "li" ELSE "lis", 0, <<RT, SI>>)
      ELSE IF m = "addi" /\ SI < 0 THEN Line("subi", 0, <<RT, RA, -SI>>)
      ELSE Line(m, 0, <<RT, RA, SI>>)

print_D_reg_reg_uimm(w, m) ==
  LET RT == ReadReg(w, 1)  RA == ReadReg(w, 2)  UI == Read(w, 16, 16)
  IN  IF m = "ori" /\ RT = 0 /\ RA = 0 /\ UI = 0 THEN Line("nop", 0, <<>>)
      ELSE Line(m, 0, <<RA, RT, UI>>)

\* print_D_reg_addr and print_D_freg_addr
print_D_addr(w, m) == Line(m, 0, <<ReadReg(w, 1), ReadReg(w, 2), ReadSigned(w, 16, 16)>>)
print_DS_reg_addr(w, m) == Line(m, 0, <<ReadReg(w, 1), ReadReg(w, 2), 4 * ReadSigned(w, 16, 14)>>)

print_X_bcspr(w) ==
  LET cond == <<ReadReg(w, 1), ReadReg(w, 2) % 4>>
  IN  IF cond \in Codes(Condition)
      THEN LineOf(<<"b", NameIn(Condition, cond), IF ReadXo(w) = 16 THEN "lr" ELSE "ctr", Rc(w)>>, <<>>)
      ELSE ShouldNotReachHere(w)

SrwiCount(SH, MB) == MB

print_M(w) ==
  LET RS == ReadReg(w, 1)  RA == ReadReg(w, 2)  SH == ReadReg(w, 3)
      MB == Read(w, 21, 5)  ME == Read(w, 26, 5)
  IN  IF MB = 0 /\ 31 - SH = ME THEN Line("slwi", Rc(w), <<RA, RS, SH>>)
      ELSE IF ME = 31 /\ 32 - MB = SH THEN Line("srwi", Rc(w), <<RA, RS, SrwiCount(SH, MB)>>)
      ELSE ShouldNotReachHere(w)

\* "if (SH = 64 - ME)": an assignment, true unless ME is 64.
print_MD(w) ==
  LET RS == ReadReg(w, 1)  RA == ReadReg(w, 2)
      ME == Read(w, 26, 1) * 32 + Read(w, 21, 5)
      SH == Read(w, 30, 1) * 32 + ReadReg(w, 3)
  IN  IF ExtendedOpcode(w) = 0 THEN Line("srdi", Rc(w), <<RA, RS, ME>>)
      ELSE IF ME = 63 - SH THEN Line("sldi", Rc(w), <<RA, RS, SH>>) ELSE ShouldNotReachHere(w)

\* print_X_reg_reg_reg and print_X_reg_regorzero_reg
print_X_reg_reg_reg(w, m) ==
  IF ReadXo(w) = 40 THEN Line("sub", Rc(w), <<ReadReg(w, 1), ReadReg(w, 3), ReadReg(w, 2)>>)
  ELSE Line(m, Rc(w), <<ReadReg(w, 1), ReadReg(w, 2), ReadReg(w, 3)>>)

print_X_res_regorzero_reg(w, m) == Line(m, Rc(w), <<ReadReg(w, 2), ReadReg(w, 3)>>)
print_X_reg_reg_res(w, m) == Line(m, Rc(w), <<ReadReg(w, 1), ReadReg(w, 2)>>)
print_X_reg_res_res(w, m) == Line(m, Rc(w), <<ReadReg(w, 1)>>)
print_X_freg_res_freg(w, m) == Line(m, Rc(w), <<ReadReg(w, 1), ReadReg(w, 3)>>)

print_X_switched_regreg_reg(w, m) ==
  LET RS == ReadReg(w, 1)  RA == ReadReg(w, 2)  RB == ReadReg(w, 3)
  IN  IF RS = RB /\ Rc(w) = 0 THEN Line("mr", 0, <<RA, RB>>) ELSE Line(m, Rc(w), <<RA, RS, RB>>)
print_X_switched_regreg(w, m) == Line(m, Rc(w), <<ReadReg(w, 2), ReadReg(w, 1)>>)
print_X_reserved(w, m) == Line(m, 0, <<>>)

\* print_X_cmp and print_D_cmpi: field 0 is not printed.
CompareLine(w, m, last) ==
  LET BF == Read(w, 6, 3)
      wide == Read(w, 10, 1) = 1
      name == IF m = "cmp" THEN IF wide THEN "cmpd" ELSE "cmpw" ELSE IF wide THEN "cmpdi" ELSE "cmpwi"
  IN  Line(name, 0, IF BF = 0 THEN <<ReadReg(w, 2), last>> ELSE <<BF, ReadReg(w, 2), last>>)
print_X_cmp(w, m) == CompareLine(w, m, ReadReg(w, 3))
print_D_cmpi(w, m) == CompareLine(w, m, ReadSigned(w, 16, 16))

\* The two halves of the number of the register are the other way round.
print_X_mspr(w, m) ==
  LET spr == ReadReg(w, 3) * 32 + ReadReg(w, 2)
  IN  IF spr \in {8, 9} THEN LineOf(<<m, spr>>, <<ReadReg(w, 1)>>) ELSE ShouldNotReachHere(w)

print_X_mtcrf(w, m) ==
  IF Read(w, 12, 4) * 16 + Read(w, 16, 4) = 255 THEN Line("mtcr", 0, <<ReadReg(w, 1)>>)
  ELSE Line(m, 0, <<Read(w, 12, 4) * 16 + Read(w, 16, 4), ReadReg(w, 1)>>)

-----------------------------------------------------------------------------
(* The table of instructions, by opcode and extended opcode. *)

TableD == [subfic |-> 8, addi |-> 14, addis |-> 15]
TableU == [ori |-> 24, oris |-> 25, andi_ |-> 28]
TableAddr == [lwz |-> 32, stw |-> 36, stwu |-> 37, lhz |-> 40, lfs |-> 48, lfd |-> 50, stfs |-> 52, stfd |-> 54]
TableDS == [ld |-> <<58, 0>>, std |-> <<62, 0>>, stdu |-> <<62, 1>>]
TableX3 == [lwarx |-> 20, ldx |-> 21, lwzx |-> 23, subf |-> 40, ldarx |-> 84, lbzx |-> 87, stwcx |-> 150,
            stwx |-> 151, stdux |-> 181, stwux |-> 183, stdcx |-> 214, add |-> 266, lhzx |-> 279]
TableCache == [dcbf |-> 86, icbi |-> 982]
TableExtend == [extsh |-> 922, extsb |-> 954, extsw |-> 986]
TableSpr == [mfspr |-> 339, mtspr |-> 467]

print31(w, xo) ==
  CASE xo = 0 -> print_X_cmp(w, "cmp")
    [] xo = 19 -> print_X_reg_res_res(w, "mfcr")
    [] xo = 104 -> print_X_reg_reg_res(w, "neg")
    [] xo = 144 -> print_X_mtcrf(w, "mtcrf")
    [] xo = 444 -> print_X_switched_regreg_reg(w, "or")
    [] xo = 598 -> print_X_reserved(w, "sync")
    [] xo \in Codes(TableX3) -> print_X_reg_reg_reg(w, NameIn(TableX3, xo))
    [] xo \in Codes(TableCache) -> print_X_res_regorzero_reg(w, NameIn(TableCache, xo))
    [] xo \in Codes(TableExtend) -> print_X_switched_regreg(w, NameIn(TableExtend, xo))
    [] xo \in Codes(TableSpr) -> print_X_mspr(w, NameIn(TableSpr, xo))
    [] OTHER -> Line(".long", 0, <<w>>)

print_instruction_at(w) ==
  LET op == Opcode(w)
      xo == ExtendedOpcode(w)
  IN  CASE op \in Codes(TableD) -> print_D_reg_reg_simm(w, NameIn(TableD, op))
        [] op \in Codes(TableU) -> print_D_reg_reg_uimm(w, NameIn(TableU, op))
        [] op \in Codes(TableAddr) -> print_D_addr(w, NameIn(TableAddr, op))
        [] <<op, xo>> \in Codes(TableDS) -> print_DS_reg_addr(w, NameIn(TableDS, <<op, xo>>))
        [] op = 11 -> print_D_cmpi(w, "cmpi")
        [] op = 16 -> print_B_bc(w)
        [] op = 18 -> print_I_b(w)
        [] op = 19 /\ xo \in {16, 528} -> print_X_bcspr(w)
        [] op = 19 /\ xo = 150 -> print_X_reserved(w, "isync")
        [] op = 21 -> print_M(w)
        [] op = 30 /\ xo \in {0, 1} -> print_MD(w)
        [] op = 31 -> print31(w, xo)
        [] op = 63 /\ xo = 72 -> print_X_freg_res_freg(w, "fmr")
        [] OTHER -> Line(".long", 0, <<w>>)

Decode ==
  /\ call[1] # "none"
  /\ text' = print_instruction_at(word)
  /\ UNCHANGED <<call, word, code, labels, constant, loaded, passed>>

DisassemblerInit == AssemblerInit /\ text = Line("none", 0, <<>>)

\* One instruction is emitted, and then decoded.
DisassemblerNext ==
  \/ call[1] = "none" /\ Emit /\ UNCHANGED text
  \/ Decode

DisassemblerSpec ==
  DisassemblerInit /\ [][DisassemblerNext]_<<call, word, code, labels, constant, loaded, passed, text>>

-----------------------------------------------------------------------------
(* Reading a line as a programmer does: the standard mnemonics of the       *)
(* assembler (assembler_CPU.cpp:478-590) give the instruction back.         *)

Compares == [cmpw |-> <<"cmp", 0>>, cmpd |-> <<"cmp", 1>>, cmpwi |-> <<"cmpi", 0>>, cmpdi |-> <<"cmpi", 1>>]
Plain == [stwcx |-> "stwcx_", stdcx |-> "stdcx_", or |-> "OR"]
PlainName(m) == IF m \in DOMAIN Plain THEN Plain[m] ELSE m

Assembled(t) ==
  LET o == t.ops
      m == t.m
      n == t.m[1]
  IN  CASE n = "li" -> Encode("addi", <<o[1], 0, o[2]>>)
        [] n = "lis" -> Encode("addis", <<o[1], 0, o[2]>>)
        [] n = "subi" -> Encode("addi", <<o[1], o[2], -o[3]>>)
        [] n = "sub" -> Encode("subf", <<o[1], o[3], o[2]>>)
        [] n = "nop" -> Encode("ori", <<0, 0, 0>>)
        [] n = "mr" -> Encode("OR", <<o[1], o[2], o[2]>>)
        [] n = "mtcr" -> Encode("mtcrf", <<255, o[1]>>)
        [] n = "slwi" -> Encode("rlwinm", <<o[1], o[2], o[3], 0, 31 - o[3]>>)
        [] n = "srwi" -> Encode("rlwinm", <<o[1], o[2], 32 - o[3], o[3], 31>>)
        [] n = "sldi" -> Encode("rldicr", <<o[1], o[2], o[3], 63 - o[3]>>)
        [] n = "srdi" -> Encode("rldicl", <<o[1], o[2], 64 - o[3], o[3]>>)
        [] n = "mpclr" -> Encode("bcl", <<20, 31, 1>>)
        [] n \in DOMAIN Compares ->
             Encode(Compares[n][1], IF Len(o) = 3 THEN <<o[1], Compares[n][2], o[2], o[3]>>
                                    ELSE <<0, Compares[n][2], o[1], o[2]>>)
        [] n \in DOMAIN XoSpr ->
             Encode(n, IF n = "mfspr" THEN <<o[1], m[2]>> ELSE <<m[2], o[1]>>)
        [] Len(o) = 0 /\ n \in {"isync", "sync"} -> Encode(n, <<>>)
        [] n = "b" /\ m[3] # "" ->
             Encode(IF m[3] = "ctr" THEN "bcctrl" ELSE IF m[4] = 1 THEN "bclrl" ELSE "bclr", Condition[m[2]])
        [] n = "b" /\ Len(o) = 1 -> Encode(IF m[4] = 1 THEN "bl" ELSE "b", <<o[1] % 2^24>>)
        [] n = "b" /\ Len(o) = 2 ->
             BForm(Condition[m[2]][1], Condition[m[2]][2] + 4 * o[1], o[2] % 2^14, m[4])
        [] OTHER -> Encode(PlainName(n), o)

\* What is printed for an instruction the assembler can emit, read as assembler
\* input, is that instruction: operands that are switched, signed or split come
\* back, and no short form is printed for another instruction.  stdx alone is
\* not in the table (disassembler_CPU.cpp:31-652, assembler_CPU.cpp:40-590).
PrintedIsTheInstruction ==
  text.m # <<"none">> =>
    IF call[1] = "stdx" THEN text = Line(".long", 0, <<word>>) ELSE Assembled(text) = word
=============================================================================
