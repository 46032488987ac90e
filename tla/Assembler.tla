----------------------------- MODULE Assembler ------------------------------
(***************************************************************************)
(* The PowerPC assembler: how each instruction is encoded, how branches    *)
(* reach their labels, what sequence loads a constant and how the          *)
(* arguments of a call into the virtual machine are moved.                 *)
(*                                                                         *)
(* An instruction is two halfwords, because a word does not fit the        *)
(* integers of the model checker.  Asserts of the code are guards.         *)
(***************************************************************************)
EXTENDS Integers, Sequences

CONSTANTS Regs,       \* register numbers used as operands
          Signed16,   \* signed immediates and displacements
          Unsigned16, \* unsigned immediates
          Shifts, LongShifts, \* shift counts, of words and of doublewords
          CrFields,   \* fields of the condition register
          ShortBranches, LongBranches, \* displacements in words, of bc and of b
          Labels, MaxCode,  \* of the code with branches
          ShortBits, LongBits,  \* displacement fields of bc and of b
          Halfwords   \* what the halfwords of a constant are

Halfword == 0..2^16 - 1
SignedHalfword == -(2^15)..2^15 - 1
BdRange == -(2^13)..2^13 - 1
LiRange == -(2^23)..2^23 - 1

ASSUME FieldAssumption ==
  /\ Regs \subseteq 0..31 /\ Signed16 \subseteq SignedHalfword /\ Unsigned16 \subseteq Halfword
  /\ Shifts \subseteq 1..31 /\ LongShifts \subseteq 1..63 /\ CrFields \subseteq 0..7
  /\ ShortBranches \subseteq BdRange /\ LongBranches \subseteq LiRange
  /\ MaxCode \in Nat
  /\ ShortBits \in 1..14 /\ LongBits \in ShortBits..24 /\ Halfwords \subseteq Halfword

VARIABLES call, word,   \* the last instruction asked for, and emitted
          code, labels, \* the branches of a code buffer and their labels
          constant, loaded, \* a constant, and what the sequence for it loads
          passed        \* arguments of call_VM, and what arrives

-----------------------------------------------------------------------------
(* The forms. *)

Word(op, a, b, low) == [hi |-> op * 1024 + a * 32 + b, lo |-> low]

IForm(li, lk) == [hi |-> 18 * 1024 + li \div 16384, lo |-> (li % 16384) * 4 + lk]
BForm(bo, bi, bd, lk) == Word(16, bo, bi, bd * 4 + lk)
DForm(op, a, b, c) == Word(op, a, b, c % 65536)
DSForm(op, a, b, c, d) == Word(op, a, b, (c % 16384) * 4 + d)
XForm(op, a, b, c, xo, rc) == Word(op, a, b, c * 2048 + xo * 2 + rc)
MForm(a, b, c, d, e) == Word(21, a, b, c * 2048 + d * 64 + e * 2)

MutMDForm(a, b, c, d, e) ==
  Word(30, a, b, (c % 32) * 2048 + (d % 32) * 64 + (((c \div 32) % 2) * 16 + e * 2 + ((d \div 32) % 2)) * 2)

\* The sixth bits of the shift and of the mask are moved behind the others.
MDForm(a, b, c, d, e) ==
  Word(30, a, b, (c % 32) * 2048 + (d % 32) * 64 + (((d \div 32) % 2) * 16 + e * 2 + ((c \div 32) % 2)) * 2)

\* branch_target, of two places in words.
BranchField(from, to, bits) == (to - from) % 2^bits
Fits(disp, bits) == -2^(bits - 1) <= disp /\ disp < 2^(bits - 1)

-----------------------------------------------------------------------------
(* The instructions. *)

\* emit_instruction(31, dst, a, b, xo, rc)
Xo3 == [add |-> 266, subf |-> 40, lbzx |-> 87, lhzx |-> 279, lwarx |-> 20, lwzx |-> 23, stwux |-> 183,
        stwx |-> 151, ldarx |-> 84, ldx |-> 21, stdux |-> 181, stdx |-> 149, stwcx_ |-> 150, stdcx_ |-> 214]
Rc3(name) == IF name \in {"stwcx_", "stdcx_"} THEN 1 ELSE 0
\* emit_instruction(31, src, dst, 0, xo, false)
XoExtend == [extsb |-> 954, extsh |-> 922, extsw |-> 986]
\* emit_instruction(31, 0, a, b, xo, false)
XoCache == [dcbf |-> 86, icbi |-> 982]
OpSigned == [addi |-> 14, addis |-> 15, subfic |-> 8]
\* emit_instruction(op, a, dst, b)
OpUnsigned == [andi_ |-> 28, ori |-> 24, oris |-> 25]
OpAddr == [lfd |-> 50, lfs |-> 48, lhz |-> 40, lwz |-> 32, stfd |-> 54, stfs |-> 52, stw |-> 36, stwu |-> 37]
OpDS == [ld |-> <<58, 0>>, std |-> <<62, 0>>, stdu |-> <<62, 1>>]
XoSpr == [mfspr |-> 339, mtspr |-> 467]
XoBranch == [bcctrl |-> 528, bclr |-> 16, bclrl |-> 16]
XoBarrier == [isync |-> <<19, 150>>, sync |-> <<31, 598>>]
Link == [b |-> 0, bl |-> 1, bc |-> 0, bcl |-> 1, bcctrl |-> 1, bclr |-> 0, bclrl |-> 1]

\* Address::displacement() is the 16 bits; those of DS-form lose two.
Displacement(d) == d % 65536

Encode(name, o) ==
  CASE name \in DOMAIN Xo3 -> XForm(31, o[1], o[2], o[3], Xo3[name], Rc3(name))
    [] name \in DOMAIN XoExtend -> XForm(31, o[2], o[1], 0, XoExtend[name], 0)
    [] name \in DOMAIN XoCache -> XForm(31, 0, o[1], o[2], XoCache[name], 0)
    [] name \in DOMAIN OpSigned -> DForm(OpSigned[name], o[1], o[2], o[3])
    [] name \in DOMAIN OpUnsigned -> DForm(OpUnsigned[name], o[2], o[1], o[3])
    [] name \in DOMAIN OpAddr -> DForm(OpAddr[name], o[1], o[2], Displacement(o[3]))
    [] name \in DOMAIN OpDS ->
         DSForm(OpDS[name][1], o[1], o[2], Displacement(o[3]) \div 4, OpDS[name][2])
    [] name = "OR" -> XForm(31, o[2], o[1], o[3], 444, 0)
    [] name = "cmp" -> XForm(31, o[1] * 4 + o[2], o[3], o[4], 0, 0)
    [] name = "cmpi" -> DForm(11, o[1] * 4 + o[2], o[3], o[4])
    [] name = "neg" -> XForm(31, o[1], o[2], 0, 104, 0)
    [] name = "fmr" -> XForm(63, o[1], 0, o[2], 72, 0)
    [] name = "mfcr" -> XForm(31, o[1], 0, 0, 19, 0)
    [] name = "mtcrf" -> XForm(31, o[2], o[1] \div 16, (o[1] % 16) * 2, 144, 0)
    [] name = "mfspr" -> XForm(31, o[1], o[2], 0, XoSpr[name], 0)
    [] name = "mtspr" -> XForm(31, o[2], o[1], 0, XoSpr[name], 0)
    [] name \in DOMAIN XoBarrier -> XForm(XoBarrier[name][1], 0, 0, 0, XoBarrier[name][2], 0)
    [] name \in DOMAIN XoBranch -> XForm(19, o[1], o[2], 0, XoBranch[name], Link[name])
    [] name \in {"bc", "bcl"} -> BForm(o[1], o[2], o[3], Link[name])
    [] name \in {"b", "bl"} -> IForm(o[1], Link[name])
    [] name = "rlwinm" -> MForm(o[2], o[1], o[3], o[4], o[5])
    [] name = "rldicl" -> MDForm(o[2], o[1], o[3], o[4], 0)
    [] name = "rldicr" -> MDForm(o[2], o[1], o[3], o[4], 1)

-----------------------------------------------------------------------------
(* The calls that other code makes: instructions, and standard mnemonics.   *)

R2 == {<<a, b>> : a \in Regs, b \in Regs}
R3 == {<<a, b, c>> : a \in Regs, b \in Regs, c \in Regs}
RI(S) == {<<a, b, i>> : a \in Regs, b \in Regs, i \in S}
Doublewords == {d \in Signed16 : d % 4 = 0}

\* bdnz, beq, bge, bgt, ble, blt of cr0, and bne of any field.
Conditions == {<<16, 0>>, <<12, 2>>, <<4, 0>>, <<12, 1>>, <<4, 1>>, <<12, 0>>}
              \cup {<<4, 4 * r + 2>> : r \in CrFields}
Spr == [xer |-> 1, lr |-> 8, ctr |-> 9]
BranchSpr == {Spr.lr, Spr.ctr}
Compared(S) == {<<f, l, a, x>> : f \in CrFields, l \in {0, 1}, a \in Regs, x \in S}

slwi(a, b, s) == <<a, b, s, 0, 31 - s>>
srwi(a, b, s) == <<a, b, 32 - s, s, 31>>
sldi(a, b, s) == <<a, b, s, 63 - s>>
srdi(a, b, s) == <<a, b, 64 - s, s>>
Shifted(mnemonic(_, _, _), counts) == {mnemonic(a, b, s) : a \in Regs, b \in Regs, s \in counts}

TableCalls ==
  ((DOMAIN Xo3) \X R3)
  \cup ((DOMAIN XoExtend \cup DOMAIN XoCache \cup {"neg", "fmr"}) \X R2)
  \cup ((DOMAIN OpSigned \cup DOMAIN OpAddr) \X RI(Signed16))
  \cup ((DOMAIN OpUnsigned) \X RI(Unsigned16))
  \cup ((DOMAIN OpDS) \X RI(Doublewords))
OtherCalls ==
  ({"OR"} \X R3)
  \cup ({"cmp"} \X Compared(Regs)) \cup ({"cmpi"} \X Compared(Signed16))
  \cup ({"mfcr"} \X {<<a>> : a \in Regs}) \cup ({"mtcrf"} \X {<<255, a>> : a \in Regs})
  \cup ({"mfspr"} \X {<<a, s>> : a \in Regs, s \in BranchSpr})
  \cup ({"mtspr"} \X {<<s, a>> : s \in BranchSpr, a \in Regs})
  \cup ((DOMAIN XoBarrier) \X {<<>>})
BranchCalls ==
  ({"bcctrl", "bclrl"} \X {<<20, 0>>}) \cup ({"bclr"} \X {<<20, 0>>, <<12, 2>>, <<4, 1>>})
  \cup ({"bc"} \X {<<o[1], o[2], BranchField(0, d, 14)>> : o \in Conditions, d \in ShortBranches})
  \cup ({"bcl"} \X {<<20, 31, 1>>})
  \cup ({"b", "bl"} \X {<<BranchField(0, d, 24)>> : d \in LongBranches})
ShiftCalls ==
  ({"rlwinm"} \X (Shifted(slwi, Shifts) \cup Shifted(srwi, Shifts)))
  \cup ({"rldicr"} \X Shifted(sldi, LongShifts)) \cup ({"rldicl"} \X Shifted(srdi, LongShifts))

Calls == TableCalls \cup OtherCalls \cup BranchCalls \cup ShiftCalls

Emit ==
  /\ \E c \in Calls : call' = c /\ word' = Encode(c[1], c[2])
  /\ UNCHANGED <<code, labels, constant, loaded, passed>>

-----------------------------------------------------------------------------
(* Branches and labels.  A place is an index of code; bits is the width of  *)
(* the displacement field, 0 for an instruction that is no branch.          *)

Here == Len(code) + 1
MutForwardFromNext(i, at, bits) == BranchField(i + 1, at, bits)

\* pd_patch_instruction: the field was zero.
PatchInstruction(i, at, bits) == BranchField(i, at, bits)

Other ==
  /\ Len(code) < MaxCode
  /\ code' = Append(code, [bits |-> 0, field |-> 0, label |-> "none"])
  /\ UNCHANGED <<call, word, labels, constant, loaded, passed>>

\* b, bc and bl of a Label: a forward branch goes to itself until it is patched.
Branch(l, bits) ==
  /\ Len(code) < MaxCode
  /\ \/ /\ labels[l].at # 0 /\ Fits(labels[l].at - Here, bits)
        /\ code' = Append(code, [bits |-> bits, field |-> BranchField(Here, labels[l].at, bits), label |-> l])
        /\ UNCHANGED labels
     \/ /\ labels[l].at = 0
        /\ code' = Append(code, [bits |-> bits, field |-> 0, label |-> l])
        /\ labels' = [labels EXCEPT ![l].patches = @ \cup {Here}]
  /\ UNCHANGED <<call, word, constant, loaded, passed>>

Bind(l) ==
  /\ labels[l].at = 0
  /\ \A i \in labels[l].patches : Fits(Here - i, code[i].bits)
  /\ labels' = [labels EXCEPT ![l] = [at |-> Here, patches |-> {}]]
  /\ code' = [i \in DOMAIN code |->
                IF i \in labels[l].patches
                THEN [code[i] EXCEPT !.field = PatchInstruction(i, Here, code[i].bits)] ELSE code[i]]
  /\ UNCHANGED <<call, word, constant, loaded, passed>>

-----------------------------------------------------------------------------
(* MacroAssembler::load(Register, long).  A register is its halfwords, high *)
(* to low, two or four of them.                                             *)

Sign(h) == IF h >= 32768 THEN 65535 ELSE 0

Li(n, h) == [i \in 1..n |-> IF i = n THEN h ELSE Sign(h)]
Lis(n, h) == [i \in 1..n |-> IF i = n THEN 0 ELSE IF i = n - 1 THEN h ELSE Sign(h)]
\* The bits that ori and oris set are zero before.
Ori(v, h) == [v EXCEPT ![Len(v)] = @ + h]
Oris(v, h) == [v EXCEPT ![Len(v) - 1] = @ + h]
MutSldi16(v) == <<v[2], v[3], v[4], 0>>
Sldi32(v) == <<v[3], v[4], 0, 0>>

Load32(a, b) == IF a = 0 THEN Li(2, b) ELSE IF b = 0 THEN Lis(2, a) ELSE Ori(Lis(2, a), b)

Load64(a, b, c, d) ==
  LET upper == IF a # 0 THEN IF b # 0 THEN Ori(Lis(4, a), b) ELSE Lis(4, a) ELSE Li(4, b)
      high == a # 0 \/ b # 0
      middle == IF c = 0 THEN Sldi32(upper) ELSE IF high THEN Oris(Sldi32(upper), c) ELSE Lis(4, c)
  IN  IF c # 0 THEN IF d # 0 THEN Ori(middle, d) ELSE middle
      ELSE IF d = 0 /\ high THEN middle
      ELSE IF high THEN Ori(middle, d) ELSE Li(4, d)

Load ==
  /\ \/ \E a \in Halfwords, b \in Halfwords :
          constant' = <<a, b>> /\ loaded' = Load32(a, b)
     \/ \E a \in Halfwords, b \in Halfwords, c \in Halfwords, d \in Halfwords :
          constant' = <<a, b, c, d>> /\ loaded' = Load64(a, b, c, d)
  /\ UNCHANGED <<call, word, code, labels, passed>>

-----------------------------------------------------------------------------
(* call_VM_pass_args and call_VM_leaf_base: up to three registers go to r4  *)
(* to r6, in this order, then the thread to r3.                             *)

ArgRegs == {3, 4, 5, 6, 30}
Move(regs, to, from) == [regs EXCEPT ![to] = regs[from]]

MutSmashAllowed(args) == TRUE

\* The asserts: "smashed argument".
Allowed(args) ==
  /\ args[1] # 4 => \A i \in 2..Len(args) : args[i] # 4
  /\ Len(args) = 3 /\ args[2] # 5 => args[3] # 5

PassArgs ==
  /\ \E n \in 1..3 : \E args \in [1..n -> ArgRegs] :
       /\ Allowed(args)
       /\ LET r0 == [r \in ArgRegs \cup {31} |-> r]
              r1 == Move(r0, 4, args[1])
              r2 == IF n >= 2 THEN Move(r1, 5, args[2]) ELSE r1
              r3 == IF n = 3 THEN Move(r2, 6, args[3]) ELSE r2
          IN  passed' = [args |-> args, regs |-> Move(r3, 3, 31)]
  /\ UNCHANGED <<call, word, code, labels, constant, loaded>>

-----------------------------------------------------------------------------
AssemblerInit ==
  /\ call = <<"none", <<>>>> /\ word = Encode("isync", <<>>)
  /\ code = <<>> /\ labels = [l \in Labels |-> [at |-> 0, patches |-> {}]]
  /\ constant = <<0, 0>> /\ loaded = <<0, 0>>
  /\ passed = [args |-> <<>>, regs |-> <<>>]

LabelNext == Other \/ \E l \in Labels : Branch(l, ShortBits) \/ Branch(l, LongBits) \/ Bind(l)

AssemblerNext == Emit \/ LabelNext \/ Load \/ PassArgs

AssemblerSpec == AssemblerInit /\ [][AssemblerNext]_<<call, word, code, labels, constant, loaded, passed>>

-----------------------------------------------------------------------------
(* Properties. *)

\* A branch to a bound label goes to the label, forward and backward, short and
\* long; one to an unbound label will be patched, and none is patched twice
\* (assembler_CPU.cpp:200-220, 592-650).
BranchesReachLabels ==
  \A i \in DOMAIN code :
    LET c == code[i]
        signed == IF c.field >= 2^(c.bits - 1) THEN c.field - 2^c.bits ELSE c.field
    IN  c.bits # 0 => IF labels[c.label].at # 0 THEN i + signed = labels[c.label].at
                      ELSE i \in labels[c.label].patches /\ c.field = 0

\* load(Register, long) loads its constant exactly when the first halfword of
\* it that is not zero is the first of the register or has its sign bit clear:
\* li and lis extend the sign (assembler_CPU.cpp:1025-1075).
Leading(v) == LET first == {i \in DOMAIN v : v[i] # 0 /\ \A j \in 1..i - 1 : v[j] = 0}
              IN  first = {} \/ \E i \in first : i = 1 \/ v[i] < 32768
LoadExact == loaded = constant <=> Leading(constant)

\* VIOLATED.  assembler_CPU.hpp:348: "instructions for which a 'better' code
\* sequence exists depending on arguments"; whatever the sequence, the constant.
LoadsConstant == loaded = constant

\* The moves before a call into the virtual machine leave in r4 to r6 the
\* arguments as they were before the first of them, for every assignment of
\* registers the asserts let pass (assembler_CPU.cpp:1181-1208).
ArgumentsArrive ==
  \A i \in DOMAIN passed.args : passed.regs[3 + i] = passed.args[i]
=============================================================================
