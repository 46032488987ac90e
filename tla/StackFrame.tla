----------------------------- MODULE StackFrame -----------------------------
(***************************************************************************)
(* Class StackFrame of the PowerPC macro assembler: the prolog and the     *)
(* epilog it writes for a frame with parameters, local variables and saved *)
(* registers, and the code between them, which may use everything the      *)
(* frame was asked for.  Addresses are words; a register or a word of      *)
(* memory holds a tag that says where its value came from.                 *)
(***************************************************************************)
EXTENDS Integers

CONSTANTS MaxParams, MaxLocals, MaxSaved,  \* bounds on what a frame asks for
          SavesUnusedR0                    \* FALSE: only the frames this code writes

ASSUME FrameAssumption == /\ MaxParams \in Nat /\ MaxLocals \in Nat /\ MaxSaved \in 0..18
                          /\ SavesUnusedR0 \in BOOLEAN

VARIABLES ws,     \* wordSize
          fields, \* _params, _locals, _crfs, _gprs, _fprs, _save_volatiles
          given,  \* the addresses get_parameter and get_local_variable returned
          phase,  \* _state, and the code between prolog and epilog
          size,   \* _frame_size
          regs,   \* the registers
          stk     \* the words above and below the entry stack pointer, 0

sfVars == <<ws, fields, given, phase, size, regs, stk>>

BackChain == 0
CrSaveOffset == 1
LrSaveOffset == IF ws = 4 THEN 1 ELSE 2
LinkAreaWords == IF ws = 4 THEN 2 ELSE 6
MinParamWords == IF ws = 4 THEN 0 ELSE 8
WordsPerFpr == 8 \div ws
MaxCrfs == 3

G(i) == <<"r", i>>
F(i) == <<"f", i>>
Cr == <<"cr", 0>>
Ctr == <<"ctr", 0>>
Lr == <<"lr", 0>>

Gprs(n) == {G(i) : i \in 32 - n..31}
Fprs(n) == {F(i) : i \in 32 - n..31}
VolatileGprs == {G(i) : i \in 3..12}
VolatileFprs == {F(i) : i \in 0..13}
Registers == {G(0), G(1), Cr, Ctr, Lr} \cup VolatileGprs \cup VolatileFprs
               \cup Gprs(MaxSaved) \cup Fprs(MaxSaved)
\* No frame is larger, with 14 volatile registers of two words and the padding.
Lowest == -(58 + MaxParams + MaxLocals + 3 * MaxSaved)
Words == Lowest..LrSaveOffset

StackFrameInit ==
  /\ ws \in {4, 8}
  /\ fields = [params |-> 0, locals |-> 0, crfs |-> 0, gprs |-> 0, fprs |-> 0, volatiles |-> FALSE]
  /\ given = {}
  /\ phase = "done_nothing"
  /\ size = 0
  /\ regs = [x \in Registers |-> IF x = G(1) THEN 0 ELSE <<"entry", x>>]
  /\ stk = [w \in Words |-> IF w = 0 THEN "chain" ELSE "caller"]

Max0(a, b) == IF a < b THEN b ELSE a
Asking == phase = "done_nothing"

-----------------------------------------------------------------------------
(* What a frame asks for.  The order of the calls is the caller's, except  *)
(* that parameters come first.                                              *)

GetParameter ==
  /\ Asking /\ fields.locals = 0 /\ fields.params < MaxParams
  /\ given' = given \cup {LinkAreaWords + fields.params}
  /\ fields' = [fields EXCEPT !.params = @ + 1]
  /\ UNCHANGED <<ws, phase, size, regs, stk>>

GetLocalVariable ==
  /\ Asking /\ fields.locals < MaxLocals
  /\ LET params == Max0(fields.params, MinParamWords)
     IN  /\ given' = given \cup {LinkAreaWords + params + fields.locals}
         /\ fields' = [fields EXCEPT !.params = params, !.locals = @ + 1]
  /\ UNCHANGED <<ws, phase, size, regs, stk>>

\* The code writes no frame that saves some non-volatile register and does not
\* save the volatile ones.
GetCrField ==
  /\ Asking /\ fields.crfs < MaxCrfs /\ (SavesUnusedR0 \/ fields.volatiles)
  /\ fields' = [fields EXCEPT !.crfs = @ + 1]
  /\ UNCHANGED <<ws, given, phase, size, regs, stk>>

GetRegister ==
  /\ Asking /\ fields.gprs < MaxSaved /\ (SavesUnusedR0 \/ fields.volatiles)
  /\ fields' = [fields EXCEPT !.gprs = @ + 1]
  /\ UNCHANGED <<ws, given, phase, size, regs, stk>>

GetFloatRegister ==
  /\ Asking /\ fields.fprs < MaxSaved /\ (SavesUnusedR0 \/ fields.volatiles)
  /\ fields' = [fields EXCEPT !.fprs = @ + 1]
  /\ UNCHANGED <<ws, given, phase, size, regs, stk>>

SetSaveVolatiles ==
  /\ Asking /\ ~fields.volatiles
  /\ fields' = [fields EXCEPT !.volatiles = TRUE]
  /\ UNCHANGED <<ws, given, phase, size, regs, stk>>

-----------------------------------------------------------------------------
(* The layout. *)

StartOfLocals(fs) == LinkAreaWords + Max0(fs.params, MinParamWords)

CrWords(fs) == IF ws = 4 /\ fs.crfs > 0 THEN 1 ELSE 0

\* num_vsprs is the size of the area for ctr.
UnalignedSize(fs) ==
  StartOfLocals(fs) + fs.locals
  + (IF fs.volatiles THEN 11 + 1 + 14 * WordsPerFpr ELSE 0)
  + CrWords(fs) + fs.gprs + fs.fprs * WordsPerFpr

\* The prolog makes the frame a multiple of StackAlignmentInBytes with locals.
Aligned(fs) == [fs EXCEPT !.locals = @ + ((-UnalignedSize(fs)) % (16 \div ws))]

\* The registers with a word of their own above r0's.
Saved(fs) ==
  (IF fs.volatiles THEN VolatileGprs \cup {Ctr} \cup VolatileFprs ELSE {})
  \cup (IF CrWords(fs) = 1 THEN {Cr} ELSE {}) \cup Gprs(fs.gprs) \cup Fprs(fs.fprs)

\* offset++ for r0, whether or not it is saved.
R0Save(fs) == StartOfLocals(fs) + fs.locals

\* The areas follow from low to high addresses.
SaveOffset(fs, x) ==
  LET volatiles == R0Save(fs) + 1
      crfs == volatiles + (IF fs.volatiles THEN 10 + 1 + 14 * WordsPerFpr ELSE 0)
      gprs == crfs + CrWords(fs)
      fprs == gprs + fs.gprs
  IN  CASE x \in VolatileGprs -> volatiles + (x[2] - 3)
        [] x = Ctr -> volatiles + 10
        [] x \in VolatileFprs -> volatiles + 11 + x[2] * WordsPerFpr
        [] x = Cr -> crfs
        [] x \in Gprs(fs.gprs) -> gprs + (x[2] - (32 - fs.gprs))
        [] x \in Fprs(fs.fprs) -> fprs + (x[2] - (32 - fs.fprs)) * WordsPerFpr

Width(x) == IF x[1] = "f" THEN WordsPerFpr ELSE 1

Write(m, cells) == [w \in DOMAIN m |-> IF w \in DOMAIN cells THEN cells[w] ELSE m[w]]
At(w, v) == [x \in {w} |-> v]

\* Both words of a double on PPC32.
SaveWords(fs, x) == SaveOffset(fs, x)..SaveOffset(fs, x) + Width(x) - 1

StoreAll(m, sp, fs) ==
  LET Stored(w) == CHOOSE x \in Saved(fs) : w - sp \in SaveWords(fs, x)
  IN  Write(m, [w \in {sp + o : o \in UNION {SaveWords(fs, x) : x \in Saved(fs)}} |-> regs[Stored(w)]])

-----------------------------------------------------------------------------
(* generate_prolog, the code, generate_epilog. *)

\* r0 is the scratch register of both; a prolog that saves the volatile
\* registers puts it back.
Prolog ==
  /\ Asking
  /\ LET fs == Aligned(fields)
         n == UnalignedSize(fs)
         sp == regs[G(1)] - n
         link == Write(Write(stk, At(sp, regs[G(1)])), At(regs[G(1)] + LrSaveOffset, regs[Lr]))
         r0 == IF fs.volatiles THEN Write(link, At(sp + R0Save(fs), regs[G(0)])) ELSE link
         saved == StoreAll(r0, sp, fs)
     IN  /\ fields' = fs /\ size' = n
         /\ stk' = IF ws = 8 /\ fs.crfs > 0 THEN Write(saved, At(sp + CrSaveOffset, regs[Cr])) ELSE saved
         /\ regs' = [regs EXCEPT ![G(1)] = sp,
                                 ![G(0)] = IF fs.volatiles THEN stk'[sp + R0Save(fs)]
                                           ELSE IF fs.crfs > 0 THEN regs[Cr] ELSE regs[Lr]]
  /\ phase' = "done_prolog"
  /\ UNCHANGED <<ws, given>>

\* The registers the code between may change: what it asked for, and all that a
\* call changes.  It writes its parameters and local variables, and what it
\* calls saves LR in the link area.
Changed == {G(0), Ctr, Lr} \cup VolatileGprs \cup VolatileFprs \cup Gprs(fields.gprs)
             \cup Fprs(fields.fprs) \cup (IF fields.crfs > 0 THEN {Cr} ELSE {})

Body ==
  /\ phase = "done_prolog"
  /\ regs' = [x \in Registers |-> IF x \in Changed THEN <<"body", x>> ELSE regs[x]]
  /\ stk' = Write(stk, [w \in {regs[G(1)] + o : o \in given \cup {LrSaveOffset}} |-> "body"])
  /\ phase' = "body"
  /\ UNCHANGED <<ws, fields, given, size>>

MutRestoresFromLocals(x) == regs[G(1)] + SaveOffset(fields, x) - 1
RestoredFrom(x) == regs[G(1)] + SaveOffset(fields, x)

\* A double takes its first word for its value.
Epilog ==
  /\ phase = "body"
  /\ LET sp == regs[G(1)]
         loaded == [x \in Saved(fields) |-> stk[RestoredFrom(x)]]
         cr == IF ws = 8 /\ fields.crfs > 0 THEN At(Cr, stk[sp + CrSaveOffset]) ELSE <<>>
         lr == stk[sp + size + LrSaveOffset]
     IN  regs' = Write(Write(Write(regs, loaded), cr),
                       [x \in {G(0), G(1), Lr} |->
                          IF x = G(1) THEN sp + size
                          ELSE IF x = G(0) /\ fields.volatiles THEN stk[sp + R0Save(fields)] ELSE lr])
  /\ phase' = "done_epilog"
  /\ UNCHANGED <<ws, fields, given, size, stk>>

StackFrameNext ==
  \/ GetParameter \/ GetLocalVariable \/ GetCrField \/ GetRegister \/ GetFloatRegister
  \/ SetSaveVolatiles \/ Prolog \/ Body \/ Epilog

StackFrameSpec == StackFrameInit /\ [][StackFrameNext]_sfVars

-----------------------------------------------------------------------------
(* Properties. *)

Preserved == {G(1), Lr, Cr} \cup Gprs(MaxSaved) \cup Fprs(MaxSaved)
               \cup (IF fields.volatiles THEN {G(0), Ctr} \cup VolatileGprs \cup VolatileFprs ELSE {})

\* After the epilog every register a caller relies on, and every volatile one
\* of a frame that saves them, has the value it had before the prolog, and
\* nothing of the caller's frame but its LR save word was written
\* (assembler_CPU.cpp:790-904, with the picture at 661-684).
EpilogUndoesProlog ==
  phase = "done_epilog" =>
    /\ \A x \in Preserved : regs[x] = IF x = G(1) THEN 0 ELSE <<"entry", x>>
    /\ stk[BackChain] = "chain"
=============================================================================
