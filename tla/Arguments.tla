----------------------------- MODULE Arguments ------------------------------
(***************************************************************************)
(* Where the arguments of a call go: the generated signature handler of a  *)
(* native method (SignatureHandlerGenerator, "fast"), the handler that     *)
(* walks the signature at run time (SlowSignatureHandler, "slow") and      *)
(* SharedRuntime::java_calling_convention ("conv"), all three stepped over *)
(* the same signature, one argument at a time.                             *)
(*                                                                         *)
(* Only places are kept: <<"gp", r>>, <<"fp", r>>, <<"st", w>>, the words  *)
(* of the stack counted from the start of the parameter list space.        *)
(***************************************************************************)
EXTENDS Integers, FiniteSets

CONSTANTS MaxArgs  \* bound on the arguments

ASSUME ArgsAssumption == MaxArgs \in Nat

VARIABLES wsize,  \* wordSize
          static, \* the method is static: r4 holds its class's mirror
          sig,    \* size_of_parameters so far, and the arguments
          fast,   \* _gp_reg, _fp_reg, _st_arg and the places used
          slow,   \* _gp_regs as the register whose image it is, _st_args
          conv,   \* int_args, fp_args, stk_args
          last    \* the last argument's type, and the places the three gave it

argVars == <<wsize, static, sig, fast, slow, conv, last>>

GpStart == 4
GpMax == 10
FpMax == IF wsize = 4 THEN 8 ELSE 13
MinParamList == IF wsize = 4 THEN 0 ELSE 8

IntTypes == {"int", "object"}
WordsOf(t) == IF t \in {"long", "double"} THEN 2 ELSE 1

GpPlaces(first, n) == {<<"gp", r>> : r \in first..first + n - 1}
FpPlace(r) == {<<"fp", r>>}
StPlaces(first, n) == {<<"st", w>> : w \in first..first + n - 1}

ArgumentsInit ==
  /\ wsize \in {4, 8} /\ static \in BOOLEAN
  /\ LET gp == IF static THEN GpStart + 1 ELSE GpStart
         st == IF wsize = 4 THEN 0 ELSE IF static THEN 2 ELSE 1
     IN  /\ fast = [gp |-> gp, fp |-> 1, st |-> st, used |-> {}]
         /\ slow = [gp |-> gp, st |-> st, works |-> TRUE]
  /\ sig = [words |-> 0, args |-> 0]
  /\ conv = [int |-> 0, fp |-> 0, stk |-> 0]
  /\ last = [type |-> "none", fast |-> {}, slow |-> {}, conv |-> {}]

-----------------------------------------------------------------------------
(* SignatureHandlerGenerator. *)

MutAligned32(n, t) == n
\* Doublewords, floats among them, are aligned on the stack of PPC32.
Aligned32(n, t) == IF wsize = 4 /\ n % 2 = 1 /\ t \in {"long", "float", "double"} THEN n + 1 ELSE n
StackWords(t) == IF wsize = 4 /\ t \in {"long", "float", "double"} THEN 2 ELSE 1

\* StackArgument::pass: on PPC64 a float is stored behind its own word.
StoredFrom(at, t) == IF wsize = 8 /\ t = "float" THEN at + 1 ELSE at

\* pass_on_stack
OnStack(f, t) ==
  LET at == Aligned32(f.st, t)
  IN  [f |-> [f EXCEPT !.st = at + StackWords(t)], places |-> StPlaces(StoredFrom(at, t), StackWords(t))]

\* The words of the parameter list space that mirror registers.
Mirrored(f) == IF wsize = 4 THEN f.st ELSE f.st + 1

MutPairFrom(r) == r
\* PPC32 passes a long in an odd register and the next.
PairFrom(r) == IF r % 2 = 0 THEN r + 1 ELSE r

FastInt(f, t) ==
  IF f.gp <= GpMax
  THEN [f |-> [f EXCEPT !.gp = @ + 1, !.st = Mirrored(f)], places |-> GpPlaces(f.gp, 1)]
  ELSE OnStack(f, t)

FastLong(f) ==
  IF wsize = 8 THEN FastInt(f, "long")
  ELSE IF f.gp < GpMax
       THEN [f |-> [f EXCEPT !.gp = PairFrom(f.gp) + 2], places |-> GpPlaces(PairFrom(f.gp), 2)]
       ELSE OnStack(f, "long")

FastFloat(f, t) ==
  IF f.fp <= FpMax
  THEN [f |-> [f EXCEPT !.fp = @ + 1, !.st = Mirrored(f)], places |-> FpPlace(f.fp)]
  ELSE OnStack(f, t)

FastPass(f, t) ==
  CASE t \in IntTypes -> FastInt(f, t)
    [] t = "long" -> FastLong(f)
    [] t \in {"float", "double"} -> FastFloat(f, t)

-----------------------------------------------------------------------------
(* SlowSignatureHandler.  pass_float and pass_double are not implemented.   *)

SlowStack(s, n) ==
  [s |-> [s EXCEPT !.st = @ + n], places |-> StPlaces(s.st, n)]

SlowInt(s) ==
  IF s.gp <= GpMax
  THEN [s |-> [s EXCEPT !.gp = @ + 1, !.st = Mirrored(s)], places |-> GpPlaces(s.gp, 1)]
  ELSE SlowStack(s, 1)

SlowLong(s) ==
  IF wsize = 8 THEN SlowInt(s)
  ELSE IF s.gp < GpMax
       THEN LET r == IF (GpMax - s.gp) % 2 = 0 THEN s.gp + 1 ELSE s.gp
            IN  [s |-> [s EXCEPT !.gp = r + 2], places |-> GpPlaces(r, 2)]
       ELSE SlowStack(s, 2)

SlowPass(s, t) ==
  IF ~s.works \/ t \in {"float", "double"} THEN [s |-> [s EXCEPT !.works = FALSE], places |-> {}]
  ELSE IF t = "long" THEN SlowLong(s) ELSE SlowInt(s)

\* generate_slow_signature_handler and slow_signature_handler: the words of
\* the parameter list space, above which lie the images of the registers.
RegisterImages(words) == IF wsize = 4 THEN (words - 3) * 3 ELSE words + 2

-----------------------------------------------------------------------------
(* SharedRuntime::java_calling_convention.  Registers are r3 to r10 and f1  *)
(* up; stack slots are of four bytes.                                       *)

ConvStack(c, n, align) ==
  LET from == IF align /\ c.stk % 2 = 1 THEN c.stk + 1 ELSE c.stk
  IN  [c |-> [c EXCEPT !.stk = from + n], places |-> StPlaces(from + n, n)]

ConvPass(c, t) ==
  CASE t = "int" \/ (wsize = 4 /\ t = "object") ->
         IF c.int < 8 THEN [c |-> [c EXCEPT !.int = @ + 1], places |-> GpPlaces(3 + c.int, 1)]
         ELSE ConvStack(c, wsize \div 4, FALSE)
    [] wsize = 4 /\ t = "long" ->
         IF c.int < 7
         THEN LET n == PairFrom(c.int + 1) - 1 + 2
              IN  [c |-> [c EXCEPT !.int = n], places |-> GpPlaces(3 + n, 2)]
         ELSE ConvStack(c, 2, TRUE)
    [] wsize = 8 /\ t \in {"long", "object"} ->
         IF c.int < 8 THEN [c |-> [c EXCEPT !.int = @ + 1], places |-> GpPlaces(3 + c.int, 1)]
         ELSE ConvStack(c, 2, FALSE)
    [] t \in {"float", "double"} ->
         IF c.fp < FpMax THEN [c |-> [c EXCEPT !.fp = @ + 1], places |-> FpPlace(1 + c.fp)]
         ELSE ConvStack(c, IF t = "double" THEN 2 ELSE wsize \div 4, t = "double")

-----------------------------------------------------------------------------
(* The walk over the signature; an instance method's receiver comes first.  *)

Pass(t) ==
  /\ sig.args < MaxArgs
  /\ ~static /\ sig.args = 0 => t = "object"
  /\ LET f == FastPass(fast, t)
         s == SlowPass(slow, t)
         c == ConvPass(conv, t)
     IN  /\ fast' = [f.f EXCEPT !.used = @ \cup f.places]
         /\ slow' = s.s
         /\ conv' = c.c
         /\ last' = [type |-> t, fast |-> f.places, slow |-> s.places, conv |-> c.places]
  /\ sig' = [words |-> sig.words + WordsOf(t), args |-> sig.args + 1]
  /\ UNCHANGED <<wsize, static>>

ArgumentsNext == \E t \in {"int", "long", "object", "float", "double"} : Pass(t)

ArgumentsSpec == ArgumentsInit /\ [][ArgumentsNext]_argVars

-----------------------------------------------------------------------------
(* Properties. *)

StWords(places) == {p[2] : p \in {q \in places : q[1] = "st"}}

\* The word of a float on the stack of PPC64, behind its own.
Behind(l) == IF wsize = 8 /\ l.type = "float" /\ StWords(l.fast) # {} THEN l.fast ELSE {}

\* The generated handler gives no two arguments one place, none that a C callee
\* would take for JNIEnv or the mirror, no register past the last, and aligned
\* pairs; what it puts on the stack lies inside the _st_arg words it extends the
\* frame by, and then it does extend it (interpreterRT_CPU.cpp:33-224, 227-268).
\* A float on the stack of PPC64 is the exception, and the only one: it takes the
\* place of the argument that follows at once, or the first word past the space.
FastPlacesSound ==
  [][/\ last'.fast \cap fast.used \subseteq Behind(last) /\ last'.fast # {}
     /\ \A p \in last'.fast : CASE p[1] = "gp" -> p[2] \in (IF static THEN 5 ELSE 4)..GpMax
                                [] p[1] = "fp" -> p[2] \in 1..FpMax
                                [] p[1] = "st" -> /\ p[2] \in 0..(IF p \in Behind(last') THEN fast'.st ELSE fast'.st - 1)
                                                  /\ fast'.st > MinParamList
     /\ wsize = 4 /\ Cardinality(last'.fast) = 2
          => \E p \in last'.fast : /\ p[2] % 2 = (IF p[1] = "gp" THEN 1 ELSE 0)
                                   /\ <<p[1], p[2] + 1>> \in last'.fast
    ]_argVars

\* While the slow handler can pass the arguments it puts each in the registers
\* the generated one loads, or both put it on the stack, on PPC64 in the same
\* word; and the space for the worst case, calculated in two places, holds what
\* it puts on the stack: the register images above it are not touched
\* (interpreterRT_CPU.cpp:276-370, interpreter_CPU.cpp:40-62).
HandlersAgree ==
  slow.works =>
    /\ \/ last.slow = last.fast
       \/ wsize = 4 /\ StWords(last.slow) # {} /\ StWords(last.fast) # {}
    /\ sig.words >= 3 => \A w \in StWords(last.slow) : w < RegisterImages(sig.words)

\* VIOLATED.  interpreter_CPU.cpp:42: "we allocate for the worst case".  The
\* images of the registers are in that space, never below the stack pointer.
ImagesInFrame == sig.words > 0 => RegisterImages(sig.words) >= 0

\* VIOLATED.  java_calling_convention gives an argument a place the previous one
\* does not have, and never a register past the last.
ConventionDisjoint ==
  [][last'.conv \cap last.conv = {} /\ (\A p \in last'.conv : p[1] = "gp" => p[2] <= GpMax)]_argVars
=============================================================================
