------------------------------- MODULE Bytes --------------------------------
(***************************************************************************)
(* Reading and writing of unaligned integers, in the order of the          *)
(* processor and in that of Java.  A byte is a token; an integer is the    *)
(* sequence of its bytes, the most significant first.                      *)
(***************************************************************************)
EXTENDS Integers, SequencesExt

CONSTANTS LittleEndian, \* VM_LITTLE_ENDIAN
          LastByte      \* the memory is the bytes 0..LastByte

ASSUME BytesAssumption == LittleEndian \in BOOLEAN /\ LastByte \in Nat

VARIABLES bytes,  \* the memory
          access  \* the last call: what, at, size and value, and the accesses it made

bytesVars == <<bytes, access>>

BytesInit ==
  /\ bytes = [a \in 0..LastByte |-> <<"old", a>>]
  /\ access = [op |-> "none", p |-> 0, n |-> 1, x |-> <<>>, width |-> 1]

MutWidth(n, p) == IF p % 2 = 0 THEN n ELSE 1
\* How wide the single accesses are: the cases on the low bits of the address.
AccessWidth(n, p) ==
  CASE p % n = 0 -> n
    [] n = 8 /\ p % 8 = 4 -> 4
    [] n \in {4, 8} /\ p % n = 2 -> 2
    [] OTHER -> 1

\* What a load of k bytes makes of them, and a store of what it was given.
InOrder(s) == IF LittleEndian THEN Reverse(s) ELSE s

\* get_native_u2, u4, u8: the part at the lowest address comes first.
get_native(n, p) ==
  LET k == AccessWidth(n, p)
      Part(i) == InOrder([j \in 1..k |-> bytes[p + i * k + j - 1]])
  IN  [b \in 1..n |-> Part((b - 1) \div k)[((b - 1) % k) + 1]]

\* put_native_u2, u4, u8
put_native(n, p, x) ==
  LET k == AccessWidth(n, p)
      Part(i) == InOrder(SubSeq(x, i * k + 1, i * k + k))
  IN  [a \in 0..LastByte |->
         IF a \in p..p + n - 1 THEN Part((a - p) \div k)[((a - p) % k) + 1] ELSE bytes[a]]

\* swap_u2, u4, u8, with byte order reversal or without.
swap(x) == IF LittleEndian THEN Reverse(x) ELSE x

Access(op, n, p, x) == access' = [op |-> op, p |-> p, n |-> n, x |-> x, width |-> AccessWidth(n, p)]

GetNative(n, p) == Access("getNative", n, p, get_native(n, p)) /\ UNCHANGED bytes
GetJava(n, p) == Access("getJava", n, p, swap(get_native(n, p))) /\ UNCHANGED bytes
Fresh(n) == [b \in 1..n |-> <<"new", b>>]
PutNative(n, p) == bytes' = put_native(n, p, Fresh(n)) /\ Access("putNative", n, p, Fresh(n))
PutJava(n, p) == bytes' = put_native(n, p, swap(Fresh(n))) /\ Access("putJava", n, p, Fresh(n))

BytesNext ==
  \E n \in {2, 4, 8}, p \in 0..LastByte :
    /\ p + n - 1 <= LastByte
    /\ access.op \in {"none", "putNative", "putJava"}
    /\ GetNative(n, p) \/ GetJava(n, p) \/ (access.op = "none" /\ (PutNative(n, p) \/ PutJava(n, p)))

BytesSpec == BytesInit /\ [][BytesNext]_bytesVars

-----------------------------------------------------------------------------
(* Properties. *)

\* Java's order is big-endian, whatever the processor's and the alignment
\* (bytes_CPU.hpp:138-180): VIOLATED on a little-endian processor, for which
\* the parts of an unaligned integer are put together in the wrong order.
JavaOrder ==
  access.op \in {"getJava", "putJava"} => access.x = [b \in 1..access.n |-> bytes[access.p + b - 1]]

\* No access is misaligned, an integer can be read back as it was written, and
\* in memory it has Java's order (bytes_CPU.hpp:39-180).
BytesSound ==
  /\ access.p % access.width = 0 /\ access.n % access.width = 0
  /\ access.op = "putNative" => get_native(access.n, access.p) = access.x
  /\ access.op = "putJava" => swap(get_native(access.n, access.p)) = access.x
  /\ JavaOrder
=============================================================================
