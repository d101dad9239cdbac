------------------------------ MODULE ArgCodec ------------------------------
(***************************************************************************)
(* The argument codec of the syscall layer (pop_i32, pop_i64, return_i32,  *)
(* return_i64 and the `as i32' casts of src/core-backend/sandbox/src/      *)
(* funcs.rs).  A raw sandbox argument is a signed integer of width 32 or   *)
(* 64; a handler narrows it with TryFrom into the unsigned type it needs   *)
(* (u32 offsets and lengths, usize indexes, u64 gas limits), and widens a  *)
(* host value back with TryInto.  The widths are given by their moduli    *)
(* Mod32, Mod64 and ModUsize (2^32, 2^64, 2^usize-bits) so that TLC can    *)
(* check on narrow integers the conversions the code performs on 32- and   *)
(* 64-bit ones.                                                            *)
(*                                                                         *)
(* The tag check of pop_i32/pop_i64 (an I64 where an I32 is expected) is   *)
(* not modelled: the sandbox checks every call against the host           *)
(* function's signature, so only the value of an argument is up to the    *)
(* guest.                                                                  *)
(***************************************************************************)
EXTENDS Integers, TLAPS

CONSTANTS
    Mod32,      \* 2^32: the number of values of i32 and of u32
    Mod64,      \* 2^64: the number of values of i64 and of u64
    ModUsize    \* 2^(width of the host's usize)

IsPowerOfTwo(m) == \E k \in 1 .. m : m = 2^k

ASSUME CodecAssumption ==
    /\ Mod32 \in Nat \ {0} /\ IsPowerOfTwo(Mod32) /\ Mod32 % 2 = 0
    /\ Mod64 \in Nat /\ IsPowerOfTwo(Mod64) /\ Mod64 >= Mod32
    \* usize holds every u32: the host is a 32- or 64-bit target
    /\ ModUsize \in Nat /\ IsPowerOfTwo(ModUsize) /\ ModUsize >= Mod32

\* The value ranges of the Rust integer types.
I32 == -(Mod32 \div 2) .. Mod32 \div 2 - 1
I64 == -(Mod64 \div 2) .. Mod64 \div 2 - 1
U32 == 0 .. Mod32 - 1
U64 == 0 .. Mod64 - 1
Usize == 0 .. ModUsize - 1

\* pop_i32::<T> / pop_i64::<T> (TryFrom of the raw value) and return_i32 /
\* return_i64 (TryInto of a host value): the conversion of v into type T
\* succeeds iff v lies in T's range; otherwise the handler returns
\* HostError.
Fits(v, T) == v \in T

\* `x as i32' on a u32: two's-complement reinterpretation, never an error.
AsI32(x) == IF x > Mod32 \div 2 - 1 THEN x - Mod32 ELSE x

\* usize::checked_add: the sum, or None (here -1) when it leaves usize.
CheckedAdd(a, b) == IF a + b \in Usize THEN a + b ELSE -1

-----------------------------------------------------------------------------
(* Lemmas about the codec.                                                 *)

\* i32 and u32 have the same number of values: Mod32 is twice the bound.
LEMMA HalfMod32 == Mod32 \div 2 \in Nat \ {0} /\ Mod32 = 2 * (Mod32 \div 2)
BY CodecAssumption

\* `as i32' reinterprets every u32 as an i32, distinct u32s as distinct
\* i32s, and reaches every i32: no status a handler computes is lost or
\* merged with another by the cast.
LEMMA AsI32Bijection ==
    /\ \A x \in U32 : AsI32(x) \in I32
    /\ \A x, y \in U32 : AsI32(x) = AsI32(y) => x = y
    /\ \A v \in I32 : \E x \in U32 : AsI32(x) = v
<1>1. \A x \in U32 : AsI32(x) \in I32
  BY HalfMod32 DEF AsI32, U32, I32
<1>2. \A x, y \in U32 : AsI32(x) = AsI32(y) => x = y
  BY HalfMod32 DEF AsI32, U32
<1>3. ASSUME NEW v \in I32 PROVE \E x \in U32 : AsI32(x) = v
  <2>1. CASE v >= 0
    <3>1. v \in U32 /\ AsI32(v) = v
      BY <2>1, HalfMod32 DEF AsI32, U32, I32
    <3>2. QED BY <3>1
  <2>2. CASE v < 0
    <3>1. v + Mod32 \in U32 /\ AsI32(v + Mod32) = v
      BY <2>2, HalfMod32 DEF AsI32, U32, I32
    <3>2. QED BY <3>1
  <2>3. QED BY <2>1, <2>2 DEF I32
<1>4. QED BY <1>1, <1>2, <1>3

\* The cast of an error length is 0 only for 0: whatever length Ext
\* reports, `code as i32' never turns a failed call into status 0.
LEMMA AsI32Zero == \A x \in U32 : AsI32(x) = 0 <=> x = 0
BY HalfMod32 DEF AsI32, U32

\* A u32 value always converts to u64 and to usize (return_i64 of a u32,
\* `as usize' of an offset), and a negative i32 argument never converts to
\* u32: pop_i32::<u32> fails with HostError exactly on negative arguments.
LEMMA Widening ==
    /\ U32 \subseteq U64 /\ U32 \subseteq Usize
    /\ \A v \in I32 : Fits(v, U32) <=> v >= 0
<1>1. U32 \subseteq U64 /\ U32 \subseteq Usize
  BY CodecAssumption DEF U32, U64, Usize
<1>2. \A v \in I32 : Fits(v, U32) <=> v >= 0
  BY HalfMod32 DEF Fits, I32, U32
<1>3. QED BY <1>1, <1>2

=============================================================================
