---------------------------- MODULE LazyReaders -----------------------------
(***************************************************************************)
(* Pointers into the game and the guarded read<T> of BFTypes.h, on which   *)
(* every accessor of LazyReaders.h is built.  Addresses are unsigned       *)
(* integers that wrap around at Space.                                     *)
(***************************************************************************)
EXTENDS Integers

CONSTANTS Space,   \* number of uintptr_t values (2^64)
          MinPtr,  \* IsValidPtr's lower limit (0x10000)
          MaxPtr,  \* IsValidPtr's upper limit (0x000F000000000000)
          Word     \* sizeof(uintptr_t)

\* The wrap-around lies above the valid addresses by more than MinPtr.
ASSUME PtrAssumption ==
  /\ Space \in Nat /\ MinPtr \in Nat /\ MaxPtr \in Nat /\ Word \in Nat
  /\ 0 < Word /\ Word < MinPtr
  /\ MinPtr < MaxPtr
  /\ MaxPtr + MinPtr <= Space

Addr == 0 .. (Space - 1)

\* Offsets of fields: all those of BFTypes.h are below 0x10000.
Offset == 0 .. (MinPtr - 1)

Null == 0

\* The exception std::out_of_range thrown by read<T>, as a value.
Throw == -1

\* uintptr_t arithmetic.
Plus(a, off) == IF a + off >= Space THEN a + off - Space ELSE a + off
Minus(a, off) == IF a >= off THEN a - off ELSE a - off + Space

IsValidPtr(a) == MinPtr <= a /\ a < MaxPtr

\* Does read<T>(phandle, base, off) get past its guard?
Readable(base, off) == base # Throw /\ IsValidPtr(Plus(base, off))

\* read<uintptr_t>(phandle, base, off) where v is what the buffer holds
\* after ReadProcessMemory: the cell, or anything at all when the call
\* failed, since its result is ignored and the buffer is not initialised.
read(base, off, v) == IF Readable(base, off) THEN v ELSE Throw
=============================================================================
