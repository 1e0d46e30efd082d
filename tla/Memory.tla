-------------------------------- MODULE Memory --------------------------------
(***************************************************************************)
(* Memcpy, Memmove and Strcpy (include/quick/memory/*.cc): loops that copy *)
(* one byte after the other in one memory, where the two ranges may        *)
(* overlap.  One step copies one byte; 0 is the null pointer.              *)
(***************************************************************************)
EXTENDS Integers

CONSTANTS
  Size,   \* the memory has the addresses 1..Size
  Byte,   \* the values of a byte
  Nul     \* the one that ends a string

Address == 1..Size

VARIABLES
  mem,            \* mem[a]: the byte at address a
  pc,             \* the loop that runs, "idle" between the calls
  to, from, n,    \* the code's variables
  i,              \* the byte of Memcpy's unrolled block that is next
  dst, src, len,  \* the arguments; for Strcpy, len counts the final Nul too
  old             \* the memory when the function was called

loop == <<to, from, n, i>>
args == <<dst, src, len, old>>
vars == <<mem, pc, loop, args>>

Init ==
  /\ mem \in [Address -> Byte] /\ old = mem
  /\ pc = "idle"
  /\ to = 0 /\ from = 0 /\ n = 0 /\ i = 0
  /\ dst = 0 /\ src = 0 /\ len = 0

-----------------------------------------------------------------------------
(* The calls.                                                              *)

\* k bytes from p on are memory that the caller may use.
Range(p, k) == p > 0 /\ p + k <= Size + 1

\* A copy that starts at the low end meets no byte it has overwritten.  This
\* is weaker than the C standard's demand that the ranges be disjoint.
Ascending(d, s, k) == d <= s \/ s + k <= d

Call(d, s, k, start, label) ==
  /\ pc = "idle"
  /\ dst' = d /\ src' = s /\ len' = k /\ old' = mem
  /\ to' = d + start /\ from' = s + start /\ n' = k /\ i' = 0
  /\ pc' = label
  /\ UNCHANGED mem

Memcpy(d, s, k) ==
  /\ Range(d, k) /\ Range(s, k) /\ Ascending(d, s, k)
  /\ Call(d, s, k, 0, "block")

\* Overlapping ranges: upwards if the destination is lower, else downwards
\* from the ends.
MemmoveUp(d, s, k) ==
  /\ Range(d, k) /\ Range(s, k) /\ k > 0 /\ d < s
  /\ Call(d, s, k, 0, "up")

MemmoveDown(d, s, k) ==
  /\ Range(d, k) /\ Range(s, k) /\ k > 0 /\ s < d
  /\ Call(d, s, k, k, "down")

\* A null pointer, no bytes, or the same place.
MemmoveNothing(d, s, k) ==
  /\ d = 0 \/ s = 0 \/ k = 0 \/ d = s
  /\ d = s => d = 0 \/ Range(d, k)
  /\ Call(d, s, IF d = s THEN k ELSE 0, 0, "done")

\* A string of k - 1 characters.
Strcpy(d, s, k) ==
  /\ k > 0 /\ Range(d, k) /\ Range(s, k) /\ Ascending(d, s, k)
  /\ \A j \in 0..(k - 2) : mem[s + j] # Nul
  /\ mem[s + k - 1] = Nul
  /\ Call(d, s, k, 0, "string")

-----------------------------------------------------------------------------
(* The loops.                                                              *)

\* while (n >= 8): eight copies, then the pointers move on.
BlockByte ==
  /\ pc = "block" /\ n >= 8
  /\ mem' = [mem EXCEPT ![to + i] = mem[from + i]]
  /\ IF i < 7
     THEN i' = i + 1 /\ UNCHANGED <<to, from, n>>
     ELSE i' = 0 /\ to' = to + 8 /\ from' = from + 8 /\ n' = n - 8
  /\ UNCHANGED <<pc, args>>

BlockEnd ==
  /\ pc = "block" /\ n < 8
  /\ pc' = "up"
  /\ UNCHANGED <<mem, loop, args>>

\* while (n--) *to++ = *from++, in Memcpy and in Memmove.
UpByte ==
  /\ pc = "up" /\ n > 0
  /\ mem' = [mem EXCEPT ![to] = mem[from]]
  /\ to' = to + 1 /\ from' = from + 1 /\ n' = n - 1
  /\ UNCHANGED <<pc, i, args>>

\* while (n--) *--to = *--from
DownByte ==
  /\ pc = "down" /\ n > 0
  /\ mem' = [mem EXCEPT ![to - 1] = mem[from - 1]]
  /\ to' = to - 1 /\ from' = from - 1 /\ n' = n - 1
  /\ UNCHANGED <<pc, i, args>>

LoopEnd ==
  /\ pc \in {"up", "down"} /\ n = 0
  /\ pc' = "done"
  /\ UNCHANGED <<mem, loop, args>>

\* while ((*dst++ = *src++))
StringByte ==
  /\ pc = "string"
  /\ mem' = [mem EXCEPT ![to] = mem[from]]
  /\ to' = to + 1 /\ from' = from + 1
  /\ pc' = IF mem[from] = Nul THEN "done" ELSE "string"
  /\ UNCHANGED <<n, i, args>>

Return ==
  /\ pc = "done"
  /\ pc' = "idle"
  /\ UNCHANGED <<mem, loop, args>>

-----------------------------------------------------------------------------
Next ==
  \/ \E d, s \in 0..Size, k \in 0..Size :
       \/ Memcpy(d, s, k) \/ Strcpy(d, s, k)
       \/ MemmoveUp(d, s, k) \/ MemmoveDown(d, s, k) \/ MemmoveNothing(d, s, k)
  \/ BlockByte \/ BlockEnd \/ UpByte \/ DownByte \/ LoopEnd \/ StringByte
  \/ Return

Spec == Init /\ [][Next]_vars

-----------------------------------------------------------------------------
(* Properties.                                                             *)

\* The memory is as it was at the call, except that the addresses from lo to
\* hi - 1 have the bytes that were then at the same distance from src.
Copied(lo, hi) ==
  \A a \in Address :
    mem[a] = IF lo <= a /\ a < hi THEN old[src + (a - dst)] ELSE old[a]

\* When a function returns, its range holds what the source range held when it
\* was called, however the two overlap, and no other byte has changed.
CopyCorrect == pc = "done" => Copied(dst, dst + len)

\* No loop reads or writes outside its two ranges: not past the last whole
\* block of eight (Memcpy.cc 7-20), not below the first byte on the way down
\* (Memmove.cc 16-21), not past the final Nul (Strcpy.cc 5).
Within(t, f) == /\ dst <= t /\ t < dst + len
                /\ src <= f /\ f < src + len
                /\ t \in Address /\ f \in Address

StaysInRange ==
  /\ pc = "block" /\ n >= 8 => Within(to + i, from + i)
  /\ pc = "up" /\ n > 0 => Within(to, from)
  /\ pc = "down" /\ n > 0 => Within(to - 1, from - 1)
  /\ pc = "string" => Within(to, from)

-----------------------------------------------------------------------------
(* The inductive invariant.                                                *)

TypeOK ==
  /\ mem \in [Address -> Byte] /\ old \in [Address -> Byte]
  /\ pc \in {"idle", "block", "up", "down", "string", "done"}
  /\ to \in Nat /\ from \in Nat /\ n \in Nat /\ i \in Nat
  /\ dst \in Nat /\ src \in Nat /\ len \in Nat

\* Both ranges are memory, and a loop that goes up may.
ArgsOK ==
  /\ pc \in {"block", "up", "down", "string"} => Range(dst, len) /\ Range(src, len)
  /\ pc \in {"block", "up", "string"} => Ascending(dst, src, len)
  /\ pc = "down" => src < dst

\* How far each loop has come, in its pointers and in the memory.
LoopOK ==
  /\ pc \in {"block", "up"} =>
       /\ n <= len
       /\ to = dst + (len - n) /\ from = src + (len - n)
  /\ pc = "block" => i <= 7 /\ (n < 8 => i = 0) /\ Copied(dst, to + i)
  /\ pc = "up" => Copied(dst, to)
  /\ pc = "down" =>
       /\ n <= len
       /\ to = dst + n /\ from = src + n
       /\ Copied(to, dst + len)

\* In Strcpy the end of the string is still ahead, as it was at the call.
StringOK ==
  pc = "string" =>
    /\ dst <= to /\ to < dst + len /\ from = src + (to - dst)
    /\ \A j \in 0..(len - 2) : old[src + j] # Nul
    /\ old[src + len - 1] = Nul
    /\ Copied(dst, to)

CopyInv == TypeOK /\ ArgsOK /\ LoopOK /\ StringOK /\ CopyCorrect

=============================================================================
