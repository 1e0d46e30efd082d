------------------------------ MODULE SharedPtr ------------------------------
(***************************************************************************)
(* quick::shared_ptr and its control_block (include/quick/handle/          *)
(* SharedPtr.hh): handles, used by several threads, that share an object   *)
(* through an atomic count.  What is atomic in the code is one step here:  *)
(* the fetch_sub of release(), the deletion that may follow it, the writes *)
(* of the handle's two pointers, and the fetch_add of add_ref().           *)
(*                                                                         *)
(* As for std::shared_ptr, different handles may be used concurrently, and *)
(* one handle by several threads only if none of them writes it.           *)
(***************************************************************************)
EXTENDS Integers, FiniteSets

CONSTANTS
  Thread,
  Handle,   \* the shared_ptr variables
  Block,    \* the control blocks that operator new can return, each used once
  Null

ASSUME ConstantsAssumption ==
  /\ Null \notin Block \cup Handle
  /\ IsFiniteSet(Handle) /\ IsFiniteSet(Thread)

VARIABLES
  block,   \* block[b]: [mem, count, obj] of control block b and its object
  alive,   \* the handles that may be used
  broken,  \* those that a failed reset(pointer, d) left with a useless p_cb
  p_obj,   \* p_obj[h]: h's object, named by its block, or Null
  p_cb,    \* p_cb[h]: h's control block, or Null
  op       \* op[t]: the member function thread t is in

vars == <<block, alive, broken, p_obj, p_cb, op>>

NoOp == [pc |-> "idle", kind |-> "none", dst |-> Null, src |-> Null]

Init ==
  /\ block = [b \in Block |-> [mem |-> "fresh", count |-> 0, obj |-> "none"]]
  /\ alive = {} /\ broken = {}
  /\ p_obj = [h \in Handle |-> Null]
  /\ p_cb = [h \in Handle |-> Null]
  /\ op = [t \in Thread |-> NoOp]

-----------------------------------------------------------------------------
\* The caller's side of the contract: t may write dst and read src, or write it
\* too if the function moves from it.
MayUse(kind, dst, src) ==
  \A u \in Thread :
    op[u] # NoOp =>
      /\ dst \notin {op[u].dst, op[u].src}
      /\ src # op[u].dst
      /\ src = op[u].src /\ src # Null => kind # "move" /\ op[u].kind # "move"

At(t, pc) == op[t].pc = pc

Goto(t, pc) == op' = [op EXCEPT ![t].pc = pc]

Done(t) == op' = [op EXCEPT ![t] = NoOp]

\* operator new, construct_at and init: a block with one reference.
NewBlock(b, obj) ==
  /\ block[b].mem = "fresh"
  /\ block' = [block EXCEPT ![b] = [mem |-> "live", count |-> 1, obj |-> obj]]

\* shared_ptr()
DefaultConstruct(t, h) ==
  /\ op[t] = NoOp /\ h \notin alive \cup broken /\ MayUse("new", h, Null)
  /\ alive' = alive \cup {h}
  /\ UNCHANGED <<block, broken, p_obj, p_cb, op>>

\* shared_ptr(pointer) and shared_ptr(pointer, d): a null pointer gets a
\* control block too.
Construct(t, h, b, null) ==
  /\ op[t] = NoOp /\ h \notin alive \cup broken /\ MayUse("new", h, Null)
  /\ NewBlock(b, IF null THEN "none" ELSE "alive")
  /\ alive' = alive \cup {h}
  /\ p_obj' = [p_obj EXCEPT ![h] = IF null THEN Null ELSE b]
  /\ p_cb' = [p_cb EXCEPT ![h] = b]
  /\ UNCHANGED <<broken, op>>

\* The copy and move constructors, the two assignments, reset() and the
\* destructor: an old control block is released first.
Begin_mut(t, kind, dst, src) ==
  /\ op[t] = NoOp /\ MayUse(kind, dst, src)
  /\ op' = [op EXCEPT ![t] =
       [pc |-> "write", kind |-> kind, dst |-> dst, src |-> src]]
  /\ UNCHANGED <<block, alive, broken, p_obj, p_cb>>
Begin(t, kind, dst, src) ==
  /\ op[t] = NoOp /\ MayUse(kind, dst, src)
  /\ op' = [op EXCEPT ![t] =
       [pc |-> IF p_cb[dst] # Null THEN "release" ELSE "write",
        kind |-> kind, dst |-> dst, src |-> src]]
  /\ UNCHANGED <<block, alive, broken, p_obj, p_cb>>

CopyConstruct(t, dst, src) ==
  dst \notin alive \cup broken /\ src \in alive /\ Begin(t, "copy", dst, src)

MoveConstruct(t, dst, src) ==
  dst \notin alive \cup broken /\ src \in alive /\ Begin(t, "move", dst, src)

\* operator= does nothing if this == &other.
CopyAssign(t, dst, src) ==
  dst \in alive /\ src \in alive \ {dst} /\ Begin(t, "copy", dst, src)

MoveAssign(t, dst, src) ==
  dst \in alive /\ src \in alive \ {dst} /\ Begin(t, "move", dst, src)

Reset(t, dst) == dst \in alive /\ Begin(t, "reset", dst, Null)

ResetTo(t, dst) == dst \in alive /\ Begin(t, "renew", dst, Null)

Destroy(t, dst) == dst \in alive /\ Begin(t, "destroy", dst, Null)

-----------------------------------------------------------------------------
\* control_block::release(): fetch_sub, and who saw 1 deletes.
Release(t) ==
  LET b == p_cb[op[t].dst]
  IN  /\ At(t, "release")
      /\ block' = [block EXCEPT ![b].count = @ - 1]
      /\ Goto(t, IF block[b].count = 1 THEN "delete" ELSE "write")
      /\ UNCHANGED <<alive, broken, p_obj, p_cb>>

\* The object, if there is one, then the block.
Delete_mut(t) ==
  LET b == p_cb[op[t].dst]
  IN  /\ At(t, "delete")
      /\ block' = [block EXCEPT ![b].obj = IF @ = "alive" THEN "deleted" ELSE @]
      /\ Goto(t, "write")
      /\ UNCHANGED <<alive, broken, p_obj, p_cb>>
Delete(t) ==
  LET b == p_cb[op[t].dst]
  IN  /\ At(t, "delete")
      /\ block' = [block EXCEPT ![b].mem = "freed",
                                ![b].obj = IF @ = "alive" THEN "deleted" ELSE @]
      /\ Goto(t, "write")
      /\ UNCHANGED <<alive, broken, p_obj, p_cb>>

Writing(t, kind) == At(t, "write") /\ op[t].kind = kind

WriteCopy_mut(t) ==
  LET dst == op[t].dst  src == op[t].src
  IN  /\ Writing(t, "copy")
      /\ p_obj' = [p_obj EXCEPT ![dst] = p_obj[src]]
      /\ p_cb' = [p_cb EXCEPT ![dst] = p_cb[src]]
      /\ alive' = alive \cup {dst}
      /\ Done(t)
      /\ UNCHANGED <<block, broken>>
WriteCopy(t) ==
  LET dst == op[t].dst  src == op[t].src
  IN  /\ Writing(t, "copy")
      /\ p_obj' = [p_obj EXCEPT ![dst] = p_obj[src]]
      /\ p_cb' = [p_cb EXCEPT ![dst] = p_cb[src]]
      /\ alive' = alive \cup {dst}
      /\ IF p_cb[src] # Null THEN Goto(t, "addref") ELSE Done(t)
      /\ UNCHANGED <<block, broken>>

AddRef(t) ==
  /\ At(t, "addref")
  /\ block' = [block EXCEPT ![p_cb[op[t].dst]].count = @ + 1]
  /\ Done(t)
  /\ UNCHANGED <<alive, broken, p_obj, p_cb>>

WriteMove(t) ==
  LET dst == op[t].dst  src == op[t].src
  IN  /\ Writing(t, "move")
      /\ p_obj' = [p_obj EXCEPT ![dst] = p_obj[src], ![src] = Null]
      /\ p_cb' = [p_cb EXCEPT ![dst] = p_cb[src], ![src] = Null]
      /\ alive' = alive \cup {dst}
      /\ Done(t)
      /\ UNCHANGED <<block, broken>>

WriteNull(t) ==
  LET dst == op[t].dst
  IN  /\ Writing(t, "reset") \/ Writing(t, "destroy") \/ Writing(t, "renew")
      /\ p_obj' = [p_obj EXCEPT ![dst] = Null]
      /\ p_cb' = [p_cb EXCEPT ![dst] = Null]
      /\ alive' = IF op[t].kind = "destroy" THEN alive \ {dst} ELSE alive
      /\ Done(t)
      /\ UNCHANGED <<block, broken>>

\* reset(pointer, d) with a pointer that is not null.
WriteNew(t, b) ==
  LET dst == op[t].dst
  IN  /\ Writing(t, "renew")
      /\ NewBlock(b, "alive")
      /\ p_obj' = [p_obj EXCEPT ![dst] = b]
      /\ p_cb' = [p_cb EXCEPT ![dst] = b]
      /\ Done(t)
      /\ UNCHANGED <<alive, broken>>

\* The allocation in it fails, or, copying the deleter, the construction of the
\* block.  p_cb is then the released block, or one without a count: everything
\* that can be done with the handle, its destructor included, is undefined, but
\* other handles go on.  If p_cb is still null the object has no block.
RenewThrow(t, b, copying) ==
  LET dst == op[t].dst
      cb == IF copying THEN b ELSE p_cb[dst]
      unusable == IF cb # Null THEN {dst} ELSE {}
  IN  /\ Writing(t, "renew") /\ block[b].mem = "fresh"
      /\ block' = [block EXCEPT ![b].mem = "failed", ![b].obj = "alive"]
      /\ p_obj' = [p_obj EXCEPT ![dst] = b]
      /\ p_cb' = [p_cb EXCEPT ![dst] = cb]
      /\ alive' = alive \ unusable
      /\ broken' = broken \cup unusable
      /\ Done(t)

-----------------------------------------------------------------------------
Call(t) ==
  \/ \E h \in Handle : DefaultConstruct(t, h)
  \/ \E h \in Handle, b \in Block, null \in BOOLEAN : Construct(t, h, b, null)
  \/ \E dst, src \in Handle : CopyConstruct(t, dst, src)
  \/ \E dst, src \in Handle : MoveConstruct(t, dst, src)
  \/ \E dst, src \in Handle : CopyAssign(t, dst, src)
  \/ \E dst, src \in Handle : MoveAssign(t, dst, src)
  \/ \E dst \in Handle : Reset(t, dst)
  \/ \E dst \in Handle : ResetTo(t, dst)
  \/ \E dst \in Handle : Destroy(t, dst)

Continue(t) ==
  \/ Release(t) \/ Delete(t) \/ WriteCopy(t) \/ AddRef(t) \/ WriteMove(t) \/ WriteNull(t)
  \/ \E b \in Block : WriteNew(t, b)
  \/ \E b \in Block, copying \in BOOLEAN : RenewThrow(t, b, copying)

Next == \E t \in Thread : Call(t) \/ Continue(t)

Spec == Init /\ [][Next]_vars

-----------------------------------------------------------------------------
(* Properties.                                                             *)

\* Handles that t has released and not written yet, or written and not counted.
Released == {op[t].dst : t \in {u \in Thread : op[u].pc \in {"delete", "write"}}}
Uncounted == {op[t].dst : t \in {u \in Thread : op[u].pc = "addref"}}

Referring(b) == {h \in alive : p_cb[h] = b}

\* The count is the number of handles that refer to the block, however the
\* threads' assignments, resets and destructors interleave.
CountExact ==
  \A b \in Block :
    block[b].count = Cardinality(Referring(b) \ (Released \cup Uncounted))

\* No thread touches a control block that was freed: neither release() (57-70)
\* nor add_ref() (52-55) comes too late, and no block is freed twice.  A handle
\* that nobody is changing and that is not null has a living object, so that
\* operator* and operator-> may be used; a failed reset of one handle (182-183)
\* takes neither from the others.
NoUseAfterFree ==
  /\ \A t \in Thread :
       op[t].pc \in {"release", "delete", "addref"} =>
         block[p_cb[op[t].dst]].mem = "live"
  /\ \A h \in alive :
       (\A t \in Thread : op[t].dst # h) =>
         /\ p_obj[h] # Null => block[p_obj[h]].obj = "alive"
         /\ p_cb[h] # Null => block[p_cb[h]].mem = "live"

\* When no operation is under way, a block without a handle is freed and its
\* object deleted: nothing leaks.
NoLeak ==
  (\A t \in Thread : op[t] = NoOp) =>
    \A b \in Block : block[b].mem = "live" => Referring(b) # {}

=============================================================================
