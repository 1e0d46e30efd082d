--------------------------- MODULE SharedPtrProofs ---------------------------
(***************************************************************************)
(* Proofs about SharedPtr for any number of threads, handles and control   *)
(* blocks.                                                                 *)
(***************************************************************************)
EXTENDS SharedPtr, FiniteSetTheorems, TLAPS

Kinds == {"copy", "move", "reset", "renew", "destroy"}

Blocks == [Block -> [mem : {"fresh", "live", "freed", "failed"}, count : Nat,
                     obj : {"none", "alive", "deleted"}]]
Ops == [Thread -> [pc : {"idle", "release", "delete", "write", "addref"},
                   kind : Kinds \cup {"none"},
                   dst : Handle \cup {Null}, src : Handle \cup {Null}]]

TypeOK ==
  /\ block \in Blocks
  /\ alive \in SUBSET Handle /\ broken \in SUBSET Handle
  /\ p_obj \in [Handle -> Block \cup {Null}] /\ p_cb \in [Handle -> Block \cup {Null}]
  /\ op \in Ops

Busy(t) == op[t].pc # "idle"

\* What each thread's member function relies on at its place.
OpsOK ==
  \A t \in Thread :
    /\ ~Busy(t) <=> op[t] = NoOp
    /\ Busy(t) =>
         /\ op[t].kind \in Kinds /\ op[t].dst \in Handle /\ op[t].dst \notin broken
         /\ IF op[t].kind \in {"copy", "move"}
            THEN op[t].src \in alive /\ op[t].src # op[t].dst
            ELSE op[t].src = Null /\ op[t].dst \in alive
    /\ op[t].pc \in {"release", "delete"} => op[t].dst \in alive /\ p_cb[op[t].dst] # Null
    /\ op[t].pc = "addref" =>
         /\ op[t].kind = "copy" /\ op[t].dst \in alive
         /\ p_cb[op[t].dst] # Null /\ p_cb[op[t].dst] = p_cb[op[t].src]

\* No handle is written by one thread and used by another.
Apart ==
  \A t, u \in Thread : t # u /\ Busy(t) /\ Busy(u) =>
    /\ op[t].dst # op[u].dst /\ op[t].dst # op[u].src
    /\ op[t].src = op[u].src /\ op[t].src # Null => op[t].kind # "move"

\* A handle that is not constructed, or was destroyed, is null.
HandlesOK ==
  /\ \A h \in alive : h \notin broken
  /\ \A h \in Handle : h \notin alive /\ h \notin broken => p_cb[h] = Null /\ p_obj[h] = Null

\* The handles that own a reference to b.
Settled(h) == \A t \in Thread : op[t].pc \in {"delete", "write"} => op[t].dst # h
Counted(b) ==
  {h \in alive : /\ p_cb[h] = b
                 /\ \A t \in Thread : op[t].pc \in {"delete", "write", "addref"} => op[t].dst # h}

CountsOwners == \A b \in Block : block[b].count = Cardinality(Counted(b))

\* A handle that no thread has released points to a living block, and to an
\* object that is alive: the block's, or one that a failed reset left without a
\* block.
PointsOK(h) ==
  /\ p_cb[h] # Null => block[p_cb[h]].mem = "live"
  /\ p_obj[h] # Null =>
       /\ block[p_obj[h]].obj = "alive"
       /\ p_obj[h] = p_cb[h] \/ block[p_obj[h]].mem = "failed"
PointsToLiving == \A h \in alive : Settled(h) => PointsOK(h)

\* A thread that deletes a block is the only one, and nobody owns it.
DeletesAlone ==
  /\ \A t \in Thread : op[t].pc = "delete" =>
       block[p_cb[op[t].dst]].mem = "live" /\ block[p_cb[op[t].dst]].count = 0
  /\ \A t, u \in Thread : op[t].pc = "delete" /\ op[u].pc = "delete" /\ t # u =>
       p_cb[op[t].dst] # p_cb[op[u].dst]

\* A living block has an owner or is about to be deleted.
Needed ==
  \A b \in Block : block[b].mem = "live" =>
    \/ block[b].count > 0
    \/ \E t \in Thread : op[t].pc = "delete" /\ p_cb[op[t].dst] = b

PtrInv ==
  /\ TypeOK /\ OpsOK /\ Apart /\ HandlesOK
  /\ CountsOwners /\ PointsToLiving /\ DeletesAlone /\ Needed

USE DEF Blocks, Ops

-----------------------------------------------------------------------------
(* Owners.                                                                 *)

\* Sets of handles can be counted; one that joins or leaves makes one.
LEMMA OwnerSets ==
  ASSUME NEW S, S \subseteq Handle, NEW h \in Handle
  PROVE  /\ Cardinality(S) \in Nat
         /\ Cardinality(S) = 0 <=> S = {}
         /\ h \notin S => Cardinality(S \cup {h}) = Cardinality(S) + 1
         /\ h \in S => Cardinality(S \ {h}) = Cardinality(S) - 1
<1>1. IsFiniteSet(S)
  BY FS_Subset, ConstantsAssumption
<1> QED BY <1>1, FS_CardinalityType, FS_EmptySet, FS_AddElement, FS_RemoveElement

\* The owners in the terms of CountExact.
LEMMA CountedAs ==
  ASSUME NEW b
  PROVE  Counted(b) = Referring(b) \ (Released \cup Uncounted)
<1>1. ASSUME NEW h
      PROVE  h \in Released \cup Uncounted <=>
               \E t \in Thread : op[t].pc \in {"delete", "write", "addref"} /\ op[t].dst = h
  BY DEF Released, Uncounted
<1> QED BY <1>1 DEF Counted, Referring

\* Who owns a reference is in the count, which is then not zero.
LEMMA OwnedIsCounted ==
  ASSUME PtrInv, NEW b \in Block, NEW h \in Counted(b)
  PROVE  block[b].count \in Nat /\ block[b].count >= 1
<1>1. Counted(b) \subseteq Handle /\ h \in Handle /\ Counted(b) # {}
  BY DEF PtrInv, TypeOK, Counted
<1>2. Cardinality(Counted(b)) \in Nat /\ Cardinality(Counted(b)) # 0
  BY <1>1, OwnerSets
<1> QED BY <1>2 DEF PtrInv, CountsOwners

-----------------------------------------------------------------------------
(* Other threads.                                                          *)

\* What a thread may rely on while it is in a member function.
LEMMA Mine ==
  ASSUME PtrInv, NEW t \in Thread, Busy(t)
  PROVE  /\ op[t].dst \in Handle /\ op[t].dst \notin broken
         /\ op[t].kind \in {"copy", "move"} =>
              /\ op[t].src \in alive /\ op[t].src \in Handle /\ op[t].src # op[t].dst
              /\ Settled(op[t].src)
         /\ op[t].kind \notin {"copy", "move"} => op[t].dst \in alive
         /\ \A u \in Thread : u # t /\ Busy(u) =>
              /\ op[u].dst # op[t].dst /\ op[u].src # op[t].dst /\ op[u].dst # op[t].src
              /\ op[t].kind = "move" => op[u].src # op[t].src
<1>1. /\ op[t].dst \in Handle /\ op[t].dst \notin broken
      /\ op[t].kind \in {"copy", "move"} =>
           op[t].src \in alive /\ op[t].src \in Handle /\ op[t].src # op[t].dst
      /\ op[t].kind \notin {"copy", "move"} => op[t].dst \in alive
  BY DEF PtrInv, TypeOK, OpsOK
<1>2. ASSUME NEW u \in Thread, u # t, Busy(u)
      PROVE  /\ op[u].dst # op[t].dst /\ op[u].src # op[t].dst /\ op[u].dst # op[t].src
             /\ op[t].kind = "move" => op[u].src # op[t].src
  <2>1. op[u].dst # op[t].dst /\ op[u].src # op[t].dst /\ op[u].dst # op[t].src
    BY <1>2 DEF PtrInv, Apart
  <2>2. ASSUME op[t].kind = "move" PROVE op[u].src # op[t].src
    <3>1. op[t].src \in Handle /\ Null \notin Handle
      BY <1>1, <2>2, ConstantsAssumption
    <3> QED BY <1>2, <2>2, <3>1 DEF PtrInv, Apart
  <2> QED BY <2>1, <2>2
<1>3. ASSUME op[t].kind \in {"copy", "move"} PROVE Settled(op[t].src)
  BY <1>1, <1>2, <1>3 DEF Settled, Busy
<1> QED BY <1>1, <1>2, <1>3

\* A step that neither begins nor ends a deletion, and leaves what is being
\* deleted alone.
LEMMA DeletersKept ==
  ASSUME PtrInv, NEW t \in Thread, op[t].pc # "delete", op'[t].pc # "delete",
         \A u \in Thread : u # t => op'[u] = op[u],
         \A u \in Thread : op[u].pc = "delete" =>
           /\ p_cb'[op[u].dst] = p_cb[op[u].dst]
           /\ block'[p_cb[op[u].dst]] = block[p_cb[op[u].dst]],
         \A b \in Block : block'[b].mem = "live" =>
           block'[b].count > 0 \/ (block[b].mem = "live" /\ block'[b].count = block[b].count)
  PROVE  DeletesAlone' /\ Needed'
<1>1. \A u \in Thread : op'[u].pc = "delete" =>
        op[u].pc = "delete" /\ p_cb'[op'[u].dst] = p_cb[op[u].dst]
  OBVIOUS
<1>2. \A u \in Thread : op[u].pc = "delete" =>
        op'[u].pc = "delete" /\ p_cb'[op'[u].dst] = p_cb[op[u].dst]
  OBVIOUS
<1>3. DeletesAlone'
  BY <1>1 DEF PtrInv, DeletesAlone
<1>4. Needed'
  BY <1>2 DEF PtrInv, Needed
<1> QED BY <1>3, <1>4

\* A step that leaves living blocks and objects alone, after which a handle
\* points where one pointed before, or is seen to be right itself.
LEMMA LivingKept ==
  ASSUME PtrInv,
         \A b \in Block : block[b].mem \in {"live", "failed"} =>
           block'[b].mem = block[b].mem /\ block'[b].obj = block[b].obj,
         \A h \in alive' : Settled(h)' =>
           \/ \E g \in alive : Settled(g) /\ p_cb'[h] = p_cb[g] /\ p_obj'[h] = p_obj[g]
           \/ PointsOK(h)'
  PROVE  PointsToLiving'
<1> SUFFICES ASSUME NEW h \in alive', NEW g \in alive, Settled(g), p_cb'[h] = p_cb[g],
                    p_obj'[h] = p_obj[g]
             PROVE  PointsOK(h)'
  BY DEF PointsToLiving
<1>1. PointsOK(g) /\ p_cb[g] \in Block \cup {Null} /\ p_obj[g] \in Block \cup {Null}
  BY DEF PtrInv, PointsToLiving, TypeOK
<1> QED BY <1>1 DEF PointsOK

\* A step that gives nobody a reference, and takes none.
LEMMA OwnersKept ==
  ASSUME PtrInv,
         \A b \in Block : Counted(b)' = Counted(b) /\ block'[b].count = block[b].count
  PROVE  CountsOwners'
  BY DEF PtrInv, CountsOwners

\* A step that gives h a reference to b, or takes it.
LEMMA OwnerMoves ==
  ASSUME PtrInv, NEW b \in Block, NEW h \in Handle,
         \/ /\ h \notin Counted(b) /\ Counted(b)' = Counted(b) \cup {h}
            /\ block'[b].count = block[b].count + 1
         \/ /\ h \in Counted(b) /\ Counted(b)' = Counted(b) \ {h}
            /\ block'[b].count = block[b].count - 1,
         \A c \in Block : c # b => Counted(c)' = Counted(c) /\ block'[c].count = block[c].count
  PROVE  CountsOwners'
<1>1. Counted(b) \subseteq Handle /\ block[b].count = Cardinality(Counted(b))
  BY DEF PtrInv, TypeOK, Counted, CountsOwners
<1>2. block'[b].count = Cardinality(Counted(b)')
  BY <1>1, OwnerSets
<1> QED BY <1>2 DEF PtrInv, CountsOwners

\* Nobody owns a block that was never used, and no thread deletes it.
LEMMA FreshUnowned ==
  ASSUME PtrInv, NEW b \in Block, block[b].mem # "live"
  PROVE  /\ Counted(b) = {} /\ block[b].count = 0
         /\ \A t \in Thread : op[t].pc = "delete" => p_cb[op[t].dst] # b
<1>1. Counted(b) = {}
  <2> SUFFICES ASSUME NEW h \in Counted(b) PROVE FALSE
    OBVIOUS
  <2>1. h \in alive /\ p_cb[h] = b /\ Settled(h) /\ b # Null
    BY ConstantsAssumption DEF Counted, Settled
  <2> QED BY <2>1 DEF PtrInv, PointsToLiving, PointsOK
<1>2. block[b].count = 0
  BY <1>1, FS_EmptySet DEF PtrInv, CountsOwners
<1> QED BY <1>1, <1>2 DEF PtrInv, DeletesAlone

-----------------------------------------------------------------------------
(* One lemma for each step.                                                *)

\* shared_ptr() makes a null handle.
LEMMA DefaultStep ==
  ASSUME PtrInv, NEW t \in Thread, NEW h \in Handle, DefaultConstruct(t, h)
  PROVE  PtrInv'
<1>1. /\ h \notin alive /\ h \notin broken /\ alive' = alive \cup {h}
      /\ UNCHANGED <<block, broken, p_obj, p_cb, op>>
      /\ p_cb[h] = Null /\ p_obj[h] = Null
  BY DEF DefaultConstruct, PtrInv, HandlesOK
<1>2. TypeOK' /\ OpsOK' /\ Apart' /\ HandlesOK'
  BY <1>1 DEF PtrInv, TypeOK, OpsOK, Apart, HandlesOK, Busy
<1>3. CountsOwners'
  <2>1. \A b \in Block : Counted(b)' = Counted(b)
    BY <1>1, ConstantsAssumption DEF Counted
  <2> QED BY <1>1, <2>1, OwnersKept
<1>4. PointsToLiving'
  BY <1>1, LivingKept DEF Settled, PointsOK
<1>5. DeletesAlone' /\ Needed'
  BY <1>1 DEF PtrInv, DeletesAlone, Needed
<1> QED BY <1>2, <1>3, <1>4, <1>5 DEF PtrInv

\* shared_ptr(pointer) makes the only owner of a new block.
LEMMA ConstructStep ==
  ASSUME PtrInv, NEW t \in Thread, NEW h \in Handle, NEW b \in Block, NEW null \in BOOLEAN,
         Construct(t, h, b, null)
  PROVE  PtrInv'
<1>1. /\ h \notin alive /\ h \notin broken /\ alive' = alive \cup {h}
      /\ block[b].mem = "fresh"
      /\ p_cb' = [p_cb EXCEPT ![h] = b] /\ UNCHANGED <<broken, op>>
  BY DEF Construct, NewBlock
<1>2. PICK obj \in {"none", "alive"}, ptr \in {Null, b} :
        /\ block' = [block EXCEPT ![b] = [mem |-> "live", count |-> 1, obj |-> obj]]
        /\ p_obj' = [p_obj EXCEPT ![h] = ptr] /\ (ptr = b => obj = "alive")
  BY ConstantsAssumption DEF Construct, NewBlock
<1>3. \A u \in Thread : Busy(u) => op[u].dst # h /\ op[u].src # h
  BY DEF Construct, MayUse, PtrInv, OpsOK
<1>4. TypeOK'
  BY <1>1, <1>2 DEF PtrInv, TypeOK
<1>5. OpsOK'
  BY <1>1, <1>3 DEF PtrInv, OpsOK, TypeOK, Busy
<1>6. Apart' /\ HandlesOK'
  BY <1>1, <1>2 DEF PtrInv, Apart, HandlesOK, TypeOK, Busy
<1>7. CountsOwners'
  <2>1. Counted(b) = {} /\ block[b].count = 0
    BY <1>1, FreshUnowned
  <2>2. Counted(b)' = Counted(b) \cup {h}
    BY <1>1, <1>3, <2>1 DEF PtrInv, TypeOK, Counted, Busy
  <2>3. \A c \in Block : c # b => Counted(c)' = Counted(c)
    BY <1>1 DEF PtrInv, TypeOK, Counted
  <2>4. block'[b].count = 1 /\ \A c \in Block : c # b => block'[c].count = block[c].count
    BY <1>2 DEF PtrInv, TypeOK
  <2> QED BY <2>1, <2>2, <2>3, <2>4, OwnerMoves
<1>8. PointsToLiving'
  <2>1. \A c \in Block : block[c].mem \in {"live", "failed"} =>
          block'[c].mem = block[c].mem /\ block'[c].obj = block[c].obj
    BY <1>1, <1>2 DEF PtrInv, TypeOK
  <2>2. \A g \in alive : p_cb'[g] = p_cb[g] /\ p_obj'[g] = p_obj[g]
    BY <1>1, <1>2 DEF PtrInv, TypeOK
  <2>3. PointsOK(h)'
    BY <1>1, <1>2, ConstantsAssumption DEF PtrInv, TypeOK, PointsOK
  <2>4. \A g \in alive : Settled(g)' => Settled(g)
    BY <1>1 DEF Settled
  <2> QED BY <1>1, <2>1, <2>2, <2>3, <2>4, LivingKept
<1>9. DeletesAlone' /\ Needed'
  <2>1. \A u \in Thread : op[u].pc = "delete" =>
          /\ p_cb'[op[u].dst] = p_cb[op[u].dst]
          /\ block'[p_cb[op[u].dst]] = block[p_cb[op[u].dst]]
    BY <1>1, <1>2, <1>3, FreshUnowned DEF PtrInv, TypeOK, OpsOK, Busy
  <2>2. \A c \in Block : block'[c].mem = "live" =>
          block'[c].count > 0 \/ (block[c].mem = "live" /\ block'[c].count = block[c].count)
    <3>1. block'[b].count = 1 /\ \A c \in Block : c # b => block'[c] = block[c]
      BY <1>2 DEF PtrInv, TypeOK
    <3> TAKE c \in Block
    <3>2. CASE c = b
      BY <3>1, <3>2
    <3>3. CASE c # b
      BY <3>1, <3>3
    <3> QED BY <3>2, <3>3
  <2>3. op[t].pc = "idle"
    BY DEF Construct, NoOp
  <2> QED BY <1>1, <2>1, <2>2, <2>3, DeletersKept
<1> QED BY <1>4, <1>5, <1>6, <1>7, <1>8, <1>9 DEF PtrInv

\* A member function begins: its handles are nobody else's to write.
LEMMA BeginStep ==
  ASSUME PtrInv, NEW t \in Thread, NEW kind \in Kinds, NEW dst \in Handle, dst \notin broken,
         NEW src, Begin(t, kind, dst, src),
         IF kind \in {"copy", "move"} THEN src \in alive /\ src # dst
         ELSE src = Null /\ dst \in alive
  PROVE  PtrInv'
<1>1. PICK place \in {"release", "write"} :
        /\ op' = [op EXCEPT ![t] = [pc |-> place, kind |-> kind, dst |-> dst, src |-> src]]
        /\ place = "release" <=> p_cb[dst] # Null
        /\ op[t] = NoOp /\ op[t].pc = "idle"
        /\ UNCHANGED <<block, alive, broken, p_obj, p_cb>>
  <2>1. op[t] = NoOp /\ op[t].pc = "idle" /\ UNCHANGED <<block, alive, broken, p_obj, p_cb>>
    BY DEF Begin, NoOp
  <2>2. CASE p_cb[dst] # Null
    BY <2>1, <2>2 DEF Begin
  <2>3. CASE p_cb[dst] = Null
    BY <2>1, <2>3 DEF Begin
  <2> QED BY <2>2, <2>3
<1>2. \A u \in Thread : Busy(u) =>
        /\ u # t /\ dst # op[u].dst /\ dst # op[u].src /\ src # op[u].dst
        /\ src = op[u].src /\ src # Null => kind # "move" /\ op[u].kind # "move"
  BY <1>1 DEF Begin, MayUse, PtrInv, OpsOK, Busy
<1>3. place = "release" => dst \in alive
  BY <1>1 DEF PtrInv, HandlesOK
<1>4. op \in Ops
  BY DEF PtrInv, TypeOK
<1>5. /\ op'[t] = [pc |-> place, kind |-> kind, dst |-> dst, src |-> src]
      /\ \A u \in Thread : u # t => op'[u] = op[u]
  BY <1>1, <1>4
<1>6. TypeOK'
  BY <1>1 DEF PtrInv, TypeOK
<1>7. OpsOK'
  BY <1>1, <1>3, <1>5 DEF PtrInv, OpsOK, Busy, NoOp
<1>8. Apart'
  <2> SUFFICES ASSUME NEW u \in Thread, NEW v \in Thread, u # v, Busy(u)', Busy(v)'
               PROVE  /\ op'[u].dst # op'[v].dst /\ op'[u].dst # op'[v].src
                      /\ op'[u].src = op'[v].src /\ op'[u].src # Null => op'[u].kind # "move"
    BY DEF Apart
  <2>1. CASE u = t
    BY <1>2, <1>5, <2>1 DEF Busy
  <2>2. CASE v = t
    BY <1>2, <1>5, <2>2 DEF Busy
  <2>3. CASE u # t /\ v # t
    BY <1>5, <2>3 DEF PtrInv, Apart, Busy
  <2> QED BY <2>1, <2>2, <2>3
<1>9. HandlesOK'
  BY <1>1 DEF PtrInv, HandlesOK
<1>10. CountsOwners'
  <2>1. ASSUME place = "write" PROVE \A b \in Block : p_cb[dst] # b
    BY <1>1, <2>1, ConstantsAssumption
  <2>2. \A b \in Block : Counted(b)' = Counted(b)
    BY <1>1, <1>5, <2>1 DEF Counted
  <2> QED BY <1>1, <2>2, OwnersKept
<1>11. PointsToLiving'
  <2>1. \A h \in alive : Settled(h)' => Settled(h)
    BY <1>1, <1>5 DEF Settled
  <2> QED BY <1>1, <2>1, LivingKept
<1>12. DeletesAlone' /\ Needed'
  BY <1>1, <1>5, DeletersKept
<1> QED BY <1>6, <1>7, <1>8, <1>9, <1>10, <1>11, <1>12 DEF PtrInv

\* A thread goes on with the function it is in, to a place that relies on no
\* more than the handle's control block.
LEMMA PlaceMoves ==
  ASSUME PtrInv, NEW t \in Thread, Busy(t), NEW place \in {"delete", "write"},
         op' = [op EXCEPT ![t].pc = place], UNCHANGED <<alive, broken, p_cb>>,
         op[t].dst \in alive, p_cb[op[t].dst] # Null
  PROVE  /\ op' \in Ops
         /\ op'[t].pc = place /\ op'[t].dst = op[t].dst
         /\ op'[t].kind = op[t].kind /\ op'[t].src = op[t].src
         /\ \A u \in Thread : u # t => op'[u] = op[u]
         /\ OpsOK'
<1>1. op \in Ops
  BY DEF PtrInv, TypeOK
<1>2. op' \in Ops
  BY <1>1
<1>3. /\ op'[t].pc = place /\ op'[t].dst = op[t].dst
      /\ op'[t].kind = op[t].kind /\ op'[t].src = op[t].src
      /\ \A u \in Thread : u # t => op'[u] = op[u]
  BY <1>1
<1>4. OpsOK
  BY DEF PtrInv
<1>5. OpsOK'
  <2> SUFFICES ASSUME NEW u \in Thread
      PROVE  (/\ ~Busy(u) <=> op[u] = NoOp
              /\ Busy(u) =>
                   /\ op[u].kind \in Kinds /\ op[u].dst \in Handle /\ op[u].dst \notin broken
                   /\ IF op[u].kind \in {"copy", "move"}
                      THEN op[u].src \in alive /\ op[u].src # op[u].dst
                      ELSE op[u].src = Null /\ op[u].dst \in alive
              /\ op[u].pc \in {"release", "delete"} =>
                   op[u].dst \in alive /\ p_cb[op[u].dst] # Null
              /\ op[u].pc = "addref" =>
                   /\ op[u].kind = "copy" /\ op[u].dst \in alive
                   /\ p_cb[op[u].dst] # Null /\ p_cb[op[u].dst] = p_cb[op[u].src])'
    BY DEF OpsOK
  <2>1. CASE u # t
    <3>1. op'[u] = op[u]
      BY <1>3, <2>1
    <3> QED BY <1>4, <3>1 DEF OpsOK, Busy
  <2>2. CASE u = t
    <3>1. op'[t].pc # "idle" /\ op'[t] # NoOp
      BY <1>3 DEF NoOp
    <3> QED BY <1>3, <1>4, <2>2, <3>1 DEF OpsOK, Busy
  <2> QED BY <2>1, <2>2
<1> QED BY <1>2, <1>3, <1>5

\* release() gives up one reference.
LEMMA ReleaseStep ==
  ASSUME PtrInv, NEW t \in Thread, Release(t)
  PROVE  PtrInv'
<1>1. PICK d \in Handle, b \in Block :
        /\ d = op[t].dst /\ b = p_cb[d] /\ op[t].pc = "release" /\ d \in alive
  BY DEF Release, At, PtrInv, TypeOK, OpsOK, Busy
<1>2. \A u \in Thread : u # t /\ Busy(u) => op[u].dst # d
  BY <1>1, Mine DEF Busy
<1>3. d \in Counted(b) /\ block[b].mem = "live"
  BY <1>1, <1>2, ConstantsAssumption
     DEF PtrInv, PointsToLiving, PointsOK, Settled, Counted, Busy
<1>4. block[b].count \in Nat /\ block[b].count >= 1
  BY <1>3, OwnedIsCounted
<1>5. PICK place \in {"delete", "write"} :
        /\ block' = [block EXCEPT ![b].count = @ - 1] /\ op' = [op EXCEPT ![t].pc = place]
        /\ UNCHANGED <<alive, broken, p_obj, p_cb>>
        /\ place = "delete" <=> block[b].count = 1
  <2>1. CASE block[b].count = 1
    BY <1>1, <2>1 DEF Release, Goto
  <2>2. CASE block[b].count # 1
    BY <1>1, <2>2 DEF Release, Goto
  <2> QED BY <2>1, <2>2
<1>6. /\ op'[t].pc = place /\ op'[t].dst = d /\ op'[t].kind = op[t].kind /\ op'[t].src = op[t].src
      /\ \A u \in Thread : u # t => op'[u] = op[u]
      /\ block'[b].mem = "live" /\ block'[b].obj = block[b].obj
      /\ block'[b].count = block[b].count - 1
      /\ \A c \in Block : c # b => block'[c] = block[c]
  <2>1. Busy(t) /\ p_cb[d] # Null
    BY <1>1, ConstantsAssumption DEF Busy
  <2>2. /\ op'[t].pc = place /\ op'[t].dst = d /\ op'[t].kind = op[t].kind
        /\ op'[t].src = op[t].src /\ \A u \in Thread : u # t => op'[u] = op[u]
    BY <1>1, <1>5, <2>1, PlaceMoves
  <2>3. block \in Blocks
    BY DEF PtrInv, TypeOK
  <2>4. /\ block'[b].mem = "live" /\ block'[b].obj = block[b].obj
        /\ block'[b].count = block[b].count - 1
        /\ \A c \in Block : c # b => block'[c] = block[c]
    BY <1>3, <1>5, <2>3
  <2> QED BY <2>2, <2>4
<1>7. TypeOK'
  <2>1. block[b].count - 1 \in Nat
    BY <1>4
  <2>2. block \in Blocks
    BY DEF PtrInv, TypeOK
  <2>3. block' \in Blocks
    BY <1>5, <2>1, <2>2
  <2>4. /\ alive' \in SUBSET Handle /\ broken' \in SUBSET Handle
        /\ p_obj' \in [Handle -> Block \cup {Null}] /\ p_cb' \in [Handle -> Block \cup {Null}]
    BY <1>5 DEF PtrInv, TypeOK
  <2>5. Busy(t) /\ p_cb[d] # Null
    BY <1>1, ConstantsAssumption DEF Busy
  <2>6. op' \in Ops
    BY <1>1, <1>5, <2>5, PlaceMoves
  <2> QED BY <2>3, <2>4, <2>6 DEF TypeOK
<1>8. OpsOK'
  <2>1. Busy(t) /\ p_cb[d] # Null
    BY <1>1, ConstantsAssumption DEF Busy
  <2> QED BY <1>1, <1>5, <2>1, PlaceMoves
<1>9. Apart' /\ HandlesOK'
  <2>1. \A u \in Thread : /\ Busy(u)' => Busy(u)
                          /\ op'[u].dst = op[u].dst /\ op'[u].src = op[u].src
                          /\ op'[u].kind = op[u].kind
    BY <1>1, <1>6 DEF Busy
  <2> QED BY <1>5, <2>1 DEF PtrInv, Apart, HandlesOK
<1>10. CountsOwners'
  <2>1. \A c \in Block : Counted(c)' = IF c = b THEN Counted(b) \ {d} ELSE Counted(c)
    BY <1>1, <1>2, <1>5, <1>6 DEF Counted, Busy
  <2> QED BY <1>3, <1>6, <2>1, OwnerMoves
<1>11. PointsToLiving'
  <2>1. \A h \in alive : Settled(h)' => Settled(h)
    BY <1>1, <1>6 DEF Settled
  <2>2. \A c \in Block : block'[c].mem = block[c].mem /\ block'[c].obj = block[c].obj
    BY <1>3, <1>6
  <2> QED BY <1>5, <2>1, <2>2, LivingKept
<1>12. DeletesAlone'
  <2>1. \A u \in Thread : op[u].pc = "delete" => p_cb[op[u].dst] # b /\ u # t
    BY <1>1, <1>4 DEF PtrInv, DeletesAlone
  <2>2. \A u \in Thread : op'[u].pc = "delete" /\ u # t =>
          /\ op[u].pc = "delete" /\ op'[u].dst = op[u].dst /\ op[u].dst \in Handle
          /\ p_cb[op[u].dst] \in Block
    BY <1>6 DEF PtrInv, OpsOK, TypeOK, Busy
  <2>3. place = "delete" => block'[b].mem = "live" /\ block'[b].count = 0
    BY <1>4, <1>5, <1>6
  <2>4. \A u \in Thread : op'[u].pc = "delete" =>
          block'[p_cb[op'[u].dst]].mem = "live" /\ block'[p_cb[op'[u].dst]].count = 0
    BY <1>1, <1>6, <2>1, <2>2, <2>3 DEF PtrInv, DeletesAlone
  <2>5. \A u, v \in Thread : op'[u].pc = "delete" /\ op'[v].pc = "delete" /\ u # v =>
          p_cb[op'[u].dst] # p_cb[op'[v].dst]
    BY <1>1, <1>6, <2>1, <2>2 DEF PtrInv, DeletesAlone
  <2> QED BY <1>5, <2>4, <2>5 DEF DeletesAlone
<1>13. Needed'
  <2> SUFFICES ASSUME NEW c \in Block, block'[c].mem = "live"
               PROVE  \/ block'[c].count > 0
                      \/ \E u \in Thread : op'[u].pc = "delete" /\ p_cb'[op'[u].dst] = c
    BY DEF Needed
  <2>1. CASE c = b /\ block[b].count = 1
    BY <1>1, <1>5, <1>6, <2>1
  <2>2. CASE c = b /\ block[b].count # 1
    BY <1>4, <1>6, <2>2
  <2>3. CASE c # b
    BY <1>1, <1>5, <1>6, <2>3 DEF PtrInv, Needed
  <2> QED BY <2>1, <2>2, <2>3
<1> QED BY <1>7, <1>8, <1>9, <1>10, <1>11, <1>12, <1>13 DEF PtrInv

\* The last owner deletes the object and the block.
LEMMA DeleteStep ==
  ASSUME PtrInv, NEW t \in Thread, Delete(t)
  PROVE  PtrInv'
<1>1. PICK d \in Handle, b \in Block :
        /\ d = op[t].dst /\ b = p_cb[d] /\ op[t].pc = "delete" /\ d \in alive
        /\ block[b].mem = "live" /\ block[b].count = 0
  BY DEF Delete, At, PtrInv, TypeOK, OpsOK, Busy, DeletesAlone
<1>2. /\ block' = [block EXCEPT ![b].mem = "freed", ![b].obj = IF @ = "alive" THEN "deleted" ELSE @]
      /\ op' = [op EXCEPT ![t].pc = "write"]
      /\ UNCHANGED <<alive, broken, p_obj, p_cb>>
  BY <1>1 DEF Delete, Goto
<1>3. /\ op'[t].pc = "write" /\ op'[t].dst = d /\ op'[t].kind = op[t].kind /\ op'[t].src = op[t].src
      /\ \A u \in Thread : u # t => op'[u] = op[u]
      /\ block'[b].mem = "freed" /\ block'[b].count = 0
      /\ \A c \in Block : c # b => block'[c] = block[c]
  <2>1. Busy(t) /\ p_cb[d] # Null
    BY <1>1, ConstantsAssumption DEF Busy
  <2>2. /\ op'[t].pc = "write" /\ op'[t].dst = d /\ op'[t].kind = op[t].kind
        /\ op'[t].src = op[t].src /\ \A u \in Thread : u # t => op'[u] = op[u]
    BY <1>1, <1>2, <2>1, PlaceMoves
  <2>3. block \in Blocks
    BY DEF PtrInv, TypeOK
  <2>4. /\ block'[b].mem = "freed" /\ block'[b].count = 0
        /\ \A c \in Block : c # b => block'[c] = block[c]
    BY <1>1, <1>2, <2>3
  <2> QED BY <2>2, <2>4
\* Every handle that still points to the block was released: a copy that is not
\* counted yet has a source that is.
<1>4. \A h \in alive : p_cb[h] = b => ~Settled(h)
  <2> SUFFICES ASSUME NEW h \in alive, p_cb[h] = b, Settled(h) PROVE FALSE
    OBVIOUS
  <2>1. Counted(b) = {}
    BY <1>1, OwnedIsCounted
  <2>2. PICK u \in Thread : op[u].pc = "addref" /\ op[u].dst = h
    BY <2>1 DEF Counted, Settled
  <2>3. op[u].src \in alive /\ p_cb[op[u].src] = b /\ op[u].src # op[u].dst /\ Busy(u)
    BY <2>2 DEF PtrInv, OpsOK, Busy
  <2>4. \A v \in Thread : op[v].pc \in {"delete", "write", "addref"} => op[v].dst # op[u].src
    BY <2>2, <2>3, Mine DEF Busy
  <2> QED BY <2>1, <2>3, <2>4 DEF Counted
<1>5. TypeOK'
  <2>1. block \in Blocks
    BY DEF PtrInv, TypeOK
  <2>2. block' \in Blocks
    <3>1. CASE block[b].obj = "alive"
      BY <1>2, <2>1, <3>1
    <3>2. CASE block[b].obj # "alive"
      BY <1>2, <2>1, <3>2
    <3> QED BY <3>1, <3>2
  <2>3. op' = [op EXCEPT ![t].pc = "write"] /\ UNCHANGED <<alive, broken, p_obj, p_cb>>
    BY <1>2
  <2>4. op' \in Ops
    <3>1. Busy(t) /\ p_cb[d] # Null
      BY <1>1, ConstantsAssumption DEF Busy
    <3> QED BY <1>1, <1>2, <3>1, PlaceMoves
  <2>5. /\ alive' \in SUBSET Handle /\ broken' \in SUBSET Handle
        /\ p_obj' \in [Handle -> Block \cup {Null}] /\ p_cb' \in [Handle -> Block \cup {Null}]
    BY <2>3 DEF PtrInv, TypeOK
  <2> QED BY <2>2, <2>4, <2>5 DEF TypeOK
<1>6. OpsOK'
  <2>1. Busy(t) /\ p_cb[d] # Null
    BY <1>1, ConstantsAssumption DEF Busy
  <2> QED BY <1>1, <1>2, <2>1, PlaceMoves
<1>7. Apart' /\ HandlesOK'
  <2>1. \A u \in Thread : /\ Busy(u)' => Busy(u)
                          /\ op'[u].dst = op[u].dst /\ op'[u].src = op[u].src
                          /\ op'[u].kind = op[u].kind
    BY <1>1, <1>3 DEF Busy
  <2> QED BY <1>2, <2>1 DEF PtrInv, Apart, HandlesOK
<1>8. CountsOwners'
  <2>1. \A h, u : u \in Thread =>
          ((op[u].pc \in {"delete", "write", "addref"} => op[u].dst # h)' <=>
             (op[u].pc \in {"delete", "write", "addref"} => op[u].dst # h))
    BY <1>1, <1>3
  <2>2. \A c \in Block : Counted(c)' = Counted(c)
    BY <1>2, <2>1 DEF Counted
  <2> QED BY <1>1, <1>3, <2>2, OwnersKept
<1>9. PointsToLiving'
  <2> SUFFICES ASSUME NEW h \in alive, Settled(h)' PROVE PointsOK(h)'
    BY <1>2 DEF PointsToLiving
  <2>1. Settled(h)
    BY <1>1, <1>3 DEF Settled
  <2>2. PointsOK(h) /\ p_cb[h] # b
    BY <1>4, <2>1 DEF PtrInv, PointsToLiving
  <2>3. p_obj[h] # b
    BY <1>1, <2>2, ConstantsAssumption DEF PointsOK
  <2>4. p_cb[h] \in Block \cup {Null} /\ p_obj[h] \in Block \cup {Null}
    BY DEF PtrInv, TypeOK
  <2>5. /\ p_cb[h] # Null => block'[p_cb[h]] = block[p_cb[h]]
        /\ p_obj[h] # Null => block'[p_obj[h]] = block[p_obj[h]]
    BY <1>3, <2>2, <2>3, <2>4
  <2>6. p_cb' = p_cb /\ p_obj' = p_obj
    BY <1>2
  <2> QED BY <2>2, <2>5, <2>6 DEF PointsOK
<1>10. DeletesAlone'
  <2>1. \A u \in Thread : op'[u].pc = "delete" =>
          /\ u # t /\ op[u].pc = "delete" /\ op'[u].dst = op[u].dst
          /\ p_cb[op[u].dst] # b /\ p_cb[op[u].dst] \in Block
    BY <1>1, <1>3 DEF PtrInv, TypeOK, OpsOK, DeletesAlone, Busy
  <2>2. \A u \in Thread : op'[u].pc = "delete" =>
          block'[p_cb[op'[u].dst]].mem = "live" /\ block'[p_cb[op'[u].dst]].count = 0
    BY <1>3, <2>1 DEF PtrInv, DeletesAlone
  <2>3. \A u, v \in Thread : op'[u].pc = "delete" /\ op'[v].pc = "delete" /\ u # v =>
          p_cb[op'[u].dst] # p_cb[op'[v].dst]
    BY <2>1 DEF PtrInv, DeletesAlone
  <2>4. p_cb' = p_cb
    BY <1>2
  <2> QED BY <2>2, <2>3, <2>4 DEF DeletesAlone
<1>11. Needed'
  <2> SUFFICES ASSUME NEW c \in Block, block'[c].mem = "live"
               PROVE  \/ block'[c].count > 0
                      \/ \E u \in Thread : op'[u].pc = "delete" /\ p_cb[op'[u].dst] = c
    BY <1>2 DEF Needed
  <2>1. c # b /\ block'[c] = block[c]
    BY <1>3
  <2>2. CASE block[c].count > 0
    BY <2>1, <2>2
  <2>3. CASE \E u \in Thread : op[u].pc = "delete" /\ p_cb[op[u].dst] = c
    BY <1>1, <1>3, <2>1, <2>3
  <2> QED BY <2>1, <2>2, <2>3 DEF PtrInv, Needed
<1> QED BY <1>5, <1>6, <1>7, <1>8, <1>9, <1>10, <1>11 DEF PtrInv

\* A thread that is done with its member function leaves the others alone.
LEMMA DoneKeeps ==
  ASSUME PtrInv, NEW t \in Thread, Done(t)
  PROVE  /\ op'[t] = NoOp /\ op'[t].pc = "idle"
         /\ \A u \in Thread : u # t => op'[u] = op[u]
         /\ Apart'
         /\ op' \in Ops
<1>1. /\ op'[t] = NoOp /\ op'[t].pc = "idle"
      /\ \A u \in Thread : u # t => op'[u] = op[u]
      /\ op' \in Ops
  BY DEF Done, NoOp, PtrInv, TypeOK
<1>2. Apart'
  BY <1>1 DEF PtrInv, Apart, Busy
<1> QED BY <1>1, <1>2

\* What the others rely on is kept by a step that leaves their handles alone.
LEMMA OthersRelyOn ==
  ASSUME PtrInv, NEW t \in Thread, op'[t] = NoOp, op'[t].pc = "idle",
         \A u \in Thread : u # t => op'[u] = op[u],
         NEW d \in Handle,
         \A u \in Thread : u # t /\ Busy(u) =>
           /\ op[u].dst # d /\ op[u].src # d
           /\ p_cb'[op[u].dst] = p_cb[op[u].dst]
           /\ op[u].kind \in {"copy", "move"} => p_cb'[op[u].src] = p_cb[op[u].src],
         \A h \in Handle : h # d => (h \in alive => h \in alive') /\ (h \in broken' => h \in broken)
  PROVE  OpsOK'
<1> SUFFICES ASSUME NEW u \in Thread, u # t
             PROVE  /\ ~Busy(u)' <=> op'[u] = NoOp
                    /\ Busy(u)' =>
                         /\ op'[u].kind \in Kinds /\ op'[u].dst \in Handle /\ op'[u].dst \notin broken'
                         /\ IF op'[u].kind \in {"copy", "move"}
                            THEN op'[u].src \in alive' /\ op'[u].src # op'[u].dst
                            ELSE op'[u].src = Null /\ op'[u].dst \in alive'
                    /\ op'[u].pc \in {"release", "delete"} =>
                         op'[u].dst \in alive' /\ p_cb'[op'[u].dst] # Null
                    /\ op'[u].pc = "addref" =>
                         /\ op'[u].kind = "copy" /\ op'[u].dst \in alive'
                         /\ p_cb'[op'[u].dst] # Null /\ p_cb'[op'[u].dst] = p_cb'[op'[u].src]
  BY DEF OpsOK, Busy, NoOp
<1>1. op'[u] = op[u] /\ (Busy(u)' <=> Busy(u)) /\ (~Busy(u) <=> op[u] = NoOp)
  BY DEF PtrInv, OpsOK, Busy
<1>2. CASE ~Busy(u)
  BY <1>1, <1>2 DEF Busy
<1>3. CASE Busy(u)
  <2>1. /\ op[u].kind \in Kinds /\ op[u].dst \in Handle /\ op[u].dst \notin broken'
        /\ op[u].dst \in alive => op[u].dst \in alive'
    BY <1>3 DEF PtrInv, OpsOK
  <2>2. IF op[u].kind \in {"copy", "move"}
        THEN op[u].src \in alive' /\ op[u].src # op[u].dst
        ELSE op[u].src = Null /\ op[u].dst \in alive'
    BY <1>3, <2>1 DEF PtrInv, OpsOK, TypeOK
  <2>3. op[u].pc \in {"release", "delete"} => op[u].dst \in alive' /\ p_cb'[op[u].dst] # Null
    BY <1>3, <2>1 DEF PtrInv, OpsOK
  <2>4. op[u].pc = "addref" =>
          /\ op[u].kind = "copy" /\ op[u].dst \in alive'
          /\ p_cb'[op[u].dst] # Null /\ p_cb'[op[u].dst] = p_cb'[op[u].src]
    BY <1>3, <2>1 DEF PtrInv, OpsOK
  <2> QED BY <1>1, <1>3, <2>1, <2>2, <2>3, <2>4
<1> QED BY <1>2, <1>3

\* A copy points to the block before it is counted.
LEMMA WriteCopyStep ==
  ASSUME PtrInv, NEW t \in Thread, WriteCopy(t)
  PROVE  PtrInv'
<1>1. op[t].pc = "write" /\ op[t].kind = "copy" /\ Busy(t)
  BY DEF WriteCopy, Writing, At, Busy
<1>2. PICK d \in Handle, s \in Handle :
        /\ d = op[t].dst /\ s = op[t].src /\ d \notin broken /\ s \in alive /\ s # d /\ Settled(s)
        /\ \A u \in Thread : u # t /\ Busy(u) => op[u].dst # d /\ op[u].src # d /\ op[u].dst # s
  BY <1>1, Mine
<1>3. /\ p_obj' = [p_obj EXCEPT ![d] = p_obj[s]] /\ p_cb' = [p_cb EXCEPT ![d] = p_cb[s]]
      /\ alive' = alive \cup {d} /\ UNCHANGED <<block, broken>>
      /\ IF p_cb[s] # Null THEN Goto(t, "addref") ELSE Done(t)
  BY <1>2 DEF WriteCopy
<1>4. /\ p_cb'[d] = p_cb[s] /\ p_obj'[d] = p_obj[s]
      /\ \A h \in Handle : h # d => p_cb'[h] = p_cb[h] /\ p_obj'[h] = p_obj[h]
      /\ alive \subseteq Handle /\ broken \subseteq Handle
  BY <1>3 DEF PtrInv, TypeOK
<1>5. /\ \A u \in Thread : u # t => op'[u] = op[u]
      /\ p_cb[s] = Null => op'[t] = NoOp /\ op'[t].pc = "idle"
      /\ p_cb[s] # Null => op'[t].pc = "addref" /\ op'[t].kind = "copy" /\ op'[t].dst = d /\ op'[t].src = s
      /\ op' \in Ops
  <2>1. CASE p_cb[s] = Null
    BY <1>3, <2>1, DoneKeeps
  <2>2. CASE p_cb[s] # Null
    <3>1. op' = [op EXCEPT ![t].pc = "addref"]
      BY <1>3, <2>2 DEF Goto
    <3>2. op \in Ops
      BY DEF PtrInv, TypeOK
    <3> QED BY <1>1, <1>2, <2>2, <3>1, <3>2
  <2> QED BY <2>1, <2>2
<1>6. TypeOK'
  <2>1. p_cb[s] \in Block \cup {Null} /\ p_obj[s] \in Block \cup {Null}
    BY DEF PtrInv, TypeOK
  <2> QED BY <1>3, <1>5, <2>1 DEF PtrInv, TypeOK
<1>7. OpsOK'
  <2> SUFFICES ASSUME NEW u \in Thread
               PROVE  /\ ~Busy(u)' <=> op'[u] = NoOp
                      /\ Busy(u)' =>
                           /\ op'[u].kind \in Kinds /\ op'[u].dst \in Handle /\ op'[u].dst \notin broken
                           /\ IF op'[u].kind \in {"copy", "move"}
                              THEN op'[u].src \in alive' /\ op'[u].src # op'[u].dst
                              ELSE op'[u].src = Null /\ op'[u].dst \in alive'
                      /\ op'[u].pc \in {"release", "delete"} =>
                           op'[u].dst \in alive' /\ p_cb'[op'[u].dst] # Null
                      /\ op'[u].pc = "addref" =>
                           /\ op'[u].kind = "copy" /\ op'[u].dst \in alive'
                           /\ p_cb'[op'[u].dst] # Null /\ p_cb'[op'[u].dst] = p_cb'[op'[u].src]
    BY <1>3 DEF OpsOK, NoOp
  <2>1. CASE u = t
    BY <1>2, <1>3, <1>4, <1>5, <2>1 DEF Busy, NoOp, Kinds
  <2>2. CASE u # t
    BY <1>2, <1>3, <1>4, <1>5, <2>2 DEF PtrInv, OpsOK, Busy
  <2> QED BY <2>1, <2>2
<1>8. Apart'
  <2>1. \A u \in Thread : Busy(u)' => /\ Busy(u)
                          /\ op'[u].dst = op[u].dst /\ op'[u].src = op[u].src
                          /\ op'[u].kind = op[u].kind
    BY <1>1, <1>2, <1>5 DEF Busy
  <2> QED BY <2>1 DEF PtrInv, Apart
<1>9. HandlesOK'
  BY <1>2, <1>3, <1>4 DEF PtrInv, HandlesOK
<1>10. CountsOwners'
  <2>1. \A b \in Block : b # Null
    BY ConstantsAssumption
  <2>2. ASSUME NEW b \in Block PROVE Counted(b)' = Counted(b)
    <3>1. ASSUME NEW h \in Handle, h # d PROVE h \in Counted(b)' <=> h \in Counted(b)
      BY <1>1, <1>2, <1>3, <1>4, <1>5, <3>1 DEF Counted, Busy
    <3>2. d \notin Counted(b)
      BY <1>1, <1>2 DEF Counted
    <3>3. d \notin Counted(b)'
      BY <1>4, <1>5, <2>1 DEF Counted
    <3>4. Counted(b) \subseteq Handle /\ Counted(b)' \subseteq Handle
      BY <1>3, <1>4 DEF Counted
    <3> QED BY <3>1, <3>2, <3>3, <3>4
  <2> QED BY <1>3, <2>2, OwnersKept
<1>11. PointsToLiving'
  <2>1. \A h \in alive' : Settled(h)' =>
          \E g \in alive : Settled(g) /\ p_cb'[h] = p_cb[g] /\ p_obj'[h] = p_obj[g]
    <3>1. ASSUME NEW h \in alive, h # d, Settled(h)' PROVE Settled(h)
      BY <1>2, <1>5, <3>1 DEF Settled
    <3> QED BY <1>2, <1>3, <1>4, <3>1
  <2> QED BY <1>3, <2>1, LivingKept
<1>12. DeletesAlone' /\ Needed'
  <2>1. op[t].pc # "delete" /\ op'[t].pc # "delete"
    BY <1>1, <1>5
  <2>2. \A u \in Thread : op[u].pc = "delete" => p_cb'[op[u].dst] = p_cb[op[u].dst]
    BY <1>2, <1>4, <2>1 DEF PtrInv, OpsOK, Busy
  <2> QED BY <1>3, <1>5, <2>1, <2>2, DeletersKept
<1> QED BY <1>6, <1>7, <1>8, <1>9, <1>10, <1>11, <1>12 DEF PtrInv

\* add_ref() makes the copy an owner.
LEMMA AddRefStep ==
  ASSUME PtrInv, NEW t \in Thread, AddRef(t)
  PROVE  PtrInv'
<1>1. PICK d \in Handle, b \in Block :
        /\ d = op[t].dst /\ b = p_cb[d] /\ op[t].pc = "addref" /\ Busy(t) /\ d \in alive
        /\ op[t].kind = "copy" /\ p_cb[op[t].src] = b
  BY DEF AddRef, At, PtrInv, TypeOK, OpsOK, Busy
<1>2. /\ block' = [block EXCEPT ![b].count = @ + 1] /\ Done(t)
      /\ UNCHANGED <<alive, broken, p_obj, p_cb>>
  BY <1>1 DEF AddRef
<1>3. /\ op'[t] = NoOp /\ op'[t].pc = "idle" /\ Apart'
      /\ \A u \in Thread : u # t => op'[u] = op[u]
      /\ op' \in Ops
  BY <1>2, DoneKeeps
<1>4. \A u \in Thread : u # t /\ Busy(u) => op[u].dst # d /\ op[u].dst # op[t].src
  BY <1>1, Mine
\* The source owns a reference all the while.
<1>5. op[t].src \in Counted(b) /\ block[b].count \in Nat /\ block[b].count >= 1
  <2>1. op[t].src \in alive /\ op[t].src # d
    BY <1>1, Mine
  <2>2. op[t].src \in Counted(b)
    BY <1>1, <1>4, <2>1 DEF Counted, Busy
  <2> QED BY <2>2, OwnedIsCounted
<1>6. /\ block'[b].mem = block[b].mem /\ block'[b].obj = block[b].obj
      /\ block'[b].count = block[b].count + 1
      /\ \A c \in Block : c # b => block'[c] = block[c]
  BY <1>2 DEF PtrInv, TypeOK
<1>7. TypeOK'
  <2>1. block' \in Blocks
    BY <1>2 DEF PtrInv, TypeOK
  <2> QED BY <1>2, <1>3, <2>1 DEF PtrInv, TypeOK
<1>8. OpsOK' /\ HandlesOK'
  BY <1>2, <1>3 DEF PtrInv, OpsOK, HandlesOK, Busy
<1>9. CountsOwners'
  <2>1. d \notin Counted(b)
    BY <1>1 DEF Counted
  <2>2. Counted(b)' = Counted(b) \cup {d}
    BY <1>1, <1>2, <1>3, <1>4 DEF Counted, Busy
  <2>3. \A c \in Block : c # b => Counted(c)' = Counted(c)
    BY <1>1, <1>2, <1>3 DEF Counted
  <2> QED BY <1>6, <2>1, <2>2, <2>3, OwnerMoves
<1>10. PointsToLiving'
  <2>1. \A h \in alive : Settled(h)' => Settled(h)
    BY <1>1, <1>3 DEF Settled
  <2>2. \A c \in Block : block'[c].mem = block[c].mem /\ block'[c].obj = block[c].obj
    BY <1>6
  <2> QED BY <1>2, <2>1, <2>2, LivingKept
<1>11. DeletesAlone' /\ Needed'
  <2>1. \A u \in Thread : op[u].pc = "delete" =>
          p_cb[op[u].dst] \in Block /\ p_cb[op[u].dst] # b
    BY <1>5 DEF PtrInv, TypeOK, OpsOK, DeletesAlone, Busy
  <2>2. block'[b].count > 0
    BY <1>5, <1>6
  <2> QED BY <1>1, <1>2, <1>3, <1>6, <2>1, <2>2, DeletersKept
<1> QED BY <1>3, <1>7, <1>8, <1>9, <1>10, <1>11 DEF PtrInv

\* A move hands the reference over.
LEMMA WriteMoveStep ==
  ASSUME PtrInv, NEW t \in Thread, WriteMove(t)
  PROVE  PtrInv'
<1>1. op[t].pc = "write" /\ op[t].kind = "move" /\ Busy(t)
  BY DEF WriteMove, Writing, At, Busy
<1>2. PICK d \in Handle, s \in Handle :
        /\ d = op[t].dst /\ s = op[t].src /\ d \notin broken /\ s \in alive /\ s # d /\ Settled(s)
        /\ \A u \in Thread : u # t /\ Busy(u) =>
             op[u].dst # d /\ op[u].src # d /\ op[u].dst # s /\ op[u].src # s
  BY <1>1, Mine
<1>3. /\ p_obj' = [p_obj EXCEPT ![d] = p_obj[s], ![s] = Null]
      /\ p_cb' = [p_cb EXCEPT ![d] = p_cb[s], ![s] = Null]
      /\ alive' = alive \cup {d} /\ Done(t) /\ UNCHANGED <<block, broken>>
  BY <1>2 DEF WriteMove
<1>4. /\ p_cb'[d] = p_cb[s] /\ p_obj'[d] = p_obj[s] /\ p_cb'[s] = Null /\ p_obj'[s] = Null
      /\ \A h \in Handle : h # d /\ h # s => p_cb'[h] = p_cb[h] /\ p_obj'[h] = p_obj[h]
      /\ alive \subseteq Handle /\ broken \subseteq Handle
      /\ p_cb[s] \in Block \cup {Null} /\ p_obj[s] \in Block \cup {Null}
  BY <1>2, <1>3 DEF PtrInv, TypeOK
<1>5. /\ op'[t] = NoOp /\ op'[t].pc = "idle" /\ Apart'
      /\ \A u \in Thread : u # t => op'[u] = op[u]
      /\ op' \in Ops
  BY <1>3, DoneKeeps
<1>6. TypeOK'
  BY <1>3, <1>4, <1>5 DEF PtrInv, TypeOK
<1>7. OpsOK'
  <2>1. \A u \in Thread : u # t /\ Busy(u) =>
          /\ p_cb'[op[u].dst] = p_cb[op[u].dst]
          /\ op[u].kind \in {"copy", "move"} => p_cb'[op[u].src] = p_cb[op[u].src]
    BY <1>2, <1>4 DEF PtrInv, OpsOK
  <2>2. \A h \in Handle : h # d => (h \in alive => h \in alive') /\ (h \in broken' => h \in broken)
    BY <1>3
  <2>3. \A u \in Thread : u # t /\ Busy(u) => op[u].dst # d /\ op[u].src # d
    BY <1>2
  <2> QED BY <1>5, <2>1, <2>2, <2>3, OthersRelyOn
<1>8. HandlesOK'
  BY <1>2, <1>3, <1>4 DEF PtrInv, HandlesOK
<1>9. CountsOwners'
  <2>1. \A b \in Block : b # Null
    BY ConstantsAssumption
  <2>2. \A b \in Block : d \notin Counted(b) /\ s \notin Counted(b)'
    BY <1>1, <1>2, <1>4, <2>1 DEF Counted
  <2>3. \A b \in Block : s \in Counted(b) <=> p_cb[s] = b
    BY <1>1, <1>2 DEF Counted, Busy
  <2>4. \A b \in Block : d \in Counted(b)' <=> p_cb[s] = b
    BY <1>2, <1>3, <1>4, <1>5 DEF Counted, Busy
  <2>5. ASSUME NEW b \in Block, NEW h \in Handle, h # d, h # s
        PROVE  h \in Counted(b)' <=> h \in Counted(b)
    <3>1. (h \in alive' <=> h \in alive) /\ p_cb'[h] = p_cb[h]
      BY <1>3, <1>4, <2>5
    <3>2. \A u \in Thread :
            (op'[u].pc \in {"delete", "write", "addref"} => op'[u].dst # h)
            <=> (op[u].pc \in {"delete", "write", "addref"} => op[u].dst # h)
      BY <1>1, <1>2, <1>5, <2>5
    <3> QED BY <3>1, <3>2 DEF Counted
  <2>6. \A b \in Block : Counted(b) \subseteq Handle /\ Counted(b)' \subseteq Handle
    BY <1>3, <1>4 DEF Counted
  <2>7. ASSUME NEW b \in Block PROVE block'[b].count = Cardinality(Counted(b)')
    <3>1. CASE p_cb[s] = b
      <4>1. Counted(b)' = (Counted(b) \ {s}) \cup {d} /\ s \in Counted(b) /\ d \notin Counted(b)
        BY <2>2, <2>3, <2>4, <2>5, <2>6, <3>1
      <4> DEFINE rest == Counted(b) \ {s}
      <4>2. rest \subseteq Handle /\ d \notin rest /\ Counted(b) \subseteq Handle
        BY <2>2, <2>6
      <4>3. /\ Cardinality(rest) = Cardinality(Counted(b)) - 1 /\ Cardinality(Counted(b)) \in Nat
            /\ Cardinality(rest) \in Nat
        BY <4>1, <4>2, OwnerSets
      <4>4. Cardinality(rest \cup {d}) = Cardinality(rest) + 1
        BY <4>2, OwnerSets
      <4> QED BY <1>3, <4>1, <4>3, <4>4 DEF PtrInv, CountsOwners
    <3>2. CASE p_cb[s] # b
      <4>1. Counted(b)' = Counted(b)
        BY <2>2, <2>3, <2>4, <2>5, <2>6, <3>2
      <4> QED BY <1>3, <4>1 DEF PtrInv, CountsOwners
    <3> QED BY <3>1, <3>2
  <2> QED BY <2>7 DEF CountsOwners
<1>10. PointsToLiving'
  <2>1. \A h \in alive' : Settled(h)' =>
          \/ \E g \in alive : Settled(g) /\ p_cb'[h] = p_cb[g] /\ p_obj'[h] = p_obj[g]
          \/ PointsOK(h)'
    <3>1. ASSUME NEW h \in alive, h # d, Settled(h)' PROVE Settled(h)
      BY <1>2, <1>5, <3>1 DEF Settled
    <3>2. PointsOK(s)'
      BY <1>4 DEF PointsOK
    <3> QED BY <1>2, <1>3, <1>4, <3>1, <3>2
  <2> QED BY <1>3, <2>1, LivingKept
<1>11. DeletesAlone' /\ Needed'
  <2>1. op[t].pc # "delete" /\ op'[t].pc # "delete"
    BY <1>1, <1>5
  <2>2. \A u \in Thread : op[u].pc = "delete" => p_cb'[op[u].dst] = p_cb[op[u].dst]
    BY <1>2, <1>4, <2>1 DEF PtrInv, OpsOK, Busy
  <2> QED BY <1>3, <1>5, <2>1, <2>2, DeletersKept
<1> QED BY <1>5, <1>6, <1>7, <1>8, <1>9, <1>10, <1>11 DEF PtrInv

\* A handle that was released becomes null, or is destroyed.
LEMMA WriteNullStep ==
  ASSUME PtrInv, NEW t \in Thread, WriteNull(t)
  PROVE  PtrInv'
<1>1. op[t].pc = "write" /\ op[t].kind \notin {"copy", "move"} /\ Busy(t)
  BY DEF WriteNull, Writing, At, Busy
<1>2. PICK d \in Handle :
        /\ d = op[t].dst /\ d \notin broken /\ d \in alive
        /\ \A u \in Thread : u # t /\ Busy(u) => op[u].dst # d /\ op[u].src # d
  BY <1>1, Mine
<1>3. /\ p_obj' = [p_obj EXCEPT ![d] = Null] /\ p_cb' = [p_cb EXCEPT ![d] = Null]
      /\ alive' \in {alive, alive \ {d}} /\ Done(t) /\ UNCHANGED <<block, broken>>
  BY <1>2 DEF WriteNull
<1>4. /\ p_cb'[d] = Null /\ p_obj'[d] = Null
      /\ \A h \in Handle : h # d => p_cb'[h] = p_cb[h] /\ p_obj'[h] = p_obj[h]
      /\ alive \subseteq Handle /\ broken \subseteq Handle
      /\ alive' \subseteq alive /\ \A h \in alive : h # d => h \in alive'
  BY <1>2, <1>3 DEF PtrInv, TypeOK
<1>5. /\ op'[t] = NoOp /\ op'[t].pc = "idle" /\ Apart'
      /\ \A u \in Thread : u # t => op'[u] = op[u]
      /\ op' \in Ops
  BY <1>3, DoneKeeps
<1>6. TypeOK'
  BY <1>3, <1>4, <1>5 DEF PtrInv, TypeOK
<1>7. OpsOK'
  BY <1>2, <1>3, <1>4, <1>5 DEF PtrInv, OpsOK, Busy
<1>8. HandlesOK'
  BY <1>2, <1>3, <1>4 DEF PtrInv, HandlesOK
<1>9. CountsOwners'
  <2>1. \A b \in Block : b # Null
    BY ConstantsAssumption
  <2>2. \A b \in Block : d \notin Counted(b) /\ d \notin Counted(b)'
    BY <1>1, <1>2, <1>4, <2>1 DEF Counted
  <2>3. ASSUME NEW b \in Block, NEW h \in Handle, h # d
        PROVE  h \in Counted(b)' <=> h \in Counted(b)
    BY <1>1, <1>2, <1>4, <1>5, <2>3 DEF Counted, Busy
  <2>4. \A b \in Block : Counted(b) \subseteq Handle /\ Counted(b)' \subseteq Handle
    BY <1>4 DEF Counted
  <2>5. \A b \in Block : Counted(b)' = Counted(b)
    BY <2>2, <2>3, <2>4
  <2> QED BY <1>3, <2>5, OwnersKept
<1>10. PointsToLiving'
  <2>1. \A h \in alive' : Settled(h)' =>
          \/ \E g \in alive : Settled(g) /\ p_cb'[h] = p_cb[g] /\ p_obj'[h] = p_obj[g]
          \/ PointsOK(h)'
    <3>1. ASSUME NEW h \in alive, h # d, Settled(h)' PROVE Settled(h)
      BY <1>2, <1>5, <3>1 DEF Settled
    <3>2. PointsOK(d)'
      BY <1>4 DEF PointsOK
    <3> QED BY <1>4, <3>1, <3>2
  <2> QED BY <1>3, <2>1, LivingKept
<1>11. DeletesAlone' /\ Needed'
  <2>1. op[t].pc # "delete" /\ op'[t].pc # "delete"
    BY <1>1, <1>5
  <2>2. \A u \in Thread : op[u].pc = "delete" => p_cb'[op[u].dst] = p_cb[op[u].dst]
    BY <1>2, <1>4, <2>1 DEF PtrInv, OpsOK, Busy
  <2> QED BY <1>3, <1>5, <2>1, <2>2, DeletersKept
<1> QED BY <1>5, <1>6, <1>7, <1>8, <1>9, <1>10, <1>11 DEF PtrInv

\* reset(pointer, d) makes the only owner of a new block.
LEMMA WriteNewStep ==
  ASSUME PtrInv, NEW t \in Thread, NEW b \in Block, WriteNew(t, b)
  PROVE  PtrInv'
<1>1. op[t].pc = "write" /\ op[t].kind \notin {"copy", "move"} /\ Busy(t)
  BY DEF WriteNew, Writing, At, Busy
<1>2. PICK d \in Handle :
        /\ d = op[t].dst /\ d \notin broken /\ d \in alive
        /\ \A u \in Thread : u # t /\ Busy(u) => op[u].dst # d /\ op[u].src # d
  BY <1>1, Mine
<1>3. /\ p_obj' = [p_obj EXCEPT ![d] = b] /\ p_cb' = [p_cb EXCEPT ![d] = b]
      /\ block[b].mem = "fresh"
      /\ block' = [block EXCEPT ![b] = [mem |-> "live", count |-> 1, obj |-> "alive"]]
      /\ Done(t) /\ UNCHANGED <<alive, broken>>
  BY <1>2 DEF WriteNew, NewBlock
<1>4. /\ p_cb'[d] = b /\ p_obj'[d] = b
      /\ \A h \in Handle : h # d => p_cb'[h] = p_cb[h] /\ p_obj'[h] = p_obj[h]
      /\ alive \subseteq Handle /\ broken \subseteq Handle
      /\ block'[b].mem = "live" /\ block'[b].count = 1 /\ block'[b].obj = "alive"
      /\ \A c \in Block : c # b => block'[c] = block[c]
  BY <1>3 DEF PtrInv, TypeOK
<1>5. /\ op'[t] = NoOp /\ op'[t].pc = "idle" /\ Apart'
      /\ \A u \in Thread : u # t => op'[u] = op[u]
      /\ op' \in Ops
  BY <1>3, DoneKeeps
<1>6. TypeOK'
  BY <1>3, <1>5 DEF PtrInv, TypeOK
<1>7. OpsOK'
  <2>1. \A u \in Thread : u # t /\ Busy(u) =>
          /\ p_cb'[op[u].dst] = p_cb[op[u].dst]
          /\ op[u].kind \in {"copy", "move"} => p_cb'[op[u].src] = p_cb[op[u].src]
    BY <1>2, <1>4 DEF PtrInv, OpsOK
  <2> QED BY <1>2, <1>3, <1>5, <2>1, OthersRelyOn
<1>8. HandlesOK'
  BY <1>2, <1>3, <1>4 DEF PtrInv, HandlesOK
<1>9. Counted(b) = {} /\ block[b].count = 0
      /\ \A u \in Thread : op[u].pc = "delete" => p_cb[op[u].dst] # b
  BY <1>3, FreshUnowned
<1>10. CountsOwners'
  <2>1. \A c \in Block : d \notin Counted(c)
    BY <1>1, <1>2 DEF Counted
  <2>2. \A c \in Block : d \in Counted(c)' <=> c = b
    BY <1>2, <1>3, <1>4, <1>5 DEF Counted, Busy
  <2>3. ASSUME NEW c \in Block, NEW h \in Handle, h # d
        PROVE  h \in Counted(c)' <=> h \in Counted(c)
    <3>1. (h \in alive' <=> h \in alive) /\ p_cb'[h] = p_cb[h]
      BY <1>3, <1>4, <2>3
    <3>2. \A u \in Thread :
            (op'[u].pc \in {"delete", "write", "addref"} => op'[u].dst # h)
            <=> (op[u].pc \in {"delete", "write", "addref"} => op[u].dst # h)
      BY <1>1, <1>2, <1>5, <2>3
    <3> QED BY <3>1, <3>2 DEF Counted
  <2>4. \A c \in Block : Counted(c) \subseteq Handle /\ Counted(c)' \subseteq Handle
    BY <1>3, <1>4 DEF Counted
  <2>5. Counted(b)' = Counted(b) \cup {d} /\ \A c \in Block : c # b => Counted(c)' = Counted(c)
    BY <2>1, <2>2, <2>3, <2>4
  <2>6. block'[b].count = block[b].count + 1
    BY <1>4, <1>9
  <2> QED BY <1>4, <2>1, <2>5, <2>6, OwnerMoves
<1>11. PointsToLiving'
  <2>1. \A h \in alive' : Settled(h)' =>
          \/ \E g \in alive : Settled(g) /\ p_cb'[h] = p_cb[g] /\ p_obj'[h] = p_obj[g]
          \/ PointsOK(h)'
    <3>1. ASSUME NEW h \in alive, h # d, Settled(h)' PROVE Settled(h)
      BY <1>2, <1>5, <3>1 DEF Settled
    <3>2. PointsOK(d)'
      BY <1>4 DEF PointsOK
    <3> QED BY <1>3, <1>4, <3>1, <3>2
  <2>2. \A c \in Block : block[c].mem \in {"live", "failed"} =>
          block'[c].mem = block[c].mem /\ block'[c].obj = block[c].obj
    BY <1>3, <1>4
  <2> QED BY <2>1, <2>2, LivingKept
<1>12. DeletesAlone' /\ Needed'
  <2>1. op[t].pc # "delete" /\ op'[t].pc # "delete"
    BY <1>1, <1>5
  <2>2. \A u \in Thread : op[u].pc = "delete" =>
          /\ p_cb'[op[u].dst] = p_cb[op[u].dst]
          /\ block'[p_cb[op[u].dst]] = block[p_cb[op[u].dst]]
    BY <1>2, <1>4, <1>9, <2>1 DEF PtrInv, OpsOK, TypeOK, Busy
  <2>3. \A c \in Block : block'[c].mem = "live" =>
          block'[c].count > 0 \/ (block[c].mem = "live" /\ block'[c].count = block[c].count)
    BY <1>4
  <2> QED BY <1>5, <2>1, <2>2, <2>3, DeletersKept
<1> QED BY <1>5, <1>6, <1>7, <1>8, <1>10, <1>11, <1>12 DEF PtrInv

\* A reset that throws takes its handle out of use, unless it has no block, and
\* leaves the others alone.
LEMMA RenewThrowStep ==
  ASSUME PtrInv, NEW t \in Thread, NEW b \in Block, NEW copying \in BOOLEAN,
         RenewThrow(t, b, copying)
  PROVE  PtrInv'
<1>1. op[t].pc = "write" /\ op[t].kind \notin {"copy", "move"} /\ Busy(t)
  BY DEF RenewThrow, Writing, At, Busy
<1>2. PICK d \in Handle :
        /\ d = op[t].dst /\ d \notin broken /\ d \in alive
        /\ \A u \in Thread : u # t /\ Busy(u) => op[u].dst # d /\ op[u].src # d
  BY <1>1, Mine
<1>3. PICK cb \in Block \cup {Null} :
        /\ p_obj' = [p_obj EXCEPT ![d] = b] /\ p_cb' = [p_cb EXCEPT ![d] = cb]
        /\ block[b].mem = "fresh"
        /\ block' = [block EXCEPT ![b].mem = "failed", ![b].obj = "alive"]
        /\ cb # Null => alive' = alive \ {d} /\ broken' = broken \cup {d}
        /\ cb = Null => alive' = alive /\ broken' = broken
        /\ Done(t)
  <2>1. p_cb[d] \in Block \cup {Null}
    BY DEF PtrInv, TypeOK
  <2>2. CASE copying
    BY <1>2, <2>2, ConstantsAssumption DEF RenewThrow
  <2>3. CASE ~copying
    BY <1>2, <2>1, <2>3 DEF RenewThrow
  <2> QED BY <2>2, <2>3
<1>4. /\ p_cb'[d] = cb /\ p_obj'[d] = b
      /\ \A h \in Handle : h # d => p_cb'[h] = p_cb[h] /\ p_obj'[h] = p_obj[h]
      /\ alive \subseteq Handle /\ broken \subseteq Handle /\ alive' \subseteq alive
      /\ \A h \in Handle : h # d => (h \in alive' <=> h \in alive) /\ (h \in broken' <=> h \in broken)
      /\ d \in alive' => cb = Null /\ d \notin broken'
      /\ d \notin alive' => d \in broken'
      /\ block'[b].mem = "failed" /\ block'[b].count = block[b].count /\ block'[b].obj = "alive"
      /\ \A c \in Block : c # b => block'[c] = block[c]
  BY <1>2, <1>3 DEF PtrInv, TypeOK
<1>5. /\ op'[t] = NoOp /\ op'[t].pc = "idle" /\ Apart'
      /\ \A u \in Thread : u # t => op'[u] = op[u]
      /\ op' \in Ops
  BY <1>3, DoneKeeps
<1>6. TypeOK'
  <2>1. block' \in Blocks
    <3>1. block \in Blocks
      BY DEF PtrInv, TypeOK
    <3>2. block' = [block EXCEPT ![b].mem = "failed", ![b].obj = "alive"]
      BY <1>3
    <3> QED BY <3>1, <3>2
  <2>2. p_obj' \in [Handle -> Block \cup {Null}] /\ p_cb' \in [Handle -> Block \cup {Null}]
    BY <1>3 DEF PtrInv, TypeOK
  <2>3. alive' \in SUBSET Handle /\ broken' \in SUBSET Handle
    BY <1>3, <1>4
  <2> QED BY <1>5, <2>1, <2>2, <2>3 DEF TypeOK
<1>7. OpsOK'
  <2>1. \A u \in Thread : u # t /\ Busy(u) =>
          /\ p_cb'[op[u].dst] = p_cb[op[u].dst]
          /\ op[u].kind \in {"copy", "move"} => p_cb'[op[u].src] = p_cb[op[u].src]
    BY <1>2, <1>4 DEF PtrInv, OpsOK
  <2> QED BY <1>2, <1>4, <1>5, <2>1, OthersRelyOn
<1>8. HandlesOK'
  BY <1>2, <1>4 DEF PtrInv, HandlesOK
<1>9. /\ Counted(b) = {}
      /\ \A u \in Thread : op[u].pc = "delete" => p_cb[op[u].dst] # b
  BY <1>3, FreshUnowned
<1>10. CountsOwners'
  <2>1. \A c \in Block : d \notin Counted(c)
    BY <1>1, <1>2 DEF Counted
  <2>2. \A c \in Block : d \notin Counted(c)'
    BY <1>4, ConstantsAssumption DEF Counted
  <2>3. ASSUME NEW c \in Block, NEW h \in Handle, h # d
        PROVE  h \in Counted(c)' <=> h \in Counted(c)
    <3>1. (h \in alive' <=> h \in alive) /\ p_cb'[h] = p_cb[h]
      BY <1>4, <2>3
    <3>2. \A u \in Thread :
            (op'[u].pc \in {"delete", "write", "addref"} => op'[u].dst # h)
            <=> (op[u].pc \in {"delete", "write", "addref"} => op[u].dst # h)
      BY <1>1, <1>2, <1>5, <2>3
    <3> QED BY <3>1, <3>2 DEF Counted
  <2>4. \A c \in Block : Counted(c) \subseteq Handle /\ Counted(c)' \subseteq Handle
    BY <1>4 DEF Counted
  <2>5. \A c \in Block : Counted(c)' = Counted(c)
    BY <2>1, <2>2, <2>3, <2>4
  <2>6. \A c \in Block : block'[c].count = block[c].count
    BY <1>4
  <2> QED BY <2>5, <2>6, OwnersKept
<1>11. PointsToLiving'
  <2>1. \A h \in alive' : Settled(h)' =>
          \/ \E g \in alive : Settled(g) /\ p_cb'[h] = p_cb[g] /\ p_obj'[h] = p_obj[g]
          \/ PointsOK(h)'
    <3>1. ASSUME NEW h \in alive, h # d, Settled(h)' PROVE Settled(h)
      BY <1>2, <1>5, <3>1 DEF Settled
    <3>2. d \in alive' => PointsOK(d)'
      BY <1>4 DEF PointsOK
    <3> QED BY <1>4, <3>1, <3>2
  <2>2. \A c \in Block : block[c].mem \in {"live", "failed"} =>
          block'[c].mem = block[c].mem /\ block'[c].obj = block[c].obj
    BY <1>3, <1>4
  <2> QED BY <2>1, <2>2, LivingKept
<1>12. DeletesAlone' /\ Needed'
  <2>1. op[t].pc # "delete" /\ op'[t].pc # "delete"
    BY <1>1, <1>5
  <2>2. \A u \in Thread : op[u].pc = "delete" =>
          /\ p_cb'[op[u].dst] = p_cb[op[u].dst]
          /\ block'[p_cb[op[u].dst]] = block[p_cb[op[u].dst]]
    BY <1>2, <1>4, <1>9, <2>1 DEF PtrInv, OpsOK, TypeOK, Busy
  <2>3. \A c \in Block : block'[c].mem = "live" =>
          block'[c].count > 0 \/ (block[c].mem = "live" /\ block'[c].count = block[c].count)
    BY <1>4
  <2> QED BY <1>5, <2>1, <2>2, <2>3, DeletersKept
<1> QED BY <1>5, <1>6, <1>7, <1>8, <1>10, <1>11, <1>12 DEF PtrInv

-----------------------------------------------------------------------------
(* The theorems.                                                           *)

\* No handle is constructed and every block is fresh.
LEMMA InitInv == Init => PtrInv
<1> SUFFICES ASSUME Init PROVE PtrInv
  OBVIOUS
<1>1. TypeOK
  BY DEF Init, TypeOK, NoOp, Kinds
<1>2. \A t \in Thread : op[t] = NoOp /\ op[t].pc = "idle"
  BY DEF Init, NoOp
<1>3. OpsOK /\ Apart /\ DeletesAlone
  BY <1>2 DEF OpsOK, Apart, DeletesAlone, Busy
<1>4. HandlesOK /\ PointsToLiving /\ Needed
  BY DEF Init, HandlesOK, PointsToLiving, Needed
<1>5. CountsOwners
  <2>1. \A b \in Block : Counted(b) = {} /\ block[b].count = 0
    BY DEF Init, Counted
  <2> QED BY <2>1, FS_EmptySet DEF CountsOwners
<1> QED BY <1>1, <1>3, <1>4, <1>5 DEF PtrInv

\* Every call and every step of the member functions keeps the invariant.
THEOREM PtrInvariant == Spec => []PtrInv
<1>1. PtrInv /\ [Next]_vars => PtrInv'
  <2> SUFFICES ASSUME PtrInv, [Next]_vars PROVE PtrInv'
    OBVIOUS
  <2>1. CASE UNCHANGED vars
    BY <2>1 DEF vars, PtrInv, TypeOK, OpsOK, Apart, HandlesOK, CountsOwners, Counted, PointsToLiving,
       PointsOK, Settled, DeletesAlone, Needed, Busy
  <2>2. ASSUME NEW t \in Thread, Call(t) PROVE PtrInv'
    <3>1. /\ \A h \in alive : h \in Handle /\ h \notin broken
          /\ {"copy", "move", "reset", "renew", "destroy"} = Kinds
      BY DEF PtrInv, TypeOK, HandlesOK, Kinds
    <3>2. ASSUME NEW h \in Handle, DefaultConstruct(t, h) PROVE PtrInv'
      BY <3>2, DefaultStep
    <3>3. ASSUME NEW h \in Handle, NEW b \in Block, NEW null \in BOOLEAN, Construct(t, h, b, null)
          PROVE  PtrInv'
      BY <3>3, ConstructStep
    <3>4. ASSUME NEW dst \in Handle, NEW src \in Handle,
                 CopyConstruct(t, dst, src) \/ MoveConstruct(t, dst, src)
          PROVE  PtrInv'
      <4>1. PICK kind \in {"copy", "move"} :
              dst \notin alive /\ dst \notin broken /\ src \in alive /\ Begin(t, kind, dst, src)
        BY <3>4 DEF CopyConstruct, MoveConstruct
      <4> QED BY <3>1, <4>1, BeginStep
    <3>5. ASSUME NEW dst \in Handle, NEW src \in Handle,
                 CopyAssign(t, dst, src) \/ MoveAssign(t, dst, src)
          PROVE  PtrInv'
      <4>1. PICK kind \in {"copy", "move"} :
              dst \in alive /\ src \in alive /\ src # dst /\ Begin(t, kind, dst, src)
        BY <3>5 DEF CopyAssign, MoveAssign
      <4> QED BY <3>1, <4>1, BeginStep
    <3>6. ASSUME NEW dst \in Handle, Reset(t, dst) \/ ResetTo(t, dst) \/ Destroy(t, dst)
          PROVE  PtrInv'
      <4>1. PICK kind \in {"reset", "renew", "destroy"} :
              dst \in alive /\ Begin(t, kind, dst, Null)
        BY <3>6 DEF Reset, ResetTo, Destroy
      <4>2. kind \notin {"copy", "move"} /\ kind \in Kinds
        BY <3>1, <4>1
      <4> QED BY <3>1, <4>1, <4>2, BeginStep
    <3> QED BY <2>2, <3>2, <3>3, <3>4, <3>5, <3>6 DEF Call
  <2>3. ASSUME NEW t \in Thread, Continue(t) PROVE PtrInv'
    BY <2>3, ReleaseStep, DeleteStep, WriteCopyStep, AddRefStep, WriteMoveStep, WriteNullStep,
       WriteNewStep, RenewThrowStep DEF Continue
  <2> QED BY <2>1, <2>2, <2>3 DEF Next
<1> QED BY <1>1, InitInv, PTL DEF Spec

\* The atomic count is the number of handles that own the block, with any
\* number of threads, whatever copies, moves, resets and destructors run.
THEOREM CountsAreExact == Spec => []CountExact
<1>1. PtrInv => CountExact
  BY CountedAs DEF PtrInv, CountsOwners, CountExact
<1> QED BY <1>1, PtrInvariant, PTL

\* release() and add_ref() never touch freed memory, no block is deleted twice,
\* and a handle nobody is changing can be dereferenced if it is not null.
THEOREM AccessIsSafe == Spec => []NoUseAfterFree
<1>1. PtrInv => NoUseAfterFree
  <2> SUFFICES ASSUME PtrInv PROVE NoUseAfterFree
    OBVIOUS
  <2>1. ASSUME NEW t \in Thread, op[t].pc \in {"release", "addref"}
        PROVE  block[p_cb[op[t].dst]].mem = "live"
    <3>1. Busy(t) /\ op[t].dst \in alive /\ p_cb[op[t].dst] # Null
      BY <2>1 DEF PtrInv, OpsOK, Busy
    <3>2. Settled(op[t].dst)
      BY <2>1, <3>1, Mine DEF Settled, Busy
    <3> QED BY <3>1, <3>2 DEF PtrInv, PointsToLiving, PointsOK
  <2>2. ASSUME NEW h \in alive, \A t \in Thread : op[t].dst # h
        PROVE  /\ p_obj[h] # Null => block[p_obj[h]].obj = "alive"
               /\ p_cb[h] # Null => block[p_cb[h]].mem = "live"
    <3>1. Settled(h)
      BY <2>2 DEF Settled
    <3> QED BY <3>1 DEF PtrInv, PointsToLiving, PointsOK
  <2> QED BY <2>1, <2>2 DEF NoUseAfterFree, PtrInv, DeletesAlone
<1> QED BY <1>1, PtrInvariant, PTL

\* When no call is under way every living block has a handle: nothing leaks.
THEOREM NothingLeaks == Spec => []NoLeak
<1>1. PtrInv => NoLeak
  <2> SUFFICES ASSUME PtrInv, \A t \in Thread : op[t] = NoOp,
                      NEW b \in Block, block[b].mem = "live", Referring(b) = {}
               PROVE  FALSE
    BY DEF NoLeak
  <2>1. \A t \in Thread : op[t].pc = "idle"
    BY DEF NoOp
  <2>2. block[b].count > 0
    BY <2>1 DEF PtrInv, Needed
  <2>3. Counted(b) = {}
    BY DEF Counted, Referring
  <2>4. block[b].count = 0
    BY <2>3, FS_EmptySet DEF PtrInv, CountsOwners
  <2> QED BY <2>2, <2>4
<1> QED BY <1>1, PtrInvariant, PTL

=============================================================================
