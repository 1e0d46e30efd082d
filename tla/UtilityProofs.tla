---------------------------- MODULE UtilityProofs ----------------------------
(***************************************************************************)
(* Proofs about the small parts: the spin lock excludes and synchronises   *)
(* any number of threads with any spin limit; an object of a UniquePtr has *)
(* one owner and gets the deleter that came with it, for any number of     *)
(* handles, objects and nodes; the three copy loops are correct for every  *)
(* size of the memory, all overlaps their callers may ask for and any      *)
(* sequence of calls; the random number generator's step is one-to-one.    *)
(***************************************************************************)
EXTENDS SpinMutex, UniquePtr, Integers, SequenceTheorems, FiniteSetTheorems, TLAPS

-----------------------------------------------------------------------------
(* SpinMutex.                                                              *)

\* The flag is free at the start.
LEMMA SpinInitInv == LockInit => LockInv
  BY LockAssumption DEF LockInit, LockInv, TypeOK, MutualExclusion, Synchronised

\* An exchange that moves t into its critical section only if the flag was
\* clear keeps the invariant: this is the atomicity the lock rests on.
LEMMA ExchangeInv ==
  ASSUME LockInv, NEW t \in Thread,
         NEW busy \in {"idle", "test", "exchange", "yield"},
         pc[t] # "section",
         TestAndSet(t, "section", busy),
         spins' \in [Thread -> 0..SpinLimit],
         \A u \in Thread : u # t => spins'[u] = spins[u],
         busy \in {"test", "exchange"} /\ flag.set => spins'[t] < SpinLimit
  PROVE  LockInv'
<1> USE DEF TestAndSet
<1>1. /\ flag \in [set : BOOLEAN, sync : Nat] /\ seen \in [Thread -> Nat] /\ sections \in Nat
      /\ pc \in [Thread -> {"idle", "test", "exchange", "yield", "section"}]
      /\ flag.sync <= sections /\ \A u \in Thread : seen[u] <= sections
  BY DEF LockInv, TypeOK
<1>2. /\ seen' \in [Thread -> Nat] /\ \A u \in Thread : seen'[u] <= sections
      /\ seen'[t] = Later(seen[t], flag.sync) /\ \A u \in Thread : u # t => seen'[u] = seen[u]
  BY <1>1 DEF Later
<1>3. /\ flag' \in [set : BOOLEAN, sync : Nat] /\ flag'.set = TRUE /\ flag'.sync = flag.sync
  BY <1>1
<1>4. CASE flag.set
  <2>1. /\ pc' = [pc EXCEPT ![t] = busy] /\ busy # "section"
    BY <1>4
  <2>2. \A u \in Thread : pc'[u] = "section" <=> pc[u] = "section"
    BY <1>1, <2>1
  <2>3. \A u \in Thread : pc'[u] = "section" => u # t
    BY <2>2
  <2>4. TypeOK'
    BY <1>1, <1>2, <1>3, <2>1 DEF TypeOK
  <2>5. MutualExclusion' /\ Synchronised'
    BY <1>2, <2>2, <2>3 DEF LockInv, MutualExclusion, Synchronised
  <2>6. \A u \in Thread : pc'[u] \in {"test", "exchange"} => spins'[u] < SpinLimit
    BY <1>1, <1>4, <2>1 DEF LockInv
  <2> QED BY <1>1, <1>2, <1>3, <1>4, <2>2, <2>4, <2>5, <2>6 DEF LockInv
<1>5. CASE ~flag.set
  <2>1. /\ pc' = [pc EXCEPT ![t] = "section"] /\ \A u \in Thread : pc[u] # "section"
    BY <1>5 DEF LockInv
  <2>2. \A u \in Thread : pc'[u] = "section" <=> u = t
    BY <1>1, <2>1
  <2>3. seen'[t] = sections
    BY <1>1, <1>2, <1>5 DEF LockInv, Later
  <2>4. TypeOK'
    BY <1>1, <1>2, <1>3, <2>1 DEF TypeOK
  <2>5. MutualExclusion' /\ Synchronised'
    BY <2>2, <2>3 DEF MutualExclusion, Synchronised
  <2>6. \A u \in Thread : pc'[u] \in {"test", "exchange"} => spins'[u] < SpinLimit
    BY <1>1, <2>1 DEF LockInv
  <2> QED BY <1>1, <1>2, <1>3, <2>2, <2>4, <2>5, <2>6 DEF LockInv
<1> QED BY <1>4, <1>5

\* Spinning and yielding touch neither the flag nor anybody's ownership.
LEMMA SpinningInv ==
  ASSUME LockInv, NEW t \in Thread, SpinSeesClear(t) \/ SpinSeesSet(t) \/ Yield(t)
  PROVE  LockInv'
<1>1. /\ UNCHANGED <<flag, seen, sections>>
      /\ \E p \in {"test", "exchange", "yield"} : pc' = [pc EXCEPT ![t] = p]
      /\ pc[t] # "section"
  BY DEF SpinSeesClear, SpinSeesSet, NextSpin, Yield
<1>2. pc \in [Thread -> {"idle", "test", "exchange", "yield", "section"}]
      /\ spins \in [Thread -> 0..SpinLimit] /\ SpinLimit \in Nat \ {0}
  BY LockAssumption DEF LockInv, TypeOK
<1>3. \A u \in Thread : pc'[u] = "section" <=> pc[u] = "section"
  BY <1>1, <1>2
<1>4. /\ spins' \in [Thread -> 0..SpinLimit]
      /\ \A u \in Thread : pc'[u] \in {"test", "exchange"} => spins'[u] < SpinLimit
  <2>1. CASE SpinSeesClear(t)
    BY <1>2, <2>1 DEF SpinSeesClear, LockInv
  <2>2. CASE SpinSeesSet(t)
    BY <1>2, <2>2 DEF SpinSeesSet, NextSpin, LockInv
  <2>3. CASE Yield(t)
    BY <1>2, <2>3 DEF Yield, LockInv
  <2> QED BY <2>1, <2>2, <2>3
<1>5. TypeOK'
  BY <1>1, <1>2, <1>4 DEF LockInv, TypeOK
<1>6. MutualExclusion' /\ Synchronised'
  BY <1>1, <1>3 DEF LockInv, MutualExclusion, Synchronised
<1> QED BY <1>1, <1>3, <1>4, <1>5, <1>6 DEF LockInv

\* unlock() leaves a clear flag that carries every section, its own included.
LEMMA UnlockInv ==
  ASSUME LockInv, NEW t \in Thread, Unlock(t) PROVE LockInv'
<1> USE DEF Unlock
<1>1. /\ seen \in [Thread -> Nat] /\ sections \in Nat /\ seen[t] = sections
      /\ pc \in [Thread -> {"idle", "test", "exchange", "yield", "section"}]
      /\ \A u \in Thread : seen[u] <= sections
  BY DEF LockInv, TypeOK, Synchronised
<1>2. \A u \in Thread : pc'[u] # "section"
  BY <1>1 DEF LockInv, MutualExclusion
<1>3. flag'.set = FALSE /\ flag'.sync = sections'
  BY <1>1
<1>4. \A u \in Thread : seen'[u] <= sections'
  BY <1>1
<1>5. TypeOK'
  BY <1>1 DEF LockInv, TypeOK
<1>6. \A u \in Thread : pc'[u] \in {"test", "exchange"} => spins'[u] < SpinLimit
  BY <1>1 DEF LockInv
<1>7. flag'.sync <= sections'
  BY <1>1, <1>3
<1> QED BY <1>2, <1>3, <1>4, <1>5, <1>6, <1>7 DEF LockInv, MutualExclusion, Synchronised

\* With callers that take FALSE for success, as test_and_set means it, every
\* step keeps the invariant.
THEOREM LockInvariant ==
  ASSUME TryLockOwnsOn = FALSE
  PROVE  LockSpec => []LockInv
<1>1. LockInv /\ [LockNext]_lockVars => LockInv'
  <2> SUFFICES ASSUME LockInv, [LockNext]_lockVars PROVE LockInv'
    OBVIOUS
  <2>1. CASE UNCHANGED lockVars
    BY <2>1 DEF lockVars, LockInv, TypeOK, MutualExclusion, Synchronised
  <2>2. CASE LockNext
    <3>1. PICK t \in Thread : Step(t)
      BY <2>2 DEF LockNext
    <3>2. spins \in [Thread -> 0..SpinLimit] /\ SpinLimit \in Nat \ {0}
      BY LockAssumption DEF LockInv, TypeOK
    <3>3. CASE Lock(t)
      <4>1. /\ spins' \in [Thread -> 0..SpinLimit] /\ spins'[t] = 0
            /\ \A u \in Thread : u # t => spins'[u] = spins[u]
        BY <3>2, <3>3 DEF Lock
      <4> QED BY <3>2, <3>3, <4>1, ExchangeInv DEF Lock
    <3>4. CASE TryLock(t)
      BY <3>2, <3>4, ExchangeInv DEF TryLock
    <3>5. CASE SpinExchange(t)
      <4> DEFINE busy == IF spins[t] + 1 < SpinLimit THEN "test" ELSE "yield"
      <4>1. spins[t] < SpinLimit /\ spins[t] \in Nat
        BY <3>2, <3>5 DEF SpinExchange, LockInv
      <4>2. /\ spins' \in [Thread -> 0..SpinLimit]
            /\ \A u \in Thread : u # t => spins'[u] = spins[u]
            /\ flag.set => spins'[t] = spins[t] + 1
        BY <3>2, <3>5, <4>1 DEF SpinExchange
      <4>3. busy \in {"test", "exchange"} /\ flag.set => spins'[t] < SpinLimit
        BY <4>2
      <4>4. busy \in {"idle", "test", "exchange", "yield"}
        OBVIOUS
      <4>5. TestAndSet(t, "section", busy) /\ pc[t] # "section"
        BY <3>5 DEF SpinExchange
      <4> HIDE DEF busy
      <4> QED BY <4>2, <4>3, <4>4, <4>5, ExchangeInv
    <3>6. CASE SpinSeesClear(t) \/ SpinSeesSet(t) \/ Yield(t)
      BY <3>6, SpinningInv
    <3>7. CASE Unlock(t)
      BY <3>7, UnlockInv
    <3> QED BY <3>1, <3>3, <3>4, <3>5, <3>6, <3>7 DEF Step
  <2> QED BY <2>1, <2>2
<1> QED BY <1>1, SpinInitInv, PTL DEF LockSpec

\* Two threads never hold the lock at once, for any number of threads.
THEOREM Exclusion ==
  ASSUME TryLockOwnsOn = FALSE
  PROVE  LockSpec => []MutualExclusion
<1>1. LockInv => MutualExclusion
  BY DEF LockInv
<1> QED BY <1>1, LockInvariant, PTL

\* The holder sees every critical section before its own.
THEOREM Visibility ==
  ASSUME TryLockOwnsOn = FALSE
  PROVE  LockSpec => []Synchronised
<1>1. LockInv => Synchronised
  BY DEF LockInv
<1> QED BY <1>1, LockInvariant, PTL

-----------------------------------------------------------------------------
(* UniquePtr.                                                              *)

\* What can be on the stack.
Steps ==
  [do : {"delete"}, obj : Object, with : Deleter \cup {Garbage}]
    \cup [do : {"free"}, obj : Object]
    \cup [do : {"end"}, handle : Handle]
    \cup [do : {"take"}, dst : Handle, src : Handle]

StateOK ==
  /\ m_ptr \in [Handle -> Object \cup {Null}]
  /\ m_deleter \in [Handle -> Deleter \cup {Garbage}]
  /\ live \in SUBSET Handle
  /\ obj \in [Object -> {"fresh", "alive", "dying", "freed"}]
  /\ mate \in [Object -> Deleter]
  /\ raw \in SUBSET Object
  /\ stack \in Seq(Steps)

Items(s) == {s[i] : i \in 1..Len(s)}

\* The object whose deleter is called next.
Doomed == IF Top("delete") THEN Head(stack).obj ELSE Null

\* Handles, the caller and the pending call share the living objects.
Shared ==
  /\ \A h \in live : m_ptr[h] # Null =>
       /\ obj[m_ptr[h]] = "alive" /\ m_ptr[h] \notin raw /\ m_ptr[h] # Doomed
       /\ \A g \in live : m_ptr[g] = m_ptr[h] => g = h
  /\ \A o \in raw : obj[o] = "alive" /\ o # Doomed
  /\ Doomed # Null => obj[Doomed] = "alive"
  /\ \A o \in Object : obj[o] = "alive" =>
       o \in raw \/ o = Doomed \/ \E h \in live : m_ptr[h] = o

\* A living node's member is alive too.
MembersLive == \A n \in Node : obj[n] = "alive" => n \in live

\* Only the next step can call a deleter.  What is still to be freed is no
\* longer alive; a handle whose lifetime is to end owns nothing.
PendingOK ==
  /\ stack # <<>> => \A e \in Items(Tail(stack)) : e.do # "delete"
  /\ \A e \in Items(stack) :
       /\ e.do = "free" => obj[e.obj] # "alive"
       /\ e.do = "end" => /\ m_ptr[e.handle] = Null
                          /\ e.handle \in Node => obj[e.handle] # "alive"

\* No object owns itself.
Acyclic == \A h \in live : NoCycle(h, m_ptr[h])

\* d is right for p.
Fits(d, p) == p # Null => d \in {mate[p], Garbage}

\* A handle's deleter fits its object, or an assignment is about to put the one
\* that fits beside it; until then the handle is not destroyed.
PairsOK ==
  /\ Top("delete") => Fits(Head(stack).with, Head(stack).obj)
  /\ \A h \in live : \/ Fits(m_deleter[h], m_ptr[h])
                     \/ \E e \in Items(stack) : e.do = "take" /\ e.dst = h
  /\ \A e \in Items(stack) : e.do = "take" =>
       /\ e.src # e.dst
       /\ Fits(m_deleter[e.src], m_ptr[e.dst])
       /\ NoCycle(e.dst, Doomed)
       /\ \A f \in Items(stack) : f.do = "take" => f = e

HandleInv ==
  StateOK /\ Shared /\ MembersLive /\ PendingOK /\ Acyclic /\ PairsOK

-----------------------------------------------------------------------------
(* The stack.                                                              *)

\* The fields of a step, by what it does.
LEMMA StepFields ==
  ASSUME NEW e \in Steps
  PROVE  /\ e.do \in {"delete", "free", "end", "take"}
         /\ e.do = "delete" => e.obj \in Object /\ e.with \in Deleter \cup {Garbage}
         /\ e.do = "free" => e.obj \in Object
         /\ e.do = "end" => e.handle \in Handle
         /\ e.do = "take" => e.dst \in Handle /\ e.src \in Handle
  BY DEF Steps

LEMMA DeleteStep ==
  ASSUME NEW o \in Object, NEW d \in Deleter \cup {Garbage}
  PROVE  /\ Delete(o, d) \in Steps /\ Delete(o, d).do = "delete"
         /\ Delete(o, d).obj = o /\ Delete(o, d).with = d
  BY DEF Steps, Delete

LEMMA FreeStep ==
  ASSUME NEW o \in Object
  PROVE  Free(o) \in Steps /\ Free(o).do = "free" /\ Free(o).obj = o
  BY DEF Steps, Free

LEMMA EndStep ==
  ASSUME NEW h \in Handle
  PROVE  EndLife(h) \in Steps /\ EndLife(h).do = "end" /\ EndLife(h).handle = h
  BY DEF Steps, EndLife

LEMMA TakeStep ==
  ASSUME NEW h \in Handle, NEW g \in Handle
  PROVE  /\ TakeDeleter(h, g) \in Steps /\ TakeDeleter(h, g).do = "take"
         /\ TakeDeleter(h, g).dst = h /\ TakeDeleter(h, g).src = g
  BY DEF Steps, TakeDeleter

\* No step, one step and a step before others.
LEMMA NoItems == <<>> \in Seq(Steps) /\ Items(<<>>) = {}
  BY DEF Items

LEMMA OneItem ==
  ASSUME NEW e \in Steps
  PROVE  <<e>> \in Seq(Steps) /\ <<e>> # <<>> /\ Head(<<e>>) = e /\ Items(<<e>>) = {e}
<1>1. <<e>> \in Seq(Steps) /\ Len(<<e>>) = 1 /\ <<e>>[1] = e
  OBVIOUS
<1>2. Items(<<e>>) = {e}
  BY <1>1 DEF Items
<1> QED BY <1>1, <1>2

LEMMA ItemsBefore ==
  ASSUME NEW s \in Seq(Steps), NEW t \in Seq(Steps)
  PROVE  s \o t \in Seq(Steps) /\ Items(s \o t) = Items(s) \cup Items(t)
<1>1. /\ s \o t \in Seq(Steps) /\ Len(s \o t) = Len(s) + Len(t)
      /\ \A i \in 1..(Len(s) + Len(t)) :
           (s \o t)[i] = IF i <= Len(s) THEN s[i] ELSE t[i - Len(s)]
      /\ Len(s) \in Nat /\ Len(t) \in Nat
  BY ConcatProperties, LenProperties
<1> DEFINE st == s \o t
<1> HIDE DEF st
<1>2. \A e \in Items(st) : e \in Items(s) \cup Items(t)
  <2> SUFFICES ASSUME NEW i \in 1..Len(st) PROVE st[i] \in Items(s) \cup Items(t)
    BY DEF Items
  <2>1. CASE i <= Len(s)
    BY <1>1, <2>1 DEF Items, st
  <2>2. CASE ~(i <= Len(s))
    <3>1. i - Len(s) \in 1..Len(t) /\ st[i] = t[i - Len(s)]
      BY <1>1, <2>2 DEF st
    <3> QED BY <3>1 DEF Items
  <2> QED BY <2>1, <2>2
<1>3. \A e \in Items(s) : e \in Items(st)
  <2> SUFFICES ASSUME NEW i \in 1..Len(s) PROVE s[i] \in Items(st)
    BY DEF Items
  <2>1. i \in 1..Len(st) /\ st[i] = s[i]
    BY <1>1 DEF st
  <2> QED BY <2>1 DEF Items
<1>4. \A e \in Items(t) : e \in Items(st)
  <2> SUFFICES ASSUME NEW i \in 1..Len(t) PROVE t[i] \in Items(st)
    BY DEF Items
  <2>1. i + Len(s) \in 1..Len(st) /\ st[i + Len(s)] = t[i]
    BY <1>1 DEF st
  <2> QED BY <2>1 DEF Items
<1>5. Items(st) = Items(s) \cup Items(t)
  BY <1>2, <1>3, <1>4
<1> QED BY <1>1, <1>5 DEF st

LEMMA ItemsSplit ==
  ASSUME NEW s \in Seq(Steps), s # <<>>
  PROVE  /\ Head(s) \in Steps /\ Tail(s) \in Seq(Steps)
         /\ Items(s) = {Head(s)} \cup Items(Tail(s))
<1>1. /\ Head(s) \in Steps /\ Tail(s) \in Seq(Steps) /\ Len(Tail(s)) = Len(s) - 1
      /\ \A i \in 1..Len(Tail(s)) : Tail(s)[i] = s[i + 1]
      /\ Len(s) \in Nat /\ Len(s) >= 1 /\ Head(s) = s[1]
  BY HeadTailProperties, EmptySeq, LenProperties
<1> DEFINE t == Tail(s)
<1> HIDE DEF t
<1>2. \A e \in Items(s) : e \in {Head(s)} \cup Items(t)
  <2> SUFFICES ASSUME NEW i \in 1..Len(s), i # 1 PROVE s[i] \in Items(t)
    BY <1>1 DEF Items
  <2>1. i - 1 \in 1..Len(t) /\ t[i - 1] = s[i]
    BY <1>1 DEF t
  <2> QED BY <2>1 DEF Items
<1>3. \A e \in Items(t) : e \in Items(s)
  <2> SUFFICES ASSUME NEW i \in 1..Len(t) PROVE t[i] \in Items(s)
    BY DEF Items
  <2>1. i + 1 \in 1..Len(s) /\ s[i + 1] = t[i]
    BY <1>1 DEF t
  <2> QED BY <2>1 DEF Items
<1>4. Head(s) \in Items(s)
  BY <1>1 DEF Items
<1>5. Items(s) = {Head(s)} \cup Items(t)
  BY <1>2, <1>3, <1>4
<1> QED BY <1>1, <1>5 DEF t

LEMMA Pushed ==
  ASSUME NEW e \in Steps, NEW t \in Seq(Steps)
  PROVE  /\ <<e>> \o t \in Seq(Steps) /\ <<e>> \o t # <<>>
         /\ Head(<<e>> \o t) = e /\ Tail(<<e>> \o t) = t
         /\ Items(<<e>> \o t) = {e} \cup Items(t)
<1> DEFINE s == <<e>> \o t
<1>1. <<e>> \in Seq(Steps) /\ Len(<<e>>) = 1 /\ <<e>>[1] = e /\ Len(t) \in Nat
  BY LenProperties
<1>2. /\ s \in Seq(Steps) /\ Len(s) = 1 + Len(t)
      /\ \A i \in 1..(1 + Len(t)) : s[i] = IF i <= 1 THEN <<e>>[i] ELSE t[i - 1]
  BY <1>1, ConcatProperties
<1> HIDE DEF s
<1>3. s # <<>>
  BY <1>1, <1>2, EmptySeq
<1>4. Head(s) = e
  BY <1>1, <1>2, <1>3
<1>5. /\ Tail(s) \in Seq(Steps) /\ Len(Tail(s)) = Len(t)
      /\ \A i \in 1..Len(t) : Tail(s)[i] = s[i + 1]
  BY <1>1, <1>2, <1>3, HeadTailProperties
<1>6. \A i \in 1..Len(t) : Tail(s)[i] = t[i]
  BY <1>1, <1>2, <1>5
<1>7. Tail(s) = t
  BY <1>5, <1>6, SeqEqual
<1>8. Items(s) = {e} \cup Items(t)
  BY <1>2, <1>3, <1>4, <1>7, ItemsSplit
<1> QED BY <1>2, <1>3, <1>4, <1>7, <1>8 DEF s

-----------------------------------------------------------------------------
(* Cycles.                                                                 *)

LEMMA RootIsFree ==
  ASSUME StateOK, NEW h \in Root, NEW o \in Object \cup {Null}
  PROVE  NoCycle(h, o)
<1>1. Closed(Object)
  BY DEF StateOK, Closed
<1>2. h \notin Object
  BY ConstantsAssumption
<1> QED BY <1>1, <1>2 DEF NoCycle

LEMMA NullIsFree == \A h : NoCycle(h, Null)
<1>1. Closed({}) /\ {} \in SUBSET Object
  BY DEF Closed
<1> QED BY <1>1 DEF NoCycle

LEMMA NullIsFreeNext == \A h : NoCycle(h, Null)'
<1>1. Closed({})' /\ {} \in SUBSET Object
  BY DEF Closed
<1> QED BY <1>1 DEF NoCycle

\* What a handle cannot be reached from when it has other owners' links, it
\* cannot be reached from when some of them are gone.
LEMMA FewerLinks ==
  ASSUME NEW h, NEW o, NoCycle(h, o),
         \A n \in live' \cap Object : m_ptr'[n] = Null \/ (n \in live /\ m_ptr'[n] = m_ptr[n])
                                      \/ n = h
  PROVE  NoCycle(h, o)'
<1>1. PICK S \in SUBSET Object : o \in S \cup {Null} /\ h \notin S /\ Closed(S)
  BY DEF NoCycle
<1>2. Closed(S)'
  BY <1>1 DEF Closed
<1> QED BY <1>1, <1>2 DEF NoCycle

\* A new link closes no cycle if its end does not lead to its beginning.
LEMMA NewLink ==
  ASSUME Acyclic, NEW h, NEW o, NoCycle(h, o),
         \A n \in live' : \/ m_ptr'[n] = Null
                          \/ n # h /\ n \in live /\ m_ptr'[n] = m_ptr[n]
                          \/ n = h /\ m_ptr'[n] = o
  PROVE  Acyclic'
<1>1. PICK T \in SUBSET Object : o \in T \cup {Null} /\ h \notin T /\ Closed(T)
  BY DEF NoCycle
<1>2. \A S \in SUBSET Object : Closed(S) /\ h \notin S => Closed(S)'
  BY DEF Closed
<1>3. ASSUME NEW n \in live' PROVE NoCycle(n, m_ptr[n])'
  <2>1. CASE m_ptr'[n] = Null
    <3>1. Closed({})' /\ {} \in SUBSET Object
      BY DEF Closed
    <3> QED BY <2>1, <3>1 DEF NoCycle
  <2>2. CASE n = h /\ m_ptr'[n] = o
    BY <1>1, <1>2, <2>2 DEF NoCycle
  <2>3. CASE n \in live /\ m_ptr'[n] = m_ptr[n] /\ n # h /\ m_ptr'[n] # Null
    <3>1. PICK S \in SUBSET Object : m_ptr[n] \in S \cup {Null} /\ n \notin S /\ Closed(S)
      BY <2>3 DEF Acyclic, NoCycle
    <3>2. CASE n \in T
      <4>1. m_ptr[n] \in S \cap T
        BY <1>1, <2>3, <3>1, <3>2 DEF Closed
      <4>2. Closed(S \cap T)
        BY <1>1, <3>1 DEF Closed
      <4>3. Closed(S \cap T)' /\ n \notin S \cap T /\ S \cap T \in SUBSET Object
        BY <1>1, <1>2, <3>1, <4>2
      <4> QED BY <2>3, <4>1, <4>3 DEF NoCycle
    <3>3. CASE n \notin T
      <4>1. Closed(S \cup T)'
        BY <1>1, <3>1 DEF Closed
      <4>2. n \notin S \cup T /\ S \cup T \in SUBSET Object /\ m_ptr'[n] \in (S \cup T) \cup {Null}
        BY <2>3, <3>1, <3>3
      <4> QED BY <4>1, <4>2 DEF NoCycle
    <3> QED BY <3>2, <3>3
  <2> QED BY <2>1, <2>2, <2>3
<1> QED BY <1>3 DEF Acyclic

\* Two links may be exchanged if neither end leads to the other's beginning.
LEMMA SwappedLinks ==
  ASSUME Acyclic, NEW h \in live, NEW g \in live, NoCycle(h, m_ptr[g]), NoCycle(g, m_ptr[h]),
         live' = live, m_ptr'[h] = m_ptr[g], m_ptr'[g] = m_ptr[h],
         \A n \in live : n # h /\ n # g => m_ptr'[n] = m_ptr[n]
  PROVE  Acyclic'
<1>1. PICK A \in SUBSET Object :
        m_ptr[g] \in A \cup {Null} /\ h \notin A /\ g \notin A /\ Closed(A)
  <2>1. PICK S \in SUBSET Object : m_ptr[g] \in S \cup {Null} /\ h \notin S /\ Closed(S)
    BY DEF NoCycle
  <2>2. PICK T \in SUBSET Object : m_ptr[g] \in T \cup {Null} /\ g \notin T /\ Closed(T)
    BY DEF Acyclic, NoCycle
  <2>3. Closed(S \cap T)
    BY <2>1, <2>2 DEF Closed
  <2>4. S \cap T \in SUBSET Object /\ m_ptr[g] \in (S \cap T) \cup {Null}
    BY <2>1, <2>2
  <2> QED BY <2>1, <2>2, <2>3, <2>4
<1>2. PICK B \in SUBSET Object :
        m_ptr[h] \in B \cup {Null} /\ h \notin B /\ g \notin B /\ Closed(B)
  <2>1. PICK S \in SUBSET Object : m_ptr[h] \in S \cup {Null} /\ g \notin S /\ Closed(S)
    BY DEF NoCycle
  <2>2. PICK T \in SUBSET Object : m_ptr[h] \in T \cup {Null} /\ h \notin T /\ Closed(T)
    BY DEF Acyclic, NoCycle
  <2>3. Closed(S \cap T)
    BY <2>1, <2>2 DEF Closed
  <2>4. S \cap T \in SUBSET Object /\ m_ptr[h] \in (S \cap T) \cup {Null}
    BY <2>1, <2>2
  <2> QED BY <2>1, <2>2, <2>3, <2>4
<1>3. \A S \in SUBSET Object : Closed(S) /\ h \notin S /\ g \notin S => Closed(S)'
  BY DEF Closed
<1>4. ASSUME NEW n \in live PROVE NoCycle(n, m_ptr[n])'
  <2>1. CASE n = h
    BY <1>1, <1>3, <2>1 DEF NoCycle
  <2>2. CASE n = g
    BY <1>2, <1>3, <2>2 DEF NoCycle
  <2>3. CASE n # h /\ n # g /\ m_ptr[n] = Null
    <3>1. Closed({})' /\ {} \in SUBSET Object
      BY DEF Closed
    <3> QED BY <2>3, <3>1 DEF NoCycle
  <2>4. CASE n # h /\ n # g /\ m_ptr[n] # Null
    <3>1. PICK S \in SUBSET Object : m_ptr[n] \in S /\ n \notin S /\ Closed(S)
      BY <2>4 DEF Acyclic, NoCycle
    <3>2. ASSUME NEW T \in {A, B}, n \in T PROVE NoCycle(n, m_ptr[n])'
      <4>1. T \in SUBSET Object /\ h \notin T /\ g \notin T /\ Closed(T)
        BY <1>1, <1>2
      <4>2. m_ptr[n] \in S \cap T
        BY <2>4, <3>1, <3>2, <4>1 DEF Closed
      <4>3. Closed(S \cap T)
        BY <3>1, <4>1 DEF Closed
      <4>4. Closed(S \cap T)' /\ n \notin S \cap T /\ S \cap T \in SUBSET Object
        BY <1>3, <3>1, <4>1, <4>3
      <4> QED BY <2>4, <4>2, <4>4 DEF NoCycle
    <3>3. CASE n \notin A /\ n \notin B
      <4> DEFINE U == S \cup A \cup B
      <4>1. ASSUME NEW x \in U \cap live PROVE m_ptr'[x] \in U \cup {Null}
        <5>1. CASE x = h \/ x = g
          BY <1>1, <1>2, <5>1
        <5>2. CASE x # h /\ x # g
          <6>1. m_ptr'[x] = m_ptr[x]
            BY <4>1, <5>2
          <6> QED BY <1>1, <1>2, <3>1, <4>1, <6>1 DEF Closed
        <5> QED BY <5>1, <5>2
      <4>2. Closed(U)'
        BY <4>1 DEF Closed
      <4>3. n \notin U /\ U \in SUBSET Object /\ m_ptr'[n] \in U
        BY <1>1, <1>2, <2>4, <3>1, <3>3
      <4> QED BY <4>2, <4>3 DEF NoCycle
    <3> QED BY <3>2, <3>3
  <2> QED BY <2>1, <2>2, <2>3, <2>4
<1> QED BY <1>4 DEF Acyclic

-----------------------------------------------------------------------------
(* Steps.                                                                  *)

\* No member function is running.
LEMMA Calm ==
  ASSUME stack = <<>>
  PROVE  Doomed = Null /\ Items(stack) = {} /\ \A k : ~Top(k)
  BY NoItems DEF Doomed, Top

LEMMA CalmNext ==
  ASSUME stack' = <<>>
  PROVE  Doomed' = Null /\ Items(stack') = {} /\ ~Top("delete")'
  BY NoItems DEF Doomed, Top

\* reset() puts the deleter's call, if there is one, before t.
LEMMA AfterOld ==
  ASSUME StateOK, NEW h \in Handle, NEW t \in Seq(Steps), \A e \in Items(t) : e.do # "delete",
         stack' = Old(h) \o t
  PROVE  /\ stack' \in Seq(Steps)
         /\ Items(t) \subseteq Items(stack')
         /\ \A e \in Items(stack') : e \in Items(t) \/ e.do = "delete"
         /\ stack' # <<>> => \A e \in Items(Tail(stack')) : e \in Items(t)
         /\ Doomed' = m_ptr[h]
         /\ Top("delete")' =>
              m_ptr[h] # Null /\ Head(stack').obj = m_ptr[h] /\ Head(stack').with = m_deleter[h]
<1>1. m_ptr[h] \in Object \cup {Null} /\ m_deleter[h] \in Deleter \cup {Garbage}
  BY DEF StateOK
<1>2. CASE m_ptr[h] = Null
  <2>1. stack' = t
    BY <1>2, ConcatEmptySeq DEF Old
  <2>2. CASE t = <<>>
    BY <1>2, <2>1, <2>2, NoItems DEF Doomed, Top
  <2>3. CASE t # <<>>
    <3>1. Head(t) \in Items(t) /\ \A e \in Items(Tail(t)) : e \in Items(t)
      BY <2>3, ItemsSplit
    <3>2. ~Top("delete")'
      BY <2>1, <3>1 DEF Top
    <3> QED BY <1>2, <2>1, <3>1, <3>2 DEF Doomed
  <2> QED BY <2>2, <2>3
<1>3. CASE m_ptr[h] # Null
  <2> DEFINE e == Delete(m_ptr[h], m_deleter[h])
  <2>1. e \in Steps /\ e.do = "delete" /\ e.obj = m_ptr[h] /\ e.with = m_deleter[h]
    BY <1>1, <1>3, DeleteStep
  <2> HIDE DEF e
  <2>2. stack' = <<e>> \o t
    BY <1>3 DEF Old, e
  <2>3. /\ stack' \in Seq(Steps) /\ stack' # <<>> /\ Head(stack') = e /\ Tail(stack') = t
        /\ Items(stack') = {e} \cup Items(t)
    BY <2>1, <2>2, Pushed
  <2>4. Top("delete")' /\ Doomed' = m_ptr[h]
    BY <2>1, <2>3 DEF Top, Doomed
  <2> QED BY <1>3, <2>1, <2>3, <2>4
<1> QED BY <1>2, <1>3

\* Without a pending call of a deleter, the invariant says this of the stack.
LEMMA QuietNext ==
  ASSUME stack' = <<>>, \A h \in live' : Fits(m_deleter[h], m_ptr[h])'
  PROVE  PendingOK' /\ PairsOK'
<1>1. Doomed' = Null /\ Items(stack') = {} /\ ~Top("delete")'
  BY CalmNext
<1>2. PendingOK'
  BY <1>1 DEF PendingOK
<1>3. PairsOK'
  BY <1>1 DEF PairsOK
<1> QED BY <1>2, <1>3

\* Pointers that go from handle to handle, one to one, stay shared out.
LEMMA Moved ==
  ASSUME Shared, Doomed = Null, Doomed' = Null, obj' = obj, raw' = raw,
         NEW from \in [live' -> live],
         \A x \in live' : m_ptr'[x] # Null => m_ptr'[x] = m_ptr[from[x]],
         \A x, y \in live' : m_ptr'[x] # Null /\ from[x] = from[y] /\ m_ptr'[y] # Null => x = y,
         \A y \in live : m_ptr[y] # Null => \E x \in live' : m_ptr'[x] = m_ptr[y]
  PROVE  Shared'
<1>1. ASSUME NEW x \in live', m_ptr'[x] # Null
      PROVE  /\ obj'[m_ptr'[x]] = "alive" /\ m_ptr'[x] \notin raw' /\ m_ptr'[x] # Doomed'
             /\ \A y \in live' : m_ptr'[y] = m_ptr'[x] => y = x
  <2>1. from[x] \in live /\ m_ptr'[x] = m_ptr[from[x]]
    BY <1>1
  <2>2. ASSUME NEW y \in live', m_ptr'[y] = m_ptr'[x] PROVE y = x
    <3>1. from[y] \in live /\ m_ptr[from[y]] = m_ptr[from[x]]
      BY <1>1, <2>1, <2>2
    <3>2. from[x] = from[y]
      BY <1>1, <2>1, <3>1 DEF Shared
    <3> QED BY <1>1, <2>2, <3>2
  <2> QED BY <1>1, <2>1, <2>2 DEF Shared
<1>2. \A o \in raw' : obj'[o] = "alive" /\ o # Doomed'
  BY DEF Shared
<1>3. ASSUME NEW o \in Object, obj'[o] = "alive"
      PROVE  o \in raw' \/ o = Doomed' \/ \E x \in live' : m_ptr'[x] = o
  BY <1>3, ConstantsAssumption DEF Shared
<1> QED BY <1>1, <1>2, <1>3 DEF Shared

LEMMA ConstructNullInv ==
  ASSUME HandleInv, NEW h \in Handle, NEW d \in Deleter, ConstructNull(h, d)
  PROVE  HandleInv'
<1>1. /\ stack = <<>> /\ h \in Root /\ h \notin live /\ stack' = <<>>
      /\ m_ptr' = [m_ptr EXCEPT ![h] = Null] /\ m_deleter' = [m_deleter EXCEPT ![h] = d]
      /\ live' = live \cup {h} /\ obj' = obj /\ mate' = mate /\ raw' = raw
  BY DEF ConstructNull
<1>2. StateOK /\ Doomed = Null /\ Doomed' = Null /\ Items(stack) = {}
  BY <1>1, Calm, CalmNext DEF HandleInv
<1>3. StateOK'
  BY <1>1, <1>2 DEF StateOK
<1>4. m_ptr'[h] = Null /\ \A g \in live : g # h /\ m_ptr'[g] = m_ptr[g]
  BY <1>1, <1>2 DEF StateOK
<1>5. Shared'
  BY <1>1, <1>2, <1>4 DEF HandleInv, Shared
<1>6. MembersLive'
  BY <1>1 DEF HandleInv, MembersLive
<1>7. Acyclic'
  <2>1. Acyclic /\ NoCycle(h, Null)
    BY NullIsFree DEF HandleInv
  <2> QED BY <1>1, <1>4, <2>1, NewLink
<1>8. PendingOK' /\ PairsOK'
  <2>1. \A g \in live : Fits(m_deleter[g], m_ptr[g])
    BY <1>2 DEF HandleInv, PairsOK
  <2>2. \A g \in live : m_deleter'[g] = m_deleter[g]
    BY <1>1, <1>2, <1>4 DEF StateOK
  <2>3. \A g \in live' : Fits(m_deleter[g], m_ptr[g])'
    BY <1>1, <1>4, <2>1, <2>2 DEF Fits
  <2> QED BY <1>1, <2>3, QuietNext
<1> QED BY <1>3, <1>5, <1>6, <1>7, <1>8 DEF HandleInv

LEMMA ReleaseInv ==
  ASSUME HandleInv, NEW h \in Handle, Release(h)
  PROVE  HandleInv'
<1>1. /\ stack = <<>> /\ h \in live /\ m_ptr[h] # Null /\ stack' = <<>>
      /\ m_ptr' = [m_ptr EXCEPT ![h] = Null] /\ raw' = raw \cup {m_ptr[h]}
      /\ m_deleter' = m_deleter /\ live' = live /\ obj' = obj /\ mate' = mate
  BY DEF Release
<1>2. StateOK /\ Doomed = Null /\ Doomed' = Null /\ Items(stack) = {}
  BY <1>1, Calm, CalmNext DEF HandleInv
<1>3. m_ptr[h] \in Object /\ m_ptr'[h] = Null /\ \A g \in live : g # h => m_ptr'[g] = m_ptr[g]
  BY <1>1, <1>2 DEF StateOK
<1>4. StateOK'
  BY <1>1, <1>2, <1>3 DEF StateOK
<1>5. Shared'
  BY <1>1, <1>2, <1>3 DEF HandleInv, Shared
<1>6. MembersLive'
  BY <1>1 DEF HandleInv, MembersLive
<1>7. Acyclic'
  <2>1. Acyclic /\ NoCycle(h, Null)
    BY NullIsFree DEF HandleInv
  <2> QED BY <1>1, <1>3, <2>1, NewLink
<1>8. PendingOK' /\ PairsOK'
  <2>1. \A g \in live : Fits(m_deleter[g], m_ptr[g])
    BY <1>2 DEF HandleInv, PairsOK
  <2>2. \A g \in live' : Fits(m_deleter[g], m_ptr[g])'
    BY <1>1, <1>3, <2>1 DEF Fits
  <2> QED BY <1>1, <2>2, QuietNext
<1> QED BY <1>4, <1>5, <1>6, <1>7, <1>8 DEF HandleInv

LEMMA MoveConstructInv ==
  ASSUME HandleInv, NEW h \in Handle, NEW src \in Handle, MoveConstruct(h, src)
  PROVE  HandleInv'
<1>1. /\ stack = <<>> /\ h \in Root /\ h \notin live /\ src \in live /\ h # src /\ stack' = <<>>
      /\ m_ptr' = [m_ptr EXCEPT ![h] = m_ptr[src], ![src] = Null]
      /\ m_deleter' = [m_deleter EXCEPT ![h] = m_deleter[src]]
      /\ live' = live \cup {h} /\ obj' = obj /\ mate' = mate /\ raw' = raw
  BY DEF MoveConstruct
<1>2. StateOK /\ Doomed = Null /\ Doomed' = Null /\ Items(stack) = {}
  BY <1>1, Calm, CalmNext DEF HandleInv
<1>3. /\ m_ptr[src] \in Object \cup {Null} /\ m_ptr'[h] = m_ptr[src] /\ m_ptr'[src] = Null
      /\ \A g \in live : g # h /\ (g # src => m_ptr'[g] = m_ptr[g])
  BY <1>1, <1>2 DEF StateOK
<1>4. StateOK'
  BY <1>1, <1>2, <1>3 DEF StateOK
<1>5. Shared'
  <2> DEFINE from == [x \in live' |-> IF x = h THEN src ELSE x]
  <2>1. from \in [live' -> live] /\ \A x \in live' : from[x] = IF x = h THEN src ELSE x
    BY <1>1
  <2>2. Shared
    BY DEF HandleInv
  <2> HIDE DEF from
  <2>3. \A x \in live' : m_ptr'[x] # Null => m_ptr'[x] = m_ptr[from[x]]
    BY <1>1, <1>3, <2>1
  <2>4. \A x, y \in live' : m_ptr'[x] # Null /\ from[x] = from[y] /\ m_ptr'[y] # Null => x = y
    <3>1. \A x \in live' : m_ptr'[x] # Null => x # src
      BY <1>3
    <3> QED BY <2>1, <3>1
  <2>5. \A y \in live : m_ptr[y] # Null => \E x \in live' : m_ptr'[x] = m_ptr[y]
    BY <1>1, <1>3
  <2>6. Doomed = Null /\ Doomed' = Null /\ obj' = obj /\ raw' = raw
    BY <1>1, <1>2
  <2> QED BY <2>1, <2>2, <2>3, <2>4, <2>5, <2>6, Moved
<1>6. MembersLive'
  BY <1>1 DEF HandleInv, MembersLive
<1>7. Acyclic'
  <2>1. Acyclic /\ NoCycle(h, m_ptr[src])
    BY <1>1, <1>2, <1>3, RootIsFree DEF HandleInv
  <2>2. \A n \in live' : \/ m_ptr'[n] = Null
                         \/ n # h /\ n \in live /\ m_ptr'[n] = m_ptr[n]
                         \/ n = h /\ m_ptr'[n] = m_ptr[src]
    BY <1>1, <1>3
  <2> QED BY <2>1, <2>2, NewLink
<1>8. PendingOK' /\ PairsOK'
  <2>1. \A g \in live : Fits(m_deleter[g], m_ptr[g])
    BY <1>2 DEF HandleInv, PairsOK
  <2>2. m_deleter'[h] = m_deleter[src] /\ \A g \in live : m_deleter'[g] = m_deleter[g]
    BY <1>1, <1>2, <1>3 DEF StateOK
  <2>3. \A g \in live' : Fits(m_deleter[g], m_ptr[g])'
    BY <1>1, <1>3, <2>1, <2>2 DEF Fits
  <2> QED BY <1>1, <2>3, QuietNext
<1> QED BY <1>4, <1>5, <1>6, <1>7, <1>8 DEF HandleInv

LEMMA SwapInv ==
  ASSUME HandleInv, NEW h \in Handle, NEW g \in Handle, Swap(h, g)
  PROVE  HandleInv'
<1>1. /\ stack = <<>> /\ h \in live /\ g \in live /\ h # g /\ stack' = <<>>
      /\ NoCycle(h, m_ptr[g]) /\ NoCycle(g, m_ptr[h])
      /\ m_ptr' = [m_ptr EXCEPT ![h] = m_ptr[g], ![g] = m_ptr[h]]
      /\ m_deleter' = [m_deleter EXCEPT ![h] = m_deleter[g], ![g] = m_deleter[h]]
      /\ live' = live /\ obj' = obj /\ mate' = mate /\ raw' = raw
  BY DEF Swap
<1>2. StateOK /\ Doomed = Null /\ Doomed' = Null /\ Items(stack) = {}
  BY <1>1, Calm, CalmNext DEF HandleInv
<1>3. /\ m_ptr'[h] = m_ptr[g] /\ m_ptr'[g] = m_ptr[h]
      /\ \A x \in live : x # h /\ x # g => m_ptr'[x] = m_ptr[x]
      /\ m_deleter'[h] = m_deleter[g] /\ m_deleter'[g] = m_deleter[h]
      /\ \A x \in live : x # h /\ x # g => m_deleter'[x] = m_deleter[x]
  BY <1>1, <1>2 DEF StateOK
<1>4. StateOK'
  BY <1>1, <1>2 DEF StateOK
<1>5. Shared'
  <2> DEFINE from == [x \in live' |-> IF x = h THEN g ELSE IF x = g THEN h ELSE x]
  <2>1. /\ from \in [live' -> live]
        /\ \A x \in live' : from[x] = IF x = h THEN g ELSE IF x = g THEN h ELSE x
    BY <1>1
  <2>2. Shared
    BY DEF HandleInv
  <2> HIDE DEF from
  <2>3. \A x \in live' : m_ptr'[x] # Null => m_ptr'[x] = m_ptr[from[x]]
    BY <1>1, <1>3, <2>1
  <2>4. \A x, y \in live' : m_ptr'[x] # Null /\ from[x] = from[y] /\ m_ptr'[y] # Null => x = y
    BY <1>1, <1>3, <2>1
  <2>5. \A y \in live : m_ptr[y] # Null => \E x \in live' : m_ptr'[x] = m_ptr[y]
    BY <1>1, <1>3
  <2>6. Doomed = Null /\ Doomed' = Null /\ obj' = obj /\ raw' = raw
    BY <1>1, <1>2
  <2> QED BY <2>1, <2>2, <2>3, <2>4, <2>5, <2>6, Moved
<1>6. MembersLive'
  BY <1>1 DEF HandleInv, MembersLive
<1>7. Acyclic'
  BY <1>1, <1>3, SwappedLinks DEF HandleInv
<1>8. PendingOK' /\ PairsOK'
  <2>1. \A x \in live : Fits(m_deleter[x], m_ptr[x])
    BY <1>2 DEF HandleInv, PairsOK
  <2>2. \A x \in live' : Fits(m_deleter[x], m_ptr[x])'
    BY <1>1, <1>3, <2>1 DEF Fits
  <2> QED BY <1>1, <2>2, QuietNext
<1> QED BY <1>4, <1>5, <1>6, <1>7, <1>8 DEF HandleInv

\* A new object, or one that the caller had, is given to h.
LEMMA Given ==
  ASSUME StateOK, Shared, MembersLive, Acyclic, Doomed = Null,
         NEW h \in Handle, NEW o \in Object, obj[o] = "fresh" \/ o \in raw, h \notin Born(o),
         NoCycle(h, o),
         m_ptr' = [x \in Handle |->
                     IF x = h THEN o ELSE IF x \in Born(o) THEN Null ELSE m_ptr[x]],
         live' = live \cup {h} \cup Born(o), Give(o),
         Doomed' = IF h \in live THEN m_ptr[h] ELSE Null
  PROVE  Shared' /\ MembersLive' /\ Acyclic'
<1>1. /\ live \subseteq Handle /\ live' \subseteq Handle /\ raw \subseteq Object
      /\ m_ptr \in [Handle -> Object \cup {Null}]
      /\ \A x \in Born(o) : x = o /\ x \in Node /\ x \notin live
      /\ o \in Node => o \in live'
      /\ o # Null /\ Null \notin Object
  BY ConstantsAssumption DEF StateOK, Born, Handle
<1>2. /\ m_ptr'[h] = o
      /\ \A x \in live' : \/ x = h
                          \/ x # h /\ m_ptr'[x] = Null
                          \/ x # h /\ x \in live /\ m_ptr'[x] = m_ptr[x]
      /\ \A x \in live : x # h => m_ptr'[x] = m_ptr[x]
  BY <1>1
<1>3. /\ obj'[o] = "alive" /\ \A p \in Object : p # o => obj'[p] = obj[p]
      /\ raw' = raw \ {o} /\ obj[o] \in {"fresh", "alive"}
  BY DEF StateOK, Shared, Give
<1>4. \A x \in live : m_ptr[x] # o
  BY <1>1 DEF Shared
<1>5. Shared'
  <2>1. ASSUME NEW x \in live', m_ptr'[x] # Null
        PROVE  /\ obj'[m_ptr'[x]] = "alive" /\ m_ptr'[x] \notin raw' /\ m_ptr'[x] # Doomed'
               /\ \A y \in live' : m_ptr'[y] = m_ptr'[x] => y = x
    <3>1. CASE x = h
      <4>1. \A y \in live' : m_ptr'[y] = o => y = h
        BY <1>1, <1>2, <1>4
      <4>2. Doomed' # o
        BY <1>1, <1>4
      <4> QED BY <1>2, <1>3, <3>1, <4>1, <4>2
    <3>2. CASE x # h
      <4>1. x \in live /\ m_ptr'[x] = m_ptr[x] /\ m_ptr[x] # o /\ m_ptr[x] \in Object
        BY <1>1, <1>2, <1>4, <2>1, <3>2
      <4>2. /\ obj[m_ptr[x]] = "alive" /\ m_ptr[x] \notin raw
            /\ \A y \in live : m_ptr[y] = m_ptr[x] => y = x
        BY <2>1, <4>1 DEF Shared
      <4>3. \A y \in live' : m_ptr'[y] = m_ptr'[x] => y = x
        BY <1>2, <2>1, <4>1, <4>2
      <4>4. m_ptr[x] # Doomed'
        BY <2>1, <3>2, <4>1, <4>2
      <4> QED BY <1>3, <4>1, <4>2, <4>3, <4>4
    <3> QED BY <3>1, <3>2
  <2>2. ASSUME NEW p \in raw' PROVE obj'[p] = "alive" /\ p # Doomed'
    <3>1. p \in raw /\ p # o /\ p \in Object
      BY <1>1, <1>3
    <3>2. obj[p] = "alive" /\ \A x \in live : m_ptr[x] # p
      BY <1>1, <3>1 DEF Shared
    <3> QED BY <1>1, <1>3, <3>1, <3>2
  <2>3. Doomed' # Null => obj'[Doomed'] = "alive"
    <3> SUFFICES ASSUME Doomed' # Null PROVE obj'[Doomed'] = "alive"
      OBVIOUS
    <3>1. h \in live /\ Doomed' = m_ptr[h] /\ m_ptr[h] \in Object /\ m_ptr[h] # o
      BY <1>1, <1>4
    <3>2. obj[m_ptr[h]] = "alive"
      BY <3>1 DEF Shared
    <3> QED BY <1>3, <3>1, <3>2
  <2>4. ASSUME NEW p \in Object, obj'[p] = "alive"
        PROVE  p \in raw' \/ p = Doomed' \/ \E x \in live' : m_ptr'[x] = p
    <3>1. CASE p = o
      BY <1>2, <3>1
    <3>2. CASE p # o
      <4>1. obj[p] = "alive" /\ p # Null
        BY <1>1, <1>3, <2>4, <3>2
      <4>2. CASE p \in raw
        BY <1>3, <3>2, <4>2
      <4>3. CASE \E x \in live : m_ptr[x] = p
        <5>1. PICK x \in live : m_ptr[x] = p
          BY <4>3
        <5>2. CASE x = h
          BY <5>1, <5>2
        <5>3. CASE x # h
          BY <1>2, <5>1, <5>3
        <5> QED BY <5>2, <5>3
      <4> QED BY <4>1, <4>2, <4>3 DEF Shared
    <3> QED BY <3>1, <3>2
  <2> QED BY <2>1, <2>2, <2>3, <2>4 DEF Shared
<1>6. MembersLive'
  BY <1>1, <1>3, ConstantsAssumption DEF MembersLive
<1>7. Acyclic'
  BY <1>2, NewLink
<1> QED BY <1>5, <1>6, <1>7

LEMMA GivenType ==
  ASSUME StateOK, NEW h \in Handle, NEW o \in Object, Give(o),
         m_ptr' = [x \in Handle |->
                     IF x = h THEN o ELSE IF x \in Born(o) THEN Null ELSE m_ptr[x]],
         live' = live \cup {h} \cup Born(o)
  PROVE  /\ m_ptr' \in [Handle -> Object \cup {Null}] /\ live' \in SUBSET Handle
         /\ raw' \in SUBSET Object /\ obj' \in [Object -> {"fresh", "alive", "dying", "freed"}]
<1>1. Born(o) \subseteq Handle
  BY DEF Born, Handle
<1> QED BY <1>1 DEF StateOK, Give

LEMMA ConstructInv ==
  ASSUME HandleInv, NEW h \in Handle, NEW o \in Object, NEW d \in Deleter, Construct(h, o, d)
  PROVE  HandleInv'
<1>1. /\ stack = <<>> /\ h \in Root /\ h \notin live /\ stack' = <<>>
      /\ mate[o] = d /\ (obj[o] = "fresh" \/ o \in raw) /\ Give(o)
      /\ m_ptr' = [x \in Handle |->
                     IF x = h THEN o ELSE IF x \in Born(o) THEN Null ELSE m_ptr[x]]
      /\ m_deleter' = [m_deleter EXCEPT ![h] = d]
      /\ live' = live \cup {h} \cup Born(o) /\ mate' = mate
  BY DEF Construct, MayGive
<1>2. StateOK /\ Doomed = Null /\ Doomed' = Null /\ Items(stack) = {}
  BY <1>1, Calm, CalmNext DEF HandleInv
<1>3. h \notin Born(o) /\ NoCycle(h, o)
  BY <1>1, <1>2, RootIsFree, ConstantsAssumption DEF Born
<1>4. StateOK'
  <2>1. m_deleter' \in [Handle -> Deleter \cup {Garbage}] /\ stack' \in Seq(Steps)
    BY <1>1, <1>2 DEF StateOK
  <2> QED BY <1>1, <1>2, <2>1, GivenType DEF StateOK
<1>5. Shared' /\ MembersLive' /\ Acyclic'
  <2>1. Shared /\ MembersLive /\ Acyclic
    BY DEF HandleInv
  <2> QED BY <1>1, <1>2, <1>3, <2>1, Given
<1>6. PendingOK' /\ PairsOK'
  <2>1. \A g \in live : Fits(m_deleter[g], m_ptr[g])
    BY <1>2 DEF HandleInv, PairsOK
  <2>2. /\ m_deleter'[h] = d /\ m_ptr'[h] = o
        /\ \A g \in live' : g # h => m_ptr'[g] = Null \/ (g \in live /\ m_ptr'[g] = m_ptr[g])
        /\ \A g \in live : m_deleter'[g] = m_deleter[g]
    BY <1>1, <1>2, <1>4 DEF StateOK
  <2>3. \A g \in live' : Fits(m_deleter[g], m_ptr[g])'
    BY <1>1, <2>1, <2>2 DEF Fits
  <2> QED BY <1>1, <2>3, QuietNext
<1> QED BY <1>4, <1>5, <1>6 DEF HandleInv

\* A reset() that leaves h without a deleter to take over.
LEMMA ResetNext ==
  ASSUME StateOK, NEW h \in Handle, NEW t \in Seq(Steps),
         \A e \in Items(t) : e.do = "end" /\ m_ptr'[e.handle] = Null /\ e.handle \notin Node,
         stack' = Old(h) \o t, mate' = mate, Fits(m_deleter[h], m_ptr[h]),
         \A g \in live' : Fits(m_deleter[g], m_ptr[g])'
  PROVE  PendingOK' /\ PairsOK' /\ stack' \in Seq(Steps) /\ Doomed' = m_ptr[h]
<1>1. \A e \in Items(t) : e.do # "delete"
  OBVIOUS
<1>2. /\ stack' \in Seq(Steps)
      /\ \A e \in Items(stack') : e \in Items(t) \/ e.do = "delete"
      /\ stack' # <<>> => \A e \in Items(Tail(stack')) : e \in Items(t)
      /\ Doomed' = m_ptr[h]
      /\ Top("delete")' =>
           m_ptr[h] # Null /\ Head(stack').obj = m_ptr[h] /\ Head(stack').with = m_deleter[h]
  BY <1>1, AfterOld
<1>3. \A e \in Items(stack') : e.do # "take" /\ e.do # "free"
  BY <1>2
<1>4. PendingOK'
  BY <1>1, <1>2, <1>3 DEF PendingOK
<1>5. PairsOK'
  <2>1. Top("delete")' => Fits(Head(stack).with, Head(stack).obj)'
    BY <1>2 DEF Fits
  <2> QED BY <1>3, <2>1 DEF PairsOK
<1> QED BY <1>2, <1>4, <1>5

\* The object of h goes to the pending call of its deleter.
LEMMA Dropped ==
  ASSUME StateOK, Shared, MembersLive, Acyclic, Doomed = Null, NEW h \in live,
         m_ptr' = [m_ptr EXCEPT ![h] = Null], Doomed' = m_ptr[h],
         UNCHANGED <<live, obj, raw>>
  PROVE  Shared' /\ MembersLive' /\ Acyclic'
<1>1. /\ m_ptr'[h] = Null /\ \A g \in live : g # h => m_ptr'[g] = m_ptr[g]
      /\ live \subseteq Handle /\ \A g \in live : m_ptr[g] \in Object \cup {Null}
  BY DEF StateOK
<1>2. Shared'
  <2>1. \A g \in live : m_ptr'[g] # Null =>
          /\ obj[m_ptr'[g]] = "alive" /\ m_ptr'[g] \notin raw /\ m_ptr'[g] # Doomed'
          /\ \A x \in live : m_ptr'[x] = m_ptr'[g] => x = g
    BY <1>1 DEF Shared
  <2>2. \A o \in raw : obj[o] = "alive" /\ o # Doomed'
    BY ConstantsAssumption DEF Shared, StateOK
  <2>3. Doomed' # Null => obj[Doomed'] = "alive"
    BY DEF Shared
  <2>4. \A o \in Object : obj[o] = "alive" =>
          o \in raw \/ o = Doomed' \/ \E g \in live : m_ptr'[g] = o
    BY <1>1, ConstantsAssumption DEF Shared
  <2> QED BY <2>1, <2>2, <2>3, <2>4 DEF Shared
<1>3. MembersLive'
  BY DEF MembersLive
<1>4. Acyclic'
  <2>1. NoCycle(h, Null)
    BY NullIsFree
  <2> QED BY <1>1, <2>1, NewLink
<1> QED BY <1>2, <1>3, <1>4

LEMMA ResetNullInv ==
  ASSUME HandleInv, NEW h \in Handle, ResetNull(h)
  PROVE  HandleInv'
<1>1. /\ stack = <<>> /\ h \in live /\ stack' = Old(h)
      /\ m_ptr' = [m_ptr EXCEPT ![h] = Null] /\ UNCHANGED <<live, obj, raw>>
      /\ m_deleter' = m_deleter /\ mate' = mate
  BY DEF ResetNull
<1>2. StateOK /\ Shared /\ MembersLive /\ Acyclic /\ Doomed = Null /\ Items(stack) = {}
  BY <1>1, Calm DEF HandleInv
<1>3. Old(h) \in Seq(Steps)
  <2>1. m_ptr[h] \in Object \cup {Null} /\ m_deleter[h] \in Deleter \cup {Garbage}
    BY <1>2 DEF StateOK
  <2> QED BY <2>1, DeleteStep, OneItem, NoItems DEF Old
<1>4. stack' = Old(h) \o <<>>
  BY <1>1, <1>3, ConcatEmptySeq
<1>5. \A g \in live : Fits(m_deleter[g], m_ptr[g])
  BY <1>2 DEF HandleInv, PairsOK
<1>6. \A g \in live' : Fits(m_deleter[g], m_ptr[g])'
  BY <1>1, <1>2, <1>5 DEF Fits, StateOK
<1>7. PendingOK' /\ PairsOK' /\ stack' \in Seq(Steps) /\ Doomed' = m_ptr[h]
  <2>1. <<>> \in Seq(Steps) /\ Items(<<>>) = {}
    BY NoItems
  <2> QED BY <1>1, <1>2, <1>4, <1>5, <1>6, <2>1, ResetNext
<1>8. Shared' /\ MembersLive' /\ Acyclic'
  BY <1>1, <1>2, <1>7, Dropped
<1>9. StateOK'
  BY <1>1, <1>2, <1>7 DEF StateOK
<1> QED BY <1>7, <1>8, <1>9 DEF HandleInv

LEMMA DestroyInv ==
  ASSUME HandleInv, NEW h \in Handle, Destroy(h)
  PROVE  HandleInv'
<1>1. /\ stack = <<>> /\ h \in live /\ h \in Root /\ stack' = Old(h) \o <<EndLife(h)>>
      /\ m_ptr' = [m_ptr EXCEPT ![h] = Null] /\ UNCHANGED <<live, obj, raw>>
      /\ m_deleter' = m_deleter /\ mate' = mate
  BY DEF Destroy
<1>2. StateOK /\ Shared /\ MembersLive /\ Acyclic /\ Doomed = Null /\ Items(stack) = {}
  BY <1>1, Calm DEF HandleInv
<1>3. \A g \in live : Fits(m_deleter[g], m_ptr[g])
  BY <1>2 DEF HandleInv, PairsOK
<1>4. m_ptr'[h] = Null /\ \A g \in live' : Fits(m_deleter[g], m_ptr[g])'
  BY <1>1, <1>2, <1>3 DEF Fits, StateOK
<1>5. PendingOK' /\ PairsOK' /\ stack' \in Seq(Steps) /\ Doomed' = m_ptr[h]
  <2> DEFINE t == <<EndLife(h)>>
  <2>1. t \in Seq(Steps) /\ Items(t) = {EndLife(h)}
    BY EndStep, OneItem
  <2>2. h \notin Node
    BY <1>1, ConstantsAssumption
  <2>3. \A e \in Items(t) : e.do = "end" /\ m_ptr'[e.handle] = Null /\ e.handle \notin Node
    BY <1>4, <2>1, <2>2, EndStep
  <2>4. stack' = Old(h) \o t
    BY <1>1
  <2> HIDE DEF t
  <2> QED BY <1>1, <1>2, <1>3, <1>4, <2>1, <2>3, <2>4, ResetNext
<1>6. Shared' /\ MembersLive' /\ Acyclic'
  BY <1>1, <1>2, <1>5, Dropped
<1>7. StateOK'
  BY <1>1, <1>2, <1>5 DEF StateOK
<1> QED BY <1>5, <1>6, <1>7 DEF HandleInv

LEMMA ResetInv ==
  ASSUME HandleInv, NEW h \in Handle, NEW o \in Object, Reset(h, o)
  PROVE  HandleInv'
<1>1. /\ stack = <<>> /\ h \in live /\ stack' = Old(h)
      /\ mate[o] = m_deleter[h] /\ (obj[o] = "fresh" \/ o \in raw) /\ NoCycle(h, o) /\ Give(o)
      /\ m_ptr' = [x \in Handle |->
                     IF x = h THEN o ELSE IF x \in Born(o) THEN Null ELSE m_ptr[x]]
      /\ live' = live \cup {h} \cup Born(o) /\ m_deleter' = m_deleter /\ mate' = mate
  BY DEF Reset, MayGive
<1>2. StateOK /\ Shared /\ MembersLive /\ Acyclic /\ Doomed = Null /\ Items(stack) = {}
  BY <1>1, Calm DEF HandleInv
<1>3. h \notin Born(o) /\ live \subseteq Handle
  BY <1>1, <1>2 DEF Born, StateOK
<1>4. Old(h) \in Seq(Steps)
  <2>1. m_ptr[h] \in Object \cup {Null} /\ m_deleter[h] \in Deleter \cup {Garbage}
    BY <1>2 DEF StateOK
  <2> QED BY <2>1, DeleteStep, OneItem, NoItems DEF Old
<1>5. stack' = Old(h) \o <<>>
  BY <1>1, <1>4, ConcatEmptySeq
<1>6. \A g \in live : Fits(m_deleter[g], m_ptr[g])
  BY <1>2 DEF HandleInv, PairsOK
<1>7. \A g \in live' : Fits(m_deleter[g], m_ptr[g])'
  <2>1. /\ m_ptr'[h] = o
        /\ \A g \in live' : g # h => m_ptr'[g] = Null \/ (g \in live /\ m_ptr'[g] = m_ptr[g])
    BY <1>1, <1>3 DEF Born, Handle
  <2> QED BY <1>1, <1>6, <2>1 DEF Fits
<1>8. PendingOK' /\ PairsOK' /\ stack' \in Seq(Steps) /\ Doomed' = m_ptr[h]
  <2>1. <<>> \in Seq(Steps) /\ Items(<<>>) = {}
    BY NoItems
  <2> QED BY <1>1, <1>2, <1>5, <1>6, <1>7, <2>1, ResetNext
<1>9. Shared' /\ MembersLive' /\ Acyclic'
  BY <1>1, <1>2, <1>3, <1>8, Given
<1>10. StateOK'
  BY <1>1, <1>2, <1>8, GivenType DEF StateOK
<1> QED BY <1>8, <1>9, <1>10 DEF HandleInv

\* The old object of dst is deleted before dst has the deleter of its new one.
LEMMA MoveAssignInv ==
  ASSUME HandleInv, NEW dst \in Handle, NEW src \in Handle, MoveAssign(dst, src)
  PROVE  HandleInv'
<1>1. /\ stack = <<>> /\ dst \in live /\ src \in live /\ dst # src /\ NoCycle(dst, m_ptr[src])
      /\ stack' = Old(dst) \o <<TakeDeleter(dst, src)>>
      /\ m_ptr' = [m_ptr EXCEPT ![dst] = m_ptr[src], ![src] = Null]
      /\ m_deleter' = m_deleter /\ live' = live /\ obj' = obj /\ mate' = mate /\ raw' = raw
  BY DEF MoveAssign
<1>2. StateOK /\ Shared /\ MembersLive /\ Acyclic /\ Doomed = Null /\ Items(stack) = {}
  BY <1>1, Calm DEF HandleInv
<1>3. /\ m_ptr'[dst] = m_ptr[src] /\ m_ptr'[src] = Null
      /\ \A g \in live : g # dst /\ g # src => m_ptr'[g] = m_ptr[g]
      /\ \A g \in live : m_ptr[g] \in Object \cup {Null}
  BY <1>1, <1>2 DEF StateOK
<1> DEFINE e == TakeDeleter(dst, src)
<1>4. e \in Steps /\ e.do = "take" /\ e.dst = dst /\ e.src = src
  BY TakeStep
<1>5. <<e>> \in Seq(Steps) /\ Items(<<e>>) = {e} /\ stack' = Old(dst) \o <<e>>
  BY <1>1, <1>4, OneItem
<1> HIDE DEF e
<1>6. /\ stack' \in Seq(Steps)
      /\ e \in Items(stack') /\ \A f \in Items(stack') : f = e \/ f.do = "delete"
      /\ stack' # <<>> => \A f \in Items(Tail(stack')) : f = e
      /\ Doomed' = m_ptr[dst]
      /\ Top("delete")' => /\ m_ptr[dst] # Null /\ Head(stack').obj = m_ptr[dst]
                           /\ Head(stack').with = m_deleter[dst]
  <2>1. \A f \in Items(<<e>>) : f = e /\ f.do # "delete"
    BY <1>4, <1>5
  <2>2. /\ stack' \in Seq(Steps)
        /\ Items(<<e>>) \subseteq Items(stack')
        /\ \A f \in Items(stack') : f \in Items(<<e>>) \/ f.do = "delete"
        /\ stack' # <<>> => \A f \in Items(Tail(stack')) : f \in Items(<<e>>)
        /\ Doomed' = m_ptr[dst]
        /\ Top("delete")' => /\ m_ptr[dst] # Null /\ Head(stack').obj = m_ptr[dst]
                             /\ Head(stack').with = m_deleter[dst]
    BY <1>2, <1>5, <2>1, AfterOld
  <2> QED BY <1>5, <2>1, <2>2
<1>7. StateOK'
  BY <1>1, <1>2, <1>6 DEF StateOK
<1>8. Shared'
  <2>1. ASSUME NEW g \in live, m_ptr'[g] # Null
        PROVE  /\ obj[m_ptr'[g]] = "alive" /\ m_ptr'[g] \notin raw /\ m_ptr'[g] # Doomed'
               /\ \A x \in live : m_ptr'[x] = m_ptr'[g] => x = g
    <3>1. PICK y \in live : /\ m_ptr'[g] = m_ptr[y] /\ y # dst
                            /\ y = IF g = dst THEN src ELSE g
      BY <1>1, <1>3, <2>1
    <3>2. /\ obj[m_ptr[y]] = "alive" /\ m_ptr[y] \notin raw
          /\ \A x \in live : m_ptr[x] = m_ptr[y] => x = y
      BY <1>2, <2>1, <3>1 DEF Shared
    <3>3. m_ptr[y] # Doomed'
      BY <1>1, <1>6, <3>1, <3>2
    <3>4. ASSUME NEW x \in live, m_ptr'[x] = m_ptr'[g] PROVE x = g
      <4>1. CASE x = dst
        <5>1. src = y
          BY <1>1, <1>3, <3>1, <3>2, <3>4, <4>1
        <5>2. CASE g = dst
          BY <4>1, <5>2
        <5>3. CASE g # dst
          BY <1>3, <2>1, <3>1, <5>1, <5>3
        <5> QED BY <5>2, <5>3
      <4>2. CASE x # dst
        <5>1. x # src /\ m_ptr[x] = m_ptr[y]
          BY <1>3, <2>1, <3>1, <3>4, <4>2
        <5>2. x = y
          BY <3>2, <5>1
        <5> QED BY <3>1, <5>1, <5>2
      <4> QED BY <4>1, <4>2
    <3> QED BY <3>1, <3>2, <3>3, <3>4
  <2>2. \A o \in raw : obj[o] = "alive" /\ o # Doomed'
    BY <1>1, <1>2, <1>3, <1>6, ConstantsAssumption DEF Shared, StateOK
  <2>3. Doomed' # Null => obj[Doomed'] = "alive"
    BY <1>1, <1>2, <1>6 DEF Shared
  <2>4. ASSUME NEW o \in Object, obj[o] = "alive"
        PROVE  o \in raw \/ o = Doomed' \/ \E g \in live : m_ptr'[g] = o
    <3>1. CASE o \in raw
      BY <3>1
    <3>2. CASE \E g \in live : m_ptr[g] = o
      <4>1. PICK g \in live : m_ptr[g] = o
        BY <3>2
      <4>2. CASE g = dst
        BY <1>6, <4>1, <4>2
      <4>3. CASE g = src
        BY <1>1, <1>3, <4>1, <4>3
      <4>4. CASE g # dst /\ g # src
        BY <1>3, <4>1, <4>4
      <4> QED BY <4>2, <4>3, <4>4
    <3> QED BY <1>2, <2>4, <3>1, <3>2, ConstantsAssumption DEF Shared
  <2> QED BY <1>1, <2>1, <2>2, <2>3, <2>4 DEF Shared
<1>9. MembersLive'
  BY <1>1, <1>2 DEF MembersLive
<1>10. Acyclic'
  <2>1. \A n \in live' : \/ m_ptr'[n] = Null
                         \/ n # dst /\ n \in live /\ m_ptr'[n] = m_ptr[n]
                         \/ n = dst /\ m_ptr'[n] = m_ptr[src]
    BY <1>1, <1>3
  <2>2. Acyclic /\ NoCycle(dst, m_ptr[src])
    BY <1>1, <1>2
  <2> QED BY <2>1, <2>2, NewLink
<1>11. PendingOK'
  BY <1>4, <1>6 DEF PendingOK
<1>12. PairsOK'
  <2>1. \A g \in live : Fits(m_deleter[g], m_ptr[g])
    BY <1>2 DEF HandleInv, PairsOK
  <2>2. Top("delete")' => Fits(Head(stack).with, Head(stack).obj)'
    BY <1>1, <1>6, <2>1 DEF Fits
  <2>3. ASSUME NEW g \in live
        PROVE  Fits(m_deleter[g], m_ptr[g])' \/ \E f \in Items(stack') : f.do = "take" /\ f.dst = g
    <3>1. CASE g = dst
      BY <1>4, <1>6, <3>1
    <3>2. CASE g # dst
      BY <1>1, <1>3, <2>1, <3>2 DEF Fits
    <3> QED BY <3>1, <3>2
  <2>4. Fits(m_deleter[src], m_ptr[dst])'
    BY <1>1, <1>3, <2>1 DEF Fits
  \* The object that is deleted does not lead to dst, which owned it.
  <2>5. NoCycle(dst, Doomed)'
    <3>1. NoCycle(dst, m_ptr[dst])
      BY <1>1, <1>2 DEF Acyclic
    <3>2. \A n \in live' \cap Object :
            m_ptr'[n] = Null \/ (n \in live /\ m_ptr'[n] = m_ptr[n]) \/ n = dst
      BY <1>1, <1>3
    <3>3. PICK p : p = m_ptr[dst]
      OBVIOUS
    <3>4. NoCycle(dst, p)'
      BY <3>1, <3>2, <3>3, FewerLinks
    <3> QED BY <1>6, <3>3, <3>4
  <2>6. \A f \in Items(stack') : f.do = "take" => f = e
    BY <1>6
  <2> QED BY <1>1, <1>4, <2>2, <2>3, <2>4, <2>5, <2>6 DEF PairsOK
<1> QED BY <1>7, <1>8, <1>9, <1>10, <1>11, <1>12 DEF HandleInv

\* What the invariant says of the next step and of the ones after it.
LEMMA Running ==
  ASSUME HandleInv, stack # <<>>
  PROVE  /\ Head(stack) \in Steps /\ Tail(stack) \in Seq(Steps)
         /\ Items(stack) = {Head(stack)} \cup Items(Tail(stack))
         /\ \A e \in Items(Tail(stack)) : e \in Steps /\ e.do # "delete"
         /\ Head(stack).do # "delete" => Doomed = Null
<1>1. /\ Head(stack) \in Steps /\ Tail(stack) \in Seq(Steps)
      /\ Items(stack) = {Head(stack)} \cup Items(Tail(stack))
  BY ItemsSplit DEF HandleInv, StateOK
<1>2. \A e \in Items(Tail(stack)) : e \in Steps
  BY <1>1, ElementOfSeq DEF Items
<1>3. Head(stack).do # "delete" => Doomed = Null
  BY DEF Doomed, Top
<1> QED BY <1>1, <1>2, <1>3 DEF HandleInv, PendingOK

\* A step that calls no deleter is followed by none that does.
LEMMA TailNext ==
  ASSUME HandleInv, stack # <<>>, stack' = Tail(stack)
  PROVE  /\ stack' \in Seq(Steps) /\ Items(stack') = Items(Tail(stack))
         /\ Doomed' = Null /\ ~Top("delete")'
         /\ stack' # <<>> => \A e \in Items(Tail(stack')) : e.do # "delete"
<1>1. Tail(stack) \in Seq(Steps) /\ \A e \in Items(Tail(stack)) : e.do # "delete"
  BY Running
<1>2. stack' # <<>> => /\ Head(stack') \in Items(stack')
                       /\ \A e \in Items(Tail(stack')) : e \in Items(stack')
  BY <1>1, ItemsSplit
<1>3. ~Top("delete")'
  BY <1>1, <1>2 DEF Top
<1> QED BY <1>1, <1>2, <1>3 DEF Doomed

LEMMA EndDeleterInv ==
  ASSUME HandleInv, EndDeleter
  PROVE  HandleInv'
<1>1. /\ stack # <<>> /\ Head(stack).do = "free" /\ stack' = Tail(stack)
      /\ obj' = [obj EXCEPT ![Head(stack).obj] = "freed"]
      /\ UNCHANGED <<m_ptr, m_deleter, live, mate, raw>>
  BY DEF EndDeleter, Top
<1>2. /\ Items(stack) = {Head(stack)} \cup Items(Tail(stack)) /\ Doomed = Null
      /\ Head(stack) \in Steps
      /\ stack' \in Seq(Steps) /\ Items(stack') = Items(Tail(stack)) /\ Doomed' = Null
      /\ ~Top("delete")' /\ (stack' # <<>> => \A e \in Items(Tail(stack')) : e.do # "delete")
  BY <1>1, Running, TailNext
<1>3. PICK o \in Object : o = Head(stack).obj /\ obj[o] # "alive"
  BY <1>1, <1>2, StepFields DEF HandleInv, PendingOK
<1>4. /\ obj'[o] = "freed" /\ \A p \in Object : p # o => obj'[p] = obj[p]
      /\ \A p \in Object : obj'[p] = "alive" <=> obj[p] = "alive"
  BY <1>1, <1>3 DEF HandleInv, StateOK
<1>5. StateOK'
  BY <1>1, <1>2, <1>3 DEF HandleInv, StateOK
<1>6. Shared'
  <2>1. Shared /\ raw \subseteq Object /\ \A h \in live : m_ptr[h] \in Object \cup {Null}
    BY DEF HandleInv, StateOK
  <2> QED BY <1>1, <1>2, <1>4, <2>1 DEF Shared
<1>7. MembersLive'
  BY <1>1, <1>4, ConstantsAssumption DEF HandleInv, MembersLive
<1>8. PendingOK'
  <2>1. \A e \in Items(stack') : /\ e.do = "free" => e.obj \in Object
                                 /\ e.do = "end" => e.handle \in Handle
    BY <1>1, <1>2, Running, StepFields
  <2>2. \A e \in Items(stack') :
          /\ e.do = "free" => obj[e.obj] # "alive"
          /\ e.do = "end" => m_ptr[e.handle] = Null /\ (e.handle \in Node => obj[e.handle] # "alive")
    BY <1>2 DEF HandleInv, PendingOK
  <2> QED BY <1>1, <1>2, <1>4, <2>1, <2>2, ConstantsAssumption DEF PendingOK
<1>9. Acyclic'
  BY <1>1 DEF HandleInv, Acyclic, NoCycle, Closed
<1>10. PairsOK'
  <2>1. PairsOK
    BY DEF HandleInv
  <2>2. \A h \in live : \/ Fits(m_deleter[h], m_ptr[h])
                        \/ \E e \in Items(stack') : e.do = "take" /\ e.dst = h
    BY <1>1, <1>2, <2>1 DEF PairsOK
  <2>3. \A e \in Items(stack') : e.do = "take" =>
          /\ e.src # e.dst /\ Fits(m_deleter[e.src], m_ptr[e.dst])
          /\ \A f \in Items(stack') : f.do = "take" => f = e
    BY <1>2, <2>1 DEF PairsOK
  <2>4. \A h : NoCycle(h, Null)'
    BY NullIsFreeNext
  <2> QED BY <1>1, <1>2, <2>2, <2>3, <2>4 DEF PairsOK, Fits
<1> QED BY <1>5, <1>6, <1>7, <1>8, <1>9, <1>10 DEF HandleInv

LEMMA EndLifetimeInv ==
  ASSUME HandleInv, EndLifetime
  PROVE  HandleInv'
<1>1. /\ stack # <<>> /\ Head(stack).do = "end" /\ stack' = Tail(stack)
      /\ live' = live \ {Head(stack).handle}
      /\ UNCHANGED <<m_ptr, m_deleter, obj, mate, raw>>
  BY DEF EndLifetime, Top
<1>2. /\ Items(stack) = {Head(stack)} \cup Items(Tail(stack)) /\ Doomed = Null
      /\ Head(stack) \in Steps
      /\ stack' \in Seq(Steps) /\ Items(stack') = Items(Tail(stack)) /\ Doomed' = Null
      /\ ~Top("delete")' /\ (stack' # <<>> => \A e \in Items(Tail(stack')) : e.do # "delete")
  BY <1>1, Running, TailNext
<1>3. PICK g \in Handle : /\ g = Head(stack).handle /\ m_ptr[g] = Null
                          /\ g \in Node => obj[g] # "alive"
  BY <1>1, <1>2, StepFields DEF HandleInv, PendingOK
<1>4. StateOK'
  BY <1>1, <1>2 DEF HandleInv, StateOK
<1>5. Shared'
  <2>1. Shared /\ Null \notin Object
    BY ConstantsAssumption DEF HandleInv
  <2> QED BY <1>1, <1>2, <1>3, <2>1 DEF Shared
<1>6. MembersLive'
  BY <1>1, <1>3 DEF HandleInv, MembersLive
<1>7. PendingOK'
  <2>1. PendingOK
    BY DEF HandleInv
  <2> QED BY <1>1, <1>2, <2>1 DEF PendingOK
<1>8. Acyclic'
  <2>1. \A S : Closed(S) => Closed(S)'
    BY <1>1 DEF Closed
  <2>2. \A h, o : NoCycle(h, o) => NoCycle(h, o)'
    BY <2>1 DEF NoCycle
  <2> QED BY <1>1, <2>2 DEF HandleInv, Acyclic
<1>9. PairsOK'
  <2>1. PairsOK
    BY DEF HandleInv
  <2>2. \A h \in live : \/ Fits(m_deleter[h], m_ptr[h])
                        \/ \E e \in Items(stack') : e.do = "take" /\ e.dst = h
    BY <1>1, <1>2, <2>1 DEF PairsOK
  <2>3. \A e \in Items(stack') : e.do = "take" =>
          /\ e.src # e.dst /\ Fits(m_deleter[e.src], m_ptr[e.dst])
          /\ \A f \in Items(stack') : f.do = "take" => f = e
    BY <1>2, <2>1 DEF PairsOK
  <2> QED BY <1>1, <1>2, <2>2, <2>3, NullIsFreeNext DEF PairsOK, Fits
<1> QED BY <1>4, <1>5, <1>6, <1>7, <1>8, <1>9 DEF HandleInv

LEMMA AssignDeleterInv ==
  ASSUME HandleInv, AssignDeleter
  PROVE  HandleInv'
<1>1. /\ stack # <<>> /\ Head(stack).do = "take" /\ stack' = Tail(stack)
      /\ UNCHANGED <<m_ptr, live, obj, mate, raw>>
  BY DEF AssignDeleter, Top
<1>2. /\ Items(stack) = {Head(stack)} \cup Items(Tail(stack)) /\ Doomed = Null
      /\ Head(stack) \in Steps
      /\ stack' \in Seq(Steps) /\ Items(stack') = Items(Tail(stack)) /\ Doomed' = Null
      /\ ~Top("delete")' /\ (stack' # <<>> => \A e \in Items(Tail(stack')) : e.do # "delete")
  BY <1>1, Running, TailNext
<1>3. PICK dst \in Handle, src \in Handle :
        /\ dst = Head(stack).dst /\ src = Head(stack).src /\ src # dst
        /\ Fits(m_deleter[src], m_ptr[dst])
        /\ \A f \in Items(stack) : f.do = "take" => f = Head(stack)
  BY <1>1, <1>2, StepFields DEF HandleInv, PairsOK
<1>4. m_deleter' = [m_deleter EXCEPT ![dst] = IF src \in live THEN m_deleter[src] ELSE Garbage]
  BY <1>3 DEF AssignDeleter
<1>5. /\ m_deleter'[dst] \in {m_deleter[src], Garbage}
      /\ \A h \in Handle : h # dst => m_deleter'[h] = m_deleter[h]
      /\ m_deleter' \in [Handle -> Deleter \cup {Garbage}]
  BY <1>4 DEF HandleInv, StateOK
<1>6. StateOK'
  BY <1>1, <1>2, <1>5 DEF HandleInv, StateOK
<1>7. Shared'
  BY <1>1, <1>2 DEF HandleInv, Shared
<1>8. MembersLive'
  BY <1>1 DEF HandleInv, MembersLive
<1>9. PendingOK'
  <2>1. PendingOK
    BY DEF HandleInv
  <2> QED BY <1>1, <1>2, <2>1 DEF PendingOK
<1>10. Acyclic'
  BY <1>1 DEF HandleInv, Acyclic, NoCycle, Closed
<1>11. PairsOK'
  <2>1. PairsOK /\ live \subseteq Handle
    BY DEF HandleInv, StateOK
  <2>2. ASSUME NEW h \in live PROVE Fits(m_deleter[h], m_ptr[h])'
    <3>1. CASE h = dst
      BY <1>1, <1>3, <1>5, <3>1 DEF Fits
    <3>2. CASE h # dst
      <4>1. Fits(m_deleter[h], m_ptr[h])
        BY <1>3, <2>1, <3>2 DEF PairsOK
      <4> QED BY <1>1, <1>5, <2>1, <3>2, <4>1 DEF Fits
    <3> QED BY <3>1, <3>2
  <2>3. \A e \in Items(stack') : e.do = "take" => e = Head(stack)
    BY <1>2, <1>3
  <2>4. Fits(m_deleter[src], m_ptr[dst])'
    BY <1>1, <1>3, <1>5 DEF Fits
  <2> QED BY <1>1, <1>2, <1>3, <2>2, <2>3, <2>4, NullIsFreeNext DEF PairsOK
<1> QED BY <1>6, <1>7, <1>8, <1>9, <1>10, <1>11 DEF HandleInv

\* Calling the deleter puts the rest of the object's destructor on the stack.
LEMMA Called ==
  ASSUME HandleInv, NEW o \in Object, CallDeleter(o)
  PROVE  /\ stack' \in Seq(Steps) /\ Items(Tail(stack)) \subseteq Items(stack')
         /\ \A e \in Items(stack') :
              \/ e \in Items(Tail(stack)) \/ e.do = "delete"
              \/ e.do = "free" /\ e.obj = o
              \/ e.do = "end" /\ e.handle = o /\ o \in Node
         /\ stack' # <<>> => \A e \in Items(Tail(stack')) : e.do # "delete"
         /\ Doomed' = IF o \in Node THEN m_ptr[o] ELSE Null
         /\ Top("delete")' => /\ o \in Node /\ m_ptr[o] # Null
                              /\ Head(stack').obj = m_ptr[o] /\ Head(stack').with = m_deleter[o]
<1>1. stack # <<>> /\ Head(stack).do = "delete" /\ o = Head(stack).obj
  BY DEF CallDeleter, Top
<1>2. Tail(stack) \in Seq(Steps) /\ \A e \in Items(Tail(stack)) : e.do # "delete"
  BY <1>1, Running
<1>3. Free(o) \in Steps /\ Free(o).do = "free" /\ Free(o).obj = o
  BY FreeStep
<1>4. CASE o \in Node
  <2> DEFINE two == <<EndLife(o), Free(o)>>
             t == two \o Tail(stack)
  <2>1. EndLife(o) \in Steps /\ EndLife(o).do = "end" /\ EndLife(o).handle = o /\ o \in Handle
    BY <1>4, EndStep DEF Handle
  <2>2. two \in Seq(Steps) /\ Len(two) = 2 /\ two[1] = EndLife(o) /\ two[2] = Free(o)
    BY <1>3, <2>1
  <2>3. Items(two) = {EndLife(o), Free(o)}
    <3> HIDE DEF two
    <3> QED BY <2>2 DEF Items
  <2> HIDE DEF two
  <2>4. t \in Seq(Steps) /\ Items(t) = {EndLife(o), Free(o)} \cup Items(Tail(stack))
    BY <1>2, <2>2, <2>3, ItemsBefore
  <2>5. Old(o) \in Seq(Steps)
    <3>1. m_ptr[o] \in Object \cup {Null} /\ m_deleter[o] \in Deleter \cup {Garbage}
      BY <2>1 DEF HandleInv, StateOK
    <3> QED BY <3>1, DeleteStep, OneItem, NoItems DEF Old
  <2>6. stack' = Old(o) \o t
    <3>1. stack' = (Old(o) \o two) \o Tail(stack) \/ stack' = Old(o) \o (two \o Tail(stack))
      BY <1>4 DEF CallDeleter, two
    <3>2. (Old(o) \o two) \o Tail(stack) = Old(o) \o (two \o Tail(stack))
      BY <1>2, <2>2, <2>5, ConcatAssociative
    <3> QED BY <3>1, <3>2
  <2> HIDE DEF t
  <2>7. \A e \in Items(t) : e.do # "delete"
    BY <1>2, <1>3, <2>1, <2>4
  <2>8. StateOK
    BY DEF HandleInv
  <2>9. /\ stack' \in Seq(Steps)
        /\ Items(t) \subseteq Items(stack')
        /\ \A e \in Items(stack') : e \in Items(t) \/ e.do = "delete"
        /\ stack' # <<>> => \A e \in Items(Tail(stack')) : e \in Items(t)
        /\ Doomed' = m_ptr[o]
        /\ Top("delete")' =>
             m_ptr[o] # Null /\ Head(stack').obj = m_ptr[o] /\ Head(stack').with = m_deleter[o]
    BY <2>1, <2>4, <2>6, <2>7, <2>8, AfterOld
  <2> QED BY <1>3, <1>4, <2>1, <2>4, <2>7, <2>9
<1>5. CASE o \notin Node
  <2>1. stack' = <<Free(o)>> \o Tail(stack)
    BY <1>5 DEF CallDeleter
  <2>2. /\ stack' \in Seq(Steps) /\ stack' # <<>>
        /\ Head(stack') = Free(o) /\ Tail(stack') = Tail(stack)
        /\ Items(stack') = {Free(o)} \cup Items(Tail(stack))
    BY <1>2, <1>3, <2>1, Pushed
  <2>3. ~Top("delete")' /\ Doomed' = Null
    BY <1>3, <2>2 DEF Top, Doomed
  <2> QED BY <1>2, <1>3, <1>5, <2>2, <2>3
<1> QED BY <1>4, <1>5

LEMMA CallDeleterInv ==
  ASSUME HandleInv, NEW o \in Object, CallDeleter(o)
  PROVE  HandleInv'
<1>1. /\ stack # <<>> /\ Head(stack).do = "delete" /\ o = Head(stack).obj /\ Top("delete")
      /\ obj' = [obj EXCEPT ![o] = "dying"] /\ UNCHANGED <<m_deleter, live, mate, raw>>
      /\ m_ptr' = IF o \in Node THEN [m_ptr EXCEPT ![o] = Null] ELSE m_ptr
  BY DEF CallDeleter, Top
<1>2. /\ Items(stack) = {Head(stack)} \cup Items(Tail(stack))
      /\ \A e \in Items(Tail(stack)) : e \in Steps /\ e.do # "delete"
      /\ Doomed = o /\ o # Null
  BY <1>1, Running, ConstantsAssumption DEF Doomed
<1>3. /\ stack' \in Seq(Steps) /\ Items(Tail(stack)) \subseteq Items(stack')
      /\ \A e \in Items(stack') :
           \/ e \in Items(Tail(stack)) \/ e.do = "delete"
           \/ e.do = "free" /\ e.obj = o
           \/ e.do = "end" /\ e.handle = o /\ o \in Node
      /\ stack' # <<>> => \A e \in Items(Tail(stack')) : e.do # "delete"
      /\ Doomed' = IF o \in Node THEN m_ptr[o] ELSE Null
      /\ Top("delete")' => /\ o \in Node /\ m_ptr[o] # Null
                           /\ Head(stack').obj = m_ptr[o] /\ Head(stack').with = m_deleter[o]
  BY Called
<1>4. StateOK /\ Shared /\ MembersLive /\ PendingOK /\ Acyclic /\ PairsOK
  BY DEF HandleInv
<1>5. /\ \A h \in Handle : m_ptr'[h] = IF h = o THEN Null ELSE m_ptr[h]
      /\ \A h \in Handle : m_ptr[h] \in Object \cup {Null}
      /\ live \subseteq Handle /\ raw \subseteq Object
  BY <1>1, <1>4, ConstantsAssumption DEF StateOK, Handle
<1>6. /\ obj[o] = "alive" /\ obj'[o] = "dying"
      /\ \A p \in Object : p # o => obj'[p] = obj[p]
  BY <1>1, <1>2, <1>4 DEF Shared, StateOK
<1>7. o \in Node => o \in live /\ o \in Handle
  BY <1>4, <1>6 DEF MembersLive, Handle
<1>8. StateOK'
  BY <1>1, <1>3, <1>4 DEF StateOK
<1>9. Shared'
  <2>1. ASSUME NEW g \in live, m_ptr'[g] # Null
        PROVE  /\ obj'[m_ptr'[g]] = "alive" /\ m_ptr'[g] \notin raw /\ m_ptr'[g] # Doomed'
               /\ \A x \in live : m_ptr'[x] = m_ptr'[g] => x = g
    <3>1. m_ptr'[g] = m_ptr[g] /\ g # o /\ m_ptr[g] # Null /\ m_ptr[g] \in Object
      BY <1>5, <2>1
    <3>2. /\ obj[m_ptr[g]] = "alive" /\ m_ptr[g] \notin raw /\ m_ptr[g] # o
          /\ \A x \in live : m_ptr[x] = m_ptr[g] => x = g
      BY <1>2, <1>4, <3>1 DEF Shared
    <3>3. m_ptr[g] # Doomed'
      BY <1>3, <1>7, <3>1, <3>2
    <3> QED BY <1>5, <1>6, <3>1, <3>2, <3>3
  <2>2. ASSUME NEW p \in raw PROVE obj'[p] = "alive" /\ p # Doomed'
    <3>1. obj[p] = "alive" /\ p # o /\ p \in Object
      BY <1>2, <1>4, <1>5 DEF Shared
    <3>2. \A h \in live : m_ptr[h] # p
      BY <1>4, <3>1, ConstantsAssumption DEF Shared
    <3> QED BY <1>3, <1>6, <1>7, <3>1, <3>2, ConstantsAssumption
  <2>3. Doomed' # Null => obj'[Doomed'] = "alive"
    <3> SUFFICES ASSUME Doomed' # Null PROVE obj'[Doomed'] = "alive"
      OBVIOUS
    <3>1. Doomed' = m_ptr[o] /\ o \in live /\ m_ptr[o] \in Object
      BY <1>3, <1>5, <1>7
    <3>2. obj[m_ptr[o]] = "alive" /\ m_ptr[o] # o
      BY <1>2, <1>4, <3>1 DEF Shared
    <3> QED BY <1>6, <3>1, <3>2
  <2>4. ASSUME NEW p \in Object, obj'[p] = "alive"
        PROVE  p \in raw \/ p = Doomed' \/ \E h \in live : m_ptr'[h] = p
    <3>1. p # o /\ obj[p] = "alive"
      BY <1>6, <2>4
    <3>2. p \in raw \/ \E h \in live : m_ptr[h] = p
      BY <1>2, <1>4, <3>1 DEF Shared
    <3>3. ASSUME NEW h \in live, m_ptr[h] = p PROVE p = Doomed' \/ m_ptr'[h] = p
      <4>1. CASE h = o
        BY <1>3, <1>5, <3>3, <4>1, ConstantsAssumption DEF Handle
      <4>2. CASE h # o
        BY <1>5, <3>3, <4>2
      <4> QED BY <4>1, <4>2
    <3> QED BY <3>2, <3>3
  <2> QED BY <1>1, <2>1, <2>2, <2>3, <2>4 DEF Shared
<1>10. MembersLive'
  BY <1>1, <1>4, <1>6, ConstantsAssumption DEF MembersLive
<1>11. PendingOK'
  <2>1. ASSUME NEW e \in Items(stack')
        PROVE  /\ e.do = "free" => obj'[e.obj] # "alive"
               /\ e.do = "end" => /\ m_ptr'[e.handle] = Null
                                  /\ e.handle \in Node => obj'[e.handle] # "alive"
    <3>1. CASE e \in Items(Tail(stack))
      <4>1. /\ e.do = "free" => e.obj \in Object /\ obj[e.obj] # "alive"
            /\ e.do = "end" => /\ e.handle \in Handle /\ m_ptr[e.handle] = Null
                               /\ e.handle \in Node => obj[e.handle] # "alive"
        BY <1>2, <1>4, <3>1, StepFields DEF PendingOK
      <4> QED BY <1>5, <1>6, <4>1, ConstantsAssumption
    <3>2. CASE e.do = "free" /\ e.obj = o
      BY <1>6, <3>2
    <3>3. CASE e.do = "end" /\ e.handle = o /\ o \in Node
      BY <1>5, <1>6, <1>7, <3>3
    <3> QED BY <1>3, <3>1, <3>2, <3>3
  <2> QED BY <1>3, <2>1 DEF PendingOK
<1>12. Acyclic'
  <2>1. Acyclic /\ NoCycle(o, Null)
    BY <1>4, NullIsFree
  <2>2. \A n \in live' : \/ m_ptr'[n] = Null
                         \/ n # o /\ n \in live /\ m_ptr'[n] = m_ptr[n]
                         \/ n = o /\ m_ptr'[n] = Null
    BY <1>1, <1>5
  <2> QED BY <2>1, <2>2, NewLink
<1>13. PairsOK'
  \* The node that dies is not the one that waits for a deleter.
  <2>1. \A e \in Items(stack) : e.do = "take" => e.dst # o
    BY <1>2, <1>4 DEF PairsOK, NoCycle
  <2>2. o \in Node => Fits(m_deleter[o], m_ptr[o])
    BY <1>4, <1>7, <2>1 DEF PairsOK
  <2>3. Top("delete")' => Fits(Head(stack).with, Head(stack).obj)'
    BY <1>1, <1>3, <2>2 DEF Fits
  <2>4. \A e : e \in Items(stack') /\ e.do = "take" <=> e \in Items(stack) /\ e.do = "take"
    BY <1>1, <1>2, <1>3
  <2>5. ASSUME NEW h \in live
        PROVE  Fits(m_deleter[h], m_ptr[h])' \/ \E e \in Items(stack') : e.do = "take" /\ e.dst = h
    <3>1. m_ptr'[h] = Null \/ m_ptr'[h] = m_ptr[h]
      BY <1>5
    <3> QED BY <1>1, <1>4, <2>4, <3>1 DEF PairsOK, Fits
  <2>6. ASSUME NEW e \in Items(stack'), e.do = "take"
        PROVE  /\ e.src # e.dst /\ Fits(m_deleter[e.src], m_ptr[e.dst])' /\ NoCycle(e.dst, Doomed)'
               /\ \A f \in Items(stack') : f.do = "take" => f = e
    <3>1. /\ e \in Items(stack) /\ e.src # e.dst /\ Fits(m_deleter[e.src], m_ptr[e.dst])
          /\ NoCycle(e.dst, o) /\ \A f \in Items(stack') : f.do = "take" => f = e
      BY <1>2, <1>4, <2>4, <2>6 DEF PairsOK
    <3>2. e.dst \in Handle
      BY <1>1, <1>2, <2>6, <3>1, StepFields
    <3>3. Fits(m_deleter[e.src], m_ptr[e.dst])'
      BY <1>1, <1>5, <3>1, <3>2 DEF Fits
    <3>4. PICK S \in SUBSET Object : o \in S /\ e.dst \notin S /\ Closed(S)
      BY <1>2, <3>1 DEF NoCycle
    <3>5. Closed(S)'
      BY <1>1, <1>5, <3>4 DEF Closed
    <3>6. Doomed' \in S \cup {Null}
      BY <1>3, <1>7, <3>4 DEF Closed
    <3> QED BY <3>1, <3>3, <3>4, <3>5, <3>6 DEF NoCycle
  <2> QED BY <1>1, <2>3, <2>5, <2>6 DEF PairsOK
<1> QED BY <1>8, <1>9, <1>10, <1>11, <1>12, <1>13 DEF HandleInv

LEMMA HandleInit == Init => HandleInv
<1> SUFFICES ASSUME Init PROVE HandleInv
  OBVIOUS
<1>1. stack = <<>> /\ live = {} /\ raw = {} /\ \A o \in Object : obj[o] = "fresh"
  BY DEF Init
<1>2. Doomed = Null /\ Items(stack) = {} /\ ~Top("delete")
  BY <1>1, Calm
<1>3. StateOK
  BY DEF Init, StateOK
<1>4. Shared /\ MembersLive
  BY <1>1, <1>2, ConstantsAssumption DEF Shared, MembersLive
<1>5. PendingOK /\ Acyclic /\ PairsOK
  BY <1>1, <1>2 DEF PendingOK, Acyclic, PairsOK
<1> QED BY <1>3, <1>4, <1>5 DEF HandleInv

LEMMA HandleNext == HandleInv /\ [Next]_vars => HandleInv'
<1> SUFFICES ASSUME HandleInv, [Next]_vars PROVE HandleInv'
  OBVIOUS
<1>1. ASSUME Call PROVE HandleInv'
  BY <1>1, ConstructNullInv, ConstructInv, MoveConstructInv, MoveAssignInv, ResetNullInv,
     ResetInv, ReleaseInv, SwapInv, DestroyInv DEF Call
<1>2. ASSUME Continue PROVE HandleInv'
  BY <1>2, CallDeleterInv, EndDeleterInv, EndLifetimeInv, AssignDeleterInv DEF Continue
<1>3. CASE UNCHANGED vars
  <2>1. UNCHANGED <<m_ptr, m_deleter, live, obj, mate, raw, stack>>
    BY <1>3 DEF vars
  <2>2. Doomed' = Doomed /\ Top("delete")' = Top("delete")
    BY <2>1 DEF Doomed, Top
  <2>3. \A h, o : NoCycle(h, o)' <=> NoCycle(h, o)
    BY <2>1 DEF NoCycle, Closed
  <2>4. StateOK' /\ Shared' /\ MembersLive' /\ PendingOK' /\ Acyclic'
    BY <2>1, <2>2, <2>3 DEF HandleInv, StateOK, Shared, MembersLive, PendingOK, Acyclic
  <2>5. PairsOK'
    BY <2>1, <2>2, <2>3 DEF HandleInv, PairsOK, Fits
  <2> QED BY <2>4, <2>5 DEF HandleInv
<1> QED BY <1>1, <1>2, <1>3 DEF Next

\* The handles' inductive invariant.
THEOREM HandleInvariant == Spec => []HandleInv
  BY HandleInit, HandleNext, PTL DEF Spec

\* A deleter is pending only in the next step.
LEMMA DeleterFirst ==
  ASSUME HandleInv, NEW i \in DOMAIN stack, stack[i].do = "delete"
  PROVE  i = 1 /\ Top("delete") /\ Head(stack) = stack[1] /\ 1 \in DOMAIN stack
<1>1. stack \in Seq(Steps) /\ i \in 1..Len(stack) /\ stack # <<>> /\ Len(stack) \in Nat
  BY EmptySeq, LenProperties DEF HandleInv, StateOK
<1>2. /\ Len(Tail(stack)) = Len(stack) - 1 /\ Head(stack) = stack[1]
      /\ \A j \in 1..Len(Tail(stack)) : Tail(stack)[j] = stack[j + 1]
  BY <1>1, HeadTailProperties
<1>3. ASSUME i # 1 PROVE FALSE
  <2>1. i - 1 \in 1..Len(Tail(stack)) /\ Tail(stack)[i - 1] = stack[i]
    BY <1>1, <1>2, <1>3
  <2>2. stack[i] \in Items(Tail(stack))
    BY <2>1 DEF Items
  <2> QED BY <1>1, <2>2, Running
<1> QED BY <1>1, <1>2, <1>3 DEF Top

\* An object that lives has exactly one owner (a handle, the caller of release()
\* or the pending call of a deleter) and a dead one has none, for every number of
\* handles, objects and links, also when the deleter of a node re-enters reset()
\* (UniquePtr.hh 179-186) from ~UniquePtr (123-126).
THEOREM OneOwnerHolds == Spec => []OneOwner
<1>1. HandleInv => OneOwner
  <2> SUFFICES ASSUME HandleInv, NEW o \in Object
               PROVE  Cardinality(Owners(o)) = IF obj[o] = "alive" THEN 1 ELSE 0
    BY DEF OneOwner
  <2> DEFINE H == {<<"handle", h>> : h \in {x \in live : m_ptr[x] = o}}
             C == {<<"caller", x>> : x \in raw \cap {o}}
             D == {<<"deleter", i>> : i \in {j \in DOMAIN stack :
                                               stack[j].do = "delete" /\ stack[j].obj = o}}
  <2>1. Owners(o) = H \cup C \cup D
    BY DEF Owners
  <2>2. Shared /\ o # Null
    BY ConstantsAssumption DEF HandleInv
  <2>3. D = IF o = Doomed THEN {<<"deleter", 1>>} ELSE {}
    <3>1. ASSUME NEW i \in DOMAIN stack, stack[i].do = "delete", stack[i].obj = o
          PROVE  i = 1 /\ o = Doomed
      BY <3>1, DeleterFirst DEF Doomed
    <3>2. ASSUME o = Doomed PROVE 1 \in DOMAIN stack /\ stack[1].do = "delete" /\ stack[1].obj = o
      <4>1. stack # <<>> /\ Head(stack).do = "delete" /\ Head(stack).obj = o /\ stack \in Seq(Steps)
        BY <2>2, <3>2 DEF Doomed, Top, HandleInv, StateOK
      <4>2. Len(stack) \in Nat /\ Len(stack) # 0 /\ DOMAIN stack = 1..Len(stack)
        BY <4>1, EmptySeq, LenProperties
      <4>3. Head(stack) = stack[1]
        BY <4>1, HeadTailProperties
      <4> QED BY <4>1, <4>2, <4>3
    <3> QED BY <3>1, <3>2
  <2>4. CASE obj[o] # "alive"
    <3>1. \A h \in live : m_ptr[h] # o
      BY <2>2, <2>4 DEF Shared
    <3>2. o \notin raw /\ o # Doomed
      BY <2>2, <2>4 DEF Shared
    <3>3. Owners(o) = {}
      BY <2>1, <2>3, <3>1, <3>2
    <3> QED BY <2>4, <3>3, FS_EmptySet
  <2>5. CASE obj[o] = "alive"
    <3>1. \E x : Owners(o) = {x}
      <4>1. CASE o = Doomed
        <5>1. o \notin raw /\ \A h \in live : m_ptr[h] # o
          BY <2>2, <4>1 DEF Shared
        <5>2. Owners(o) = {<<"deleter", 1>>}
          BY <2>1, <2>3, <4>1, <5>1
        <5> QED BY <5>2
      <4>2. CASE o \in raw
        <5>1. o # Doomed /\ \A h \in live : m_ptr[h] # o
          BY <2>2, <4>2 DEF Shared
        <5>2. Owners(o) = {<<"caller", o>>}
          BY <2>1, <2>3, <4>2, <5>1
        <5> QED BY <5>2
      <4>3. CASE \E h \in live : m_ptr[h] = o
        <5>1. PICK h \in live : m_ptr[h] = o
          BY <4>3
        <5>2. o # Doomed /\ o \notin raw /\ \A g \in live : m_ptr[g] = o => g = h
          BY <2>2, <5>1 DEF Shared
        <5>3. {x \in live : m_ptr[x] = o} = {h}
          BY <5>1, <5>2
        <5>4. Owners(o) = {<<"handle", h>>}
          BY <2>1, <2>3, <5>2, <5>3
        <5> QED BY <5>4
      <4> QED BY <2>2, <2>5, <4>1, <4>2, <4>3 DEF Shared
    <3> QED BY <2>5, <3>1, FS_Singleton
  <2> QED BY <2>4, <2>5
<1> QED BY <1>1, HandleInvariant, PTL

\* An object is deleted by the deleter that came with it, and rests beside it,
\* for every number of handles, objects and deleters; only p = std::move(p->next)
\* reads another one (the assignments, UniquePtr.hh 135-154, and swap, 190-194).
THEOREM RightDeleterHolds == Spec => []RightDeleter
<1>1. HandleInv => RightDeleter
  <2> SUFFICES ASSUME HandleInv PROVE RightDeleter
    OBVIOUS
  <2>1. PairsOK
    BY DEF HandleInv
  <2>2. ASSUME NEW i \in DOMAIN stack, stack[i].do = "delete"
        PROVE  stack[i].with \in {mate[stack[i].obj], Garbage}
    <3>1. i = 1 /\ Top("delete") /\ Head(stack) = stack[1]
      BY <2>2, DeleterFirst
    <3>2. Head(stack).obj # Null
      <4>1. Head(stack) \in Steps /\ Head(stack).do = "delete"
        BY <3>1, Running DEF Top
      <4> QED BY <4>1, StepFields, ConstantsAssumption
    <3> QED BY <2>1, <3>1, <3>2 DEF PairsOK, Fits
  <2>3. ASSUME stack = <<>>, NEW h \in live, m_ptr[h] # Null
        PROVE  m_deleter[h] \in {mate[m_ptr[h]], Garbage}
    <3>1. Items(stack) = {}
      BY <2>3, NoItems
    <3> QED BY <2>1, <2>3, <3>1 DEF PairsOK, Fits
  <2> QED BY <2>2, <2>3 DEF RightDeleter
<1> QED BY <1>1, HandleInvariant, PTL

-----------------------------------------------------------------------------
(* Memcpy, Memmove and Strcpy: the constants and variables of Memory,      *)
(* whose pc is called at here.                                             *)

CONSTANTS Size, Byte, Nul
VARIABLES mem, at, to, from, n, i, dst, src, len, old

Copy == INSTANCE Memory WITH pc <- at

\* The invariant holds before the first call.
LEMMA CopyInitInv == Copy!Init => Copy!CopyInv
  BY DEF Copy!Init, Copy!CopyInv, Copy!TypeOK, Copy!ArgsOK, Copy!LoopOK, Copy!StringOK,
         Copy!CopyCorrect

\* A call leaves the memory alone, so nothing is copied yet.
LEMMA CallInv ==
  ASSUME Copy!CopyInv, NEW d \in 0..Size, NEW s \in 0..Size, NEW k \in 0..Size
  PROVE  \/ Copy!Memcpy(d, s, k) \/ Copy!Strcpy(d, s, k) \/ Copy!MemmoveUp(d, s, k)
         \/ Copy!MemmoveDown(d, s, k) \/ Copy!MemmoveNothing(d, s, k)
         => Copy!CopyInv'
<1>1. CASE Copy!Memcpy(d, s, k)
  BY <1>1 DEF Copy!Memcpy, Copy!Call, Copy!CopyInv, Copy!TypeOK, Copy!ArgsOK, Copy!LoopOK,
              Copy!StringOK, Copy!CopyCorrect,
              Copy!Copied, Copy!Range, Copy!Ascending, Copy!Address
<1>2. CASE Copy!Strcpy(d, s, k)
  BY <1>2 DEF Copy!Strcpy, Copy!Call, Copy!CopyInv, Copy!TypeOK, Copy!ArgsOK, Copy!LoopOK,
              Copy!StringOK, Copy!CopyCorrect,
              Copy!Copied, Copy!Range, Copy!Ascending, Copy!Address
<1>3. CASE Copy!MemmoveUp(d, s, k)
  BY <1>3 DEF Copy!MemmoveUp, Copy!Call, Copy!CopyInv, Copy!TypeOK, Copy!ArgsOK, Copy!LoopOK,
              Copy!StringOK, Copy!CopyCorrect,
              Copy!Copied, Copy!Range, Copy!Ascending, Copy!Address
<1>4. CASE Copy!MemmoveDown(d, s, k)
  BY <1>4 DEF Copy!MemmoveDown, Copy!Call, Copy!CopyInv, Copy!TypeOK, Copy!ArgsOK, Copy!LoopOK,
              Copy!StringOK, Copy!CopyCorrect,
              Copy!Copied, Copy!Range, Copy!Ascending, Copy!Address
<1>5. CASE Copy!MemmoveNothing(d, s, k)
  BY <1>5 DEF Copy!MemmoveNothing, Copy!Call, Copy!CopyInv, Copy!TypeOK, Copy!ArgsOK,
              Copy!LoopOK, Copy!StringOK,
              Copy!CopyCorrect, Copy!Copied, Copy!Range, Copy!Ascending, Copy!Address
<1> QED BY <1>1, <1>2, <1>3, <1>4, <1>5

\* One more byte at the upper end: the byte that is read has not been
\* overwritten, because the copy ascends.
LEMMA ByteUp ==
  ASSUME Size \in Nat, Copy!TypeOK, Copy!Range(dst, len), Copy!Range(src, len),
         Copy!Ascending(dst, src, len),
         NEW j \in Nat, j < len, Copy!Copied(dst, dst + j)
  PROVE  LET m == [mem EXCEPT ![dst + j] = mem[src + j]]
         IN  /\ m \in [Copy!Address -> Byte]
             /\ mem[src + j] = old[src + j]
             /\ \A a \in Copy!Address :
                  m[a] = IF dst <= a /\ a < dst + j + 1 THEN old[src + (a - dst)] ELSE old[a]
<1>1. /\ dst + j \in Copy!Address /\ src + j \in Copy!Address
      /\ ~(dst <= src + j /\ src + j < dst + j)
  BY DEF Copy!TypeOK, Copy!Range, Copy!Ascending, Copy!Address
<1>2. mem[src + j] = old[src + j]
  BY <1>1 DEF Copy!Copied
<1> QED BY <1>1, <1>2 DEF Copy!TypeOK, Copy!Copied, Copy!Address

\* One more byte at the lower end.
LEMMA ByteDown ==
  ASSUME Size \in Nat, Copy!TypeOK, Copy!Range(dst, len), Copy!Range(src, len), src < dst,
         NEW j \in Nat, j < len, Copy!Copied(dst + j + 1, dst + len)
  PROVE  LET m == [mem EXCEPT ![dst + j] = mem[src + j]]
         IN  /\ m \in [Copy!Address -> Byte]
             /\ \A a \in Copy!Address :
                  m[a] = IF dst + j <= a /\ a < dst + len THEN old[src + (a - dst)] ELSE old[a]
<1>1. /\ dst + j \in Copy!Address /\ src + j \in Copy!Address
      /\ ~(dst + j + 1 <= src + j)
  BY DEF Copy!TypeOK, Copy!Range, Copy!Address
<1>2. mem[src + j] = old[src + j]
  BY <1>1 DEF Copy!Copied, Copy!TypeOK
<1> QED BY <1>1, <1>2 DEF Copy!TypeOK, Copy!Copied, Copy!Address

\* A step of Memcpy's unrolled loop.
LEMMA BlockByteInv == ASSUME Size \in Nat, Copy!CopyInv, Copy!BlockByte PROVE Copy!CopyInv'
<1> DEFINE j == (len - n) + i
<1>1. /\ j \in Nat /\ j < len /\ i \in 0..7
      /\ to + i = dst + j /\ from + i = src + j /\ n <= len
  BY DEF Copy!CopyInv, Copy!TypeOK, Copy!LoopOK, Copy!BlockByte
<1>2. /\ Copy!TypeOK /\ Copy!Range(dst, len) /\ Copy!Range(src, len) /\ Copy!Ascending(dst, src, len)
      /\ Copy!Copied(dst, dst + j)
  BY <1>1 DEF Copy!CopyInv, Copy!ArgsOK, Copy!LoopOK, Copy!BlockByte
<1>3. /\ mem' = [mem EXCEPT ![dst + j] = mem[src + j]]
      /\ UNCHANGED <<at, Copy!args>> /\ at = "block"
  BY <1>1 DEF Copy!BlockByte
<1> HIDE DEF j
<1>4. /\ mem' \in [Copy!Address -> Byte]
      /\ \A a \in Copy!Address :
           mem'[a] = IF dst <= a /\ a < dst + j + 1 THEN old[src + (a - dst)] ELSE old[a]
  BY <1>1, <1>2, <1>3, ByteUp
<1>5. /\ i' \in Nat /\ to' \in Nat /\ from' \in Nat /\ n' \in Nat
      /\ n' <= len /\ i' <= 7 /\ (n' < 8 => i' = 0)
      /\ to' = dst + (len - n') /\ from' = src + (len - n')
      /\ to' + i' = dst + j + 1
  BY <1>1 DEF Copy!CopyInv, Copy!TypeOK, Copy!LoopOK, Copy!BlockByte
<1>6. Copy!TypeOK'
  BY <1>2, <1>3, <1>4, <1>5 DEF Copy!TypeOK, Copy!args
<1>7. Copy!ArgsOK'
  BY <1>2, <1>3 DEF Copy!ArgsOK, Copy!args, Copy!Range, Copy!Ascending
<1>8. Copy!LoopOK'
  BY <1>3, <1>4, <1>5 DEF Copy!LoopOK, Copy!args, Copy!Copied
<1> QED BY <1>3, <1>6, <1>7, <1>8 DEF Copy!CopyInv, Copy!StringOK, Copy!CopyCorrect

\* A step of the loop that goes up.
LEMMA UpByteInv == ASSUME Size \in Nat, Copy!CopyInv, Copy!UpByte PROVE Copy!CopyInv'
<1> DEFINE j == len - n
<1>1. /\ j \in Nat /\ j < len /\ to = dst + j /\ from = src + j /\ n <= len /\ n > 0
  BY DEF Copy!CopyInv, Copy!TypeOK, Copy!LoopOK, Copy!UpByte
<1>2. /\ Copy!TypeOK /\ Copy!Range(dst, len) /\ Copy!Range(src, len) /\ Copy!Ascending(dst, src, len)
      /\ Copy!Copied(dst, dst + j)
  BY <1>1 DEF Copy!CopyInv, Copy!ArgsOK, Copy!LoopOK, Copy!UpByte
<1>3. /\ mem' = [mem EXCEPT ![dst + j] = mem[src + j]]
      /\ UNCHANGED <<at, i, Copy!args>> /\ at = "up"
      /\ to' = to + 1 /\ from' = from + 1 /\ n' = n - 1
  BY <1>1 DEF Copy!UpByte
<1>4. to' = dst + (len - n') /\ from' = src + (len - n') /\ n' \in Nat /\ n' <= len
      /\ to' = dst + j + 1
  BY <1>1, <1>2, <1>3 DEF Copy!TypeOK
<1> HIDE DEF j
<1>5. /\ mem' \in [Copy!Address -> Byte]
      /\ \A a \in Copy!Address :
           mem'[a] = IF dst <= a /\ a < dst + j + 1 THEN old[src + (a - dst)] ELSE old[a]
  BY <1>1, <1>2, <1>3, ByteUp
<1>6. Copy!TypeOK'
  BY <1>2, <1>3, <1>4, <1>5 DEF Copy!TypeOK, Copy!args
<1>7. Copy!ArgsOK'
  BY <1>2, <1>3 DEF Copy!ArgsOK, Copy!args, Copy!Range, Copy!Ascending
<1>8. Copy!LoopOK'
  BY <1>3, <1>4, <1>5 DEF Copy!LoopOK, Copy!args, Copy!Copied
<1> QED BY <1>3, <1>6, <1>7, <1>8 DEF Copy!CopyInv, Copy!StringOK, Copy!CopyCorrect

\* A step of the loop that goes down.
LEMMA DownByteInv == ASSUME Size \in Nat, Copy!CopyInv, Copy!DownByte PROVE Copy!CopyInv'
<1> DEFINE j == n - 1
<1>1. /\ j \in Nat /\ j < len /\ to = dst + j + 1 /\ to - 1 = dst + j /\ from - 1 = src + j
      /\ n <= len /\ n > 0
  BY DEF Copy!CopyInv, Copy!TypeOK, Copy!LoopOK, Copy!DownByte
<1>2. /\ Copy!TypeOK /\ Copy!Range(dst, len) /\ Copy!Range(src, len) /\ src < dst
      /\ Copy!Copied(dst + j + 1, dst + len)
  BY <1>1 DEF Copy!CopyInv, Copy!ArgsOK, Copy!LoopOK, Copy!DownByte
<1>3. /\ mem' = [mem EXCEPT ![dst + j] = mem[src + j]]
      /\ UNCHANGED <<at, i, Copy!args>> /\ at = "down"
      /\ to' = to - 1 /\ from' = from - 1 /\ n' = n - 1
  BY <1>1 DEF Copy!DownByte
<1>4. to' = dst + n' /\ from' = src + n' /\ n' \in Nat /\ n' <= len /\ to' = dst + j
      /\ to' \in Nat /\ from' \in Nat
  BY <1>1, <1>2, <1>3 DEF Copy!TypeOK
<1> HIDE DEF j
<1>5. /\ mem' \in [Copy!Address -> Byte]
      /\ \A a \in Copy!Address :
           mem'[a] = IF dst + j <= a /\ a < dst + len THEN old[src + (a - dst)] ELSE old[a]
  BY <1>1, <1>2, <1>3, ByteDown
<1>6. Copy!TypeOK'
  BY <1>2, <1>3, <1>4, <1>5 DEF Copy!TypeOK, Copy!args
<1>7. Copy!ArgsOK'
  BY <1>2, <1>3 DEF Copy!ArgsOK, Copy!args, Copy!Range
<1>8. Copy!LoopOK'
  BY <1>3, <1>4, <1>5 DEF Copy!LoopOK, Copy!args, Copy!Copied
<1> QED BY <1>3, <1>6, <1>7, <1>8 DEF Copy!CopyInv, Copy!StringOK, Copy!CopyCorrect

\* A character of Strcpy: it is the final Nul exactly if the string ends here.
LEMMA StringByteInv == ASSUME Size \in Nat, Copy!CopyInv, Copy!StringByte PROVE Copy!CopyInv'
<1> DEFINE j == to - dst
<1>1. /\ j \in Nat /\ j < len /\ to = dst + j /\ from = src + j
  BY DEF Copy!CopyInv, Copy!TypeOK, Copy!StringOK, Copy!StringByte
<1>2. /\ Copy!TypeOK /\ Copy!Range(dst, len) /\ Copy!Range(src, len) /\ Copy!Ascending(dst, src, len)
      /\ Copy!Copied(dst, dst + j)
      /\ \A k \in 0..(len - 2) : old[src + k] # Nul
      /\ old[src + len - 1] = Nul
  BY <1>1 DEF Copy!CopyInv, Copy!ArgsOK, Copy!StringOK, Copy!StringByte
<1>3. /\ mem' = [mem EXCEPT ![dst + j] = mem[src + j]]
      /\ UNCHANGED <<n, i, Copy!args>> /\ at = "string"
      /\ to' = to + 1 /\ from' = from + 1
      /\ at' = IF mem[src + j] = Nul THEN "done" ELSE "string"
  BY <1>1 DEF Copy!StringByte
<1>4. to' = dst + j + 1 /\ from' = src + j + 1 /\ to' \in Nat /\ from' \in Nat
  BY <1>1, <1>2, <1>3 DEF Copy!TypeOK
<1> HIDE DEF j
<1>5. /\ mem' \in [Copy!Address -> Byte]
      /\ mem[src + j] = old[src + j]
      /\ \A a \in Copy!Address :
           mem'[a] = IF dst <= a /\ a < dst + j + 1 THEN old[src + (a - dst)] ELSE old[a]
  BY <1>1, <1>2, <1>3, ByteUp
<1>6. mem[src + j] = Nul <=> j = len - 1
  <2>1. j # len - 1 => j \in 0..(len - 2)
    BY <1>1, <1>2 DEF Copy!TypeOK
  <2>2. j = len - 1 => src + j = src + len - 1
    BY <1>1, <1>2 DEF Copy!TypeOK
  <2> QED BY <1>2, <1>5, <2>1, <2>2
<1>7. Copy!TypeOK'
  BY <1>2, <1>3, <1>4, <1>5 DEF Copy!TypeOK, Copy!args
<1>8. Copy!ArgsOK'
  BY <1>2, <1>3 DEF Copy!ArgsOK, Copy!args, Copy!Range, Copy!Ascending
<1>9. Copy!StringOK'
  <2> SUFFICES ASSUME at' = "string"
               PROVE  Copy!StringOK'
    BY DEF Copy!StringOK
  <2>1. j # len - 1
    BY <1>3, <1>6
  <2>2. dst <= to' /\ to' < dst + len /\ from' = src + (to' - dst)
    BY <1>1, <1>2, <1>4, <2>1 DEF Copy!TypeOK
  <2>3. Copy!Copied(dst, to)'
    BY <1>3, <1>4, <1>5 DEF Copy!Copied, Copy!args
  <2>4. UNCHANGED <<dst, src, len, old>>
    BY <1>3 DEF Copy!args
  <2> QED BY <1>2, <2>2, <2>3, <2>4 DEF Copy!StringOK
<1>10. Copy!CopyCorrect'
  BY <1>1, <1>2, <1>3, <1>5, <1>6 DEF Copy!CopyCorrect, Copy!args, Copy!Copied, Copy!TypeOK
<1> QED BY <1>3, <1>7, <1>8, <1>9, <1>10 DEF Copy!CopyInv, Copy!LoopOK

\* The steps between the loops change no byte.
LEMMA OtherInv ==
  Copy!CopyInv /\ (Copy!BlockEnd \/ Copy!LoopEnd \/ Copy!Return \/ UNCHANGED Copy!vars)
    => Copy!CopyInv'
<1> SUFFICES ASSUME Copy!CopyInv
             PROVE  Copy!BlockEnd \/ Copy!LoopEnd \/ Copy!Return \/ UNCHANGED Copy!vars => Copy!CopyInv'
  OBVIOUS
<1> USE DEF Copy!CopyInv, Copy!TypeOK, Copy!ArgsOK, Copy!LoopOK, Copy!StringOK,
            Copy!CopyCorrect, Copy!Copied, Copy!Range, Copy!Ascending,
            Copy!loop, Copy!args
<1>1. CASE Copy!BlockEnd
  BY <1>1 DEF Copy!BlockEnd
<1>2. CASE Copy!LoopEnd
  BY <1>2 DEF Copy!LoopEnd
<1>3. CASE Copy!Return
  BY <1>3 DEF Copy!Return
<1>4. CASE UNCHANGED Copy!vars
  BY <1>4 DEF Copy!vars
<1> QED BY <1>1, <1>2, <1>3, <1>4

\* The loops' invariant: what has been copied, and that it was copied from
\* bytes that were still as they had been at the call.
THEOREM CopyInvariant == ASSUME Size \in Nat PROVE Copy!Spec => []Copy!CopyInv
<1>1. Copy!CopyInv /\ [Copy!Next]_(Copy!vars) => Copy!CopyInv'
  BY CallInv, BlockByteInv, UpByteInv, DownByteInv, StringByteInv, OtherInv DEF Copy!Next
<1> QED BY CopyInitInv, <1>1, PTL DEF Copy!Spec

\* Memcpy, Memmove and Strcpy give the destination what the source held at the
\* call and change nothing else, for all overlaps Memmove is meant for.
THEOREM CopiesCorrectly == ASSUME Size \in Nat PROVE Copy!Spec => []Copy!CopyCorrect
<1>1. Copy!CopyInv => Copy!CopyCorrect
  BY DEF Copy!CopyInv
<1> QED BY <1>1, CopyInvariant, PTL

\* No loop touches a byte outside the two ranges it was given.
THEOREM CopiesInRange == ASSUME Size \in Nat PROVE Copy!Spec => []Copy!StaysInRange
<1>1. Copy!CopyInv => Copy!StaysInRange
  BY DEF Copy!CopyInv, Copy!TypeOK, Copy!ArgsOK, Copy!LoopOK, Copy!StringOK, Copy!StaysInRange,
         Copy!Within, Copy!Range, Copy!Address
<1> QED BY <1>1, CopyInvariant, PTL

-----------------------------------------------------------------------------
(* XorBitant.  Each of its three shifts and xors is one-to-one: the bits   *)
(* that the shift leaves alone determine the next ones, and those the      *)
(* rest.  So no two states have the same successor, and 0 comes only       *)
(* from 0.                                                                 *)

VARIABLE m_state

Rng == INSTANCE XorBitant

\* What is shifted and xored is a word again.
LEMMA WordType ==
  ASSUME NEW x \in Rng!Word, NEW k \in 1..Rng!Width
  PROVE  Rng!XorLeft(x, k) \in Rng!Word /\ Rng!XorRight(x, k) \in Rng!Word
  BY DEF Rng!Word, Rng!XorLeft, Rng!XorRight, Rng!Xor

\* Bit b after x ^= x << k and after x ^= x >> k.
LEMMA LeftBit ==
  ASSUME NEW x \in Rng!Word, NEW k \in 1..Rng!Width, NEW b \in Rng!Position
  PROVE  /\ x[b] \in {0, 1}
         /\ b < k => Rng!XorLeft(x, k)[b] = x[b]
         /\ ~(b < k) => /\ b - k \in Rng!Position
                        /\ Rng!XorLeft(x, k)[b] = IF x[b] = x[b - k] THEN 0 ELSE 1
<1>1. x[b] \in {0, 1}
  BY DEF Rng!Word
<1>2. Rng!XorLeft(x, k)[b] = IF x[b] = (IF b >= k THEN x[b - k] ELSE 0) THEN 0 ELSE 1
  BY DEF Rng!XorLeft, Rng!Xor, Rng!ShiftLeft
<1>3. b \in Int /\ k \in Int /\ (~(b < k) => b - k \in Rng!Position)
  BY DEF Rng!Position, Rng!Width
<1> QED BY <1>1, <1>2, <1>3

LEMMA RightBit ==
  ASSUME NEW x \in Rng!Word, NEW k \in 1..Rng!Width, NEW b \in Rng!Position
  PROVE  /\ x[b] \in {0, 1}
         /\ ~(b + k < Rng!Width) => Rng!XorRight(x, k)[b] = x[b]
         /\ b + k < Rng!Width => /\ b + k \in Rng!Position
                             /\ Rng!XorRight(x, k)[b] = IF x[b] = x[b + k] THEN 0 ELSE 1
<1>1. x[b] \in {0, 1}
  BY DEF Rng!Word
<1>2. Rng!XorRight(x, k)[b] = IF x[b] = (IF b + k < Rng!Width THEN x[b + k] ELSE 0) THEN 0 ELSE 1
  BY DEF Rng!XorRight, Rng!Xor, Rng!ShiftRight
<1>3. b + k < Rng!Width => b + k \in Rng!Position
  BY DEF Rng!Position, Rng!Width
<1> QED BY <1>1, <1>2, <1>3

\* If two words that agree below c have the same x ^= x << k, they agree
\* below c + k.
LEMMA LeftChunk ==
  ASSUME NEW x \in Rng!Word, NEW y \in Rng!Word, NEW k \in 1..Rng!Width, NEW c \in Nat,
         Rng!XorLeft(x, k) = Rng!XorLeft(y, k),
         \A b \in Rng!Position : b < c => x[b] = y[b]
  PROVE  \A b \in Rng!Position : b < c + k => x[b] = y[b]
<1> SUFFICES ASSUME NEW b \in Rng!Position, b < c + k
             PROVE  x[b] = y[b]
  OBVIOUS
<1>1. Rng!XorLeft(x, k)[b] = Rng!XorLeft(y, k)[b]
  OBVIOUS
<1>2. CASE b < k
  BY <1>1, <1>2, LeftBit
<1>3. CASE ~(b < k)
  <2>1. b - k \in Rng!Position /\ b - k < c
    BY <1>3 DEF Rng!Position, Rng!Width
  <2>2. x[b - k] = y[b - k]
    BY <2>1
  <2>3. (IF x[b] = x[b - k] THEN 0 ELSE 1) = (IF y[b] = x[b - k] THEN 0 ELSE 1)
    BY <1>1, <1>3, <2>2, LeftBit
  <2>4. x[b] \in {0, 1} /\ y[b] \in {0, 1} /\ x[b - k] \in {0, 1}
    BY <2>1 DEF Rng!Word
  <2> QED BY <2>3, <2>4
<1> QED BY <1>2, <1>3

\* The same from the other end for x ^= x >> k.
LEMMA RightChunk ==
  ASSUME NEW x \in Rng!Word, NEW y \in Rng!Word, NEW k \in 1..Rng!Width, NEW c \in Nat,
         Rng!XorRight(x, k) = Rng!XorRight(y, k),
         \A b \in Rng!Position : b + c >= Rng!Width => x[b] = y[b]
  PROVE  \A b \in Rng!Position : b + (c + k) >= Rng!Width => x[b] = y[b]
<1> SUFFICES ASSUME NEW b \in Rng!Position, b + (c + k) >= Rng!Width
             PROVE  x[b] = y[b]
  OBVIOUS
<1>1. Rng!XorRight(x, k)[b] = Rng!XorRight(y, k)[b]
  OBVIOUS
<1>2. CASE ~(b + k < Rng!Width)
  BY <1>1, <1>2, RightBit
<1>3. CASE b + k < Rng!Width
  <2>1. b + k \in Rng!Position /\ (b + k) + c >= Rng!Width
    BY <1>3 DEF Rng!Position, Rng!Width
  <2>2. x[b + k] = y[b + k]
    BY <2>1
  <2>3. (IF x[b] = x[b + k] THEN 0 ELSE 1) = (IF y[b] = x[b + k] THEN 0 ELSE 1)
    BY <1>1, <1>3, <2>2, RightBit
  <2>4. x[b] \in {0, 1} /\ y[b] \in {0, 1} /\ x[b + k] \in {0, 1}
    BY <2>1 DEF Rng!Word
  <2> QED BY <2>3, <2>4
<1> QED BY <1>2, <1>3

\* x ^= x << 13 is one-to-one.
LEMMA Left13 ==
  ASSUME NEW x \in Rng!Word, NEW y \in Rng!Word, Rng!XorLeft(x, 13) = Rng!XorLeft(y, 13)
  PROVE  x = y
<1> DEFINE Agree(c) == \A b \in Rng!Position : b < c => x[b] = y[b]
<1>0. Agree(0)
  BY DEF Rng!Position, Rng!Width
<1>a. ASSUME NEW c \in Nat, Agree(c) PROVE Agree(c + 13)
  <2>1. 13 \in 1..Rng!Width
    BY DEF Rng!Width
  <2> QED BY <1>a, <2>1, LeftChunk
<1> HIDE DEF Agree
<1>1. Agree(13)
  BY <1>a, <1>0
<1>2. Agree(26)
  BY <1>a, <1>1
<1>3. Agree(39)
  BY <1>a, <1>2
<1>4. Agree(52)
  BY <1>a, <1>3
<1>5. Agree(65)
  BY <1>a, <1>4
<1> QED BY <1>5 DEF Agree, Rng!Word, Rng!Position, Rng!Width

\* x ^= x >> 7 is one-to-one.
LEMMA Right7 ==
  ASSUME NEW x \in Rng!Word, NEW y \in Rng!Word, Rng!XorRight(x, 7) = Rng!XorRight(y, 7)
  PROVE  x = y
<1> DEFINE Agree(c) == \A b \in Rng!Position : b + c >= Rng!Width => x[b] = y[b]
<1>0. Agree(0)
  BY DEF Rng!Position, Rng!Width
<1>a. ASSUME NEW c \in Nat, Agree(c) PROVE Agree(c + 7)
  <2>1. 7 \in 1..Rng!Width
    BY DEF Rng!Width
  <2> QED BY <1>a, <2>1, RightChunk
<1> HIDE DEF Agree
<1>1. Agree(7)
  BY <1>a, <1>0
<1>2. Agree(14)
  BY <1>a, <1>1
<1>3. Agree(21)
  BY <1>a, <1>2
<1>4. Agree(28)
  BY <1>a, <1>3
<1>5. Agree(35)
  BY <1>a, <1>4
<1>6. Agree(42)
  BY <1>a, <1>5
<1>7. Agree(49)
  BY <1>a, <1>6
<1>8. Agree(56)
  BY <1>a, <1>7
<1>9. Agree(63)
  BY <1>a, <1>8
<1>10. Agree(70)
  BY <1>a, <1>9
<1> QED BY <1>10 DEF Agree, Rng!Word, Rng!Position, Rng!Width

\* x ^= x << 5 is one-to-one.
LEMMA Left5 ==
  ASSUME NEW x \in Rng!Word, NEW y \in Rng!Word, Rng!XorLeft(x, 5) = Rng!XorLeft(y, 5)
  PROVE  x = y
<1> DEFINE Agree(c) == \A b \in Rng!Position : b < c => x[b] = y[b]
<1>0. Agree(0)
  BY DEF Rng!Position, Rng!Width
<1>a. ASSUME NEW c \in Nat, Agree(c) PROVE Agree(c + 5)
  <2>1. 5 \in 1..Rng!Width
    BY DEF Rng!Width
  <2> QED BY <1>a, <2>1, LeftChunk
<1> HIDE DEF Agree
<1>1. Agree(5)
  BY <1>a, <1>0
<1>2. Agree(10)
  BY <1>a, <1>1
<1>3. Agree(15)
  BY <1>a, <1>2
<1>4. Agree(20)
  BY <1>a, <1>3
<1>5. Agree(25)
  BY <1>a, <1>4
<1>6. Agree(30)
  BY <1>a, <1>5
<1>7. Agree(35)
  BY <1>a, <1>6
<1>8. Agree(40)
  BY <1>a, <1>7
<1>9. Agree(45)
  BY <1>a, <1>8
<1>10. Agree(50)
  BY <1>a, <1>9
<1>11. Agree(55)
  BY <1>a, <1>10
<1>12. Agree(60)
  BY <1>a, <1>11
<1>13. Agree(65)
  BY <1>a, <1>12
<1> QED BY <1>13 DEF Agree, Rng!Word, Rng!Position, Rng!Width

\* The state is always a word of 64 bits.
LEMMA Typing == Rng!TypeOK /\ [Rng!Generate]_m_state => Rng!TypeOK'
  BY WordType DEF Rng!TypeOK, Rng!Generate, Rng!NextState, Rng!Width

\* Two generators in different states are in different states after the next
\* call: the sequences of two seeds never fall together.
THEOREM NoTwoStatesMerge ==
  ASSUME NEW x \in Rng!Word, NEW y \in Rng!Word, Rng!NextState(x) = Rng!NextState(y)
  PROVE  x = y
<1>1. /\ Rng!XorLeft(x, 13) \in Rng!Word /\ Rng!XorLeft(y, 13) \in Rng!Word
      /\ Rng!XorRight(Rng!XorLeft(x, 13), 7) \in Rng!Word
      /\ Rng!XorRight(Rng!XorLeft(y, 13), 7) \in Rng!Word
  BY WordType DEF Rng!Width
<1>2. Rng!XorRight(Rng!XorLeft(x, 13), 7) = Rng!XorRight(Rng!XorLeft(y, 13), 7)
  BY <1>1, Left5 DEF Rng!NextState
<1>3. Rng!XorLeft(x, 13) = Rng!XorLeft(y, 13)
  BY <1>1, <1>2, Right7
<1> QED BY <1>3, Left13

\* A generator that was not seeded with 0 never gets stuck at 0, and one that
\* was stays there.
THEOREM NeverStuck == Rng!Spec => Rng!ZeroOnlyFromZero
<1>1. Rng!Zero \in Rng!Word
  BY DEF Rng!Zero, Rng!Word
<1>2. Rng!NextState(Rng!Zero) = Rng!Zero
  <2>1. Rng!XorLeft(Rng!Zero, 13) = Rng!Zero
    BY DEF Rng!Zero, Rng!XorLeft, Rng!Xor, Rng!ShiftLeft, Rng!Position, Rng!Width
  <2>2. Rng!XorRight(Rng!Zero, 7) = Rng!Zero
    BY DEF Rng!Zero, Rng!XorRight, Rng!Xor, Rng!ShiftRight, Rng!Position, Rng!Width
  <2>3. Rng!XorLeft(Rng!Zero, 5) = Rng!Zero
    BY DEF Rng!Zero, Rng!XorLeft, Rng!Xor, Rng!ShiftLeft, Rng!Position, Rng!Width
  <2> QED BY <2>1, <2>2, <2>3 DEF Rng!NextState
<1>3. Rng!TypeOK /\ [Rng!Generate]_m_state => [m_state' = Rng!Zero <=> m_state = Rng!Zero]_m_state
  BY <1>1, <1>2, NoTwoStatesMerge DEF Rng!TypeOK, Rng!Generate
<1> QED BY <1>3, Typing, PTL DEF Rng!Spec, Rng!Init, Rng!TypeOK, Rng!ZeroOnlyFromZero

=============================================================================
