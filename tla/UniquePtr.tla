------------------------------ MODULE UniquePtr ------------------------------
(***************************************************************************)
(* quick::handle::UniquePtr (include/quick/handle/UniquePtr.hh): handles   *)
(* that own an object and a deleter, and move both between each other.     *)
(*                                                                         *)
(* An object of Node has a UniquePtr member, as a list node has its next:  *)
(* the deleter of a node runs that member's destructor in the middle of    *)
(* the member function that called the deleter.  The member is named by    *)
(* its node, so a handle is a root or a node.  stack is what the running   *)
(* member function still has to do; a new call is made when it is empty.   *)
(***************************************************************************)
EXTENDS Naturals, Sequences, FiniteSets

CONSTANTS
  Root,     \* the UniquePtr variables that are no members of an object
  Object,   \* what operator new can return, each used once
  Node,     \* the objects that have a UniquePtr member
  Deleter,  \* the states of the deleter
  Garbage,  \* whatever is read from a deleter that was destroyed
  Null

ASSUME ConstantsAssumption ==
  /\ Node \subseteq Object
  /\ Root \cap Object = {}
  /\ Null \notin Root \cup Object
  /\ Garbage \notin Deleter

Handle == Root \cup Node

VARIABLES
  m_ptr, m_deleter,
  live,    \* the handles whose lifetime has begun and not ended
  obj,     \* obj[o]: "fresh", "alive", "dying" (in its destructor) or "freed"
  mate,    \* mate[o]: the deleter o has to be deleted with
  raw,     \* the objects that release() gave to the caller
  stack    \* the rest of the running member function, next step first

vars == <<m_ptr, m_deleter, live, obj, mate, raw, stack>>

Delete(o, d) == [do |-> "delete", obj |-> o, with |-> d]
Free(o) == [do |-> "free", obj |-> o]
EndLife(h) == [do |-> "end", handle |-> h]
TakeDeleter(dst, src) == [do |-> "take", dst |-> dst, src |-> src]

Init ==
  /\ m_ptr = [h \in Handle |-> Null]
  /\ m_deleter \in [Handle -> Deleter]
  /\ live = {}
  /\ obj = [o \in Object |-> "fresh"]
  /\ mate \in [Object -> Deleter]
  /\ raw = {}
  /\ stack = <<>>

-----------------------------------------------------------------------------
(* The member functions.                                                   *)

\* A set of objects that holds what its nodes own.
Closed(S) == \A n \in S \cap live : m_ptr[n] \in S \cup {Null}

\* The caller lets no object own itself: h may get the pointer o if it is not a
\* member of what o owns, directly or through its nodes.
NoCycle(h, o) ==
  \E S \in SUBSET Object : o \in S \cup {Null} /\ h \notin S /\ Closed(S)

\* A pointer that the caller may hand over to be deleted with d.
MayGive(o, d) == mate[o] = d /\ (obj[o] = "fresh" \/ o \in raw)

\* new T, unless the caller has the object already; a node's member is null.
Give(o) ==
  /\ obj' = [obj EXCEPT ![o] = "alive"]
  /\ raw' = raw \ {o}

Born(o) == {o} \cap (Node \ live)

\* The constructors without a pointer.
ConstructNull(h, d) ==
  /\ stack = <<>> /\ h \in Root \ live
  /\ m_ptr' = [m_ptr EXCEPT ![h] = Null]
  /\ m_deleter' = [m_deleter EXCEPT ![h] = d]
  /\ live' = live \cup {h}
  /\ UNCHANGED <<obj, mate, raw, stack>>

\* The constructors that take a pointer, and make_unique.
Construct(h, o, d) ==
  /\ stack = <<>> /\ h \in Root \ live /\ MayGive(o, d)
  /\ Give(o)
  /\ m_ptr' = [x \in Handle |-> IF x = h THEN o ELSE IF x \in Born(o) THEN Null ELSE m_ptr[x]]
  /\ m_deleter' = [m_deleter EXCEPT ![h] = d]
  /\ live' = live \cup {h} \cup Born(o)
  /\ UNCHANGED <<mate, stack>>

\* The move constructors: the pointer and the deleter go over.
MoveConstruct(h, src) ==
  /\ stack = <<>> /\ h \in Root \ live /\ src \in live
  /\ m_ptr' = [m_ptr EXCEPT ![h] = m_ptr[src], ![src] = Null]
  /\ m_deleter' = [m_deleter EXCEPT ![h] = m_deleter[src]]
  /\ live' = live \cup {h}
  /\ UNCHANGED <<obj, mate, raw, stack>>

\* What reset() has left to do once it exchanged h's pointer: call the deleter
\* on the old one, if there was one.
Old(h) == IF m_ptr[h] = Null THEN <<>> ELSE <<Delete(m_ptr[h], m_deleter[h])>>

\* reset(other.release()), then the deleter is taken over.
MoveAssign_mut(dst, src) ==
  /\ stack = <<>> /\ {dst, src} \subseteq live /\ dst # src /\ NoCycle(dst, m_ptr[src])
  /\ m_ptr' = [m_ptr EXCEPT ![dst] = m_ptr[src], ![src] = Null]
  /\ m_deleter' = [m_deleter EXCEPT ![dst] = m_deleter[src]]
  /\ stack' = IF m_ptr[dst] = Null THEN <<>> ELSE <<Delete(m_ptr[dst], m_deleter[src])>>
  /\ UNCHANGED <<live, obj, mate, raw>>
MoveAssign(dst, src) ==
  /\ stack = <<>> /\ {dst, src} \subseteq live /\ dst # src /\ NoCycle(dst, m_ptr[src])
  /\ m_ptr' = [m_ptr EXCEPT ![dst] = m_ptr[src], ![src] = Null]
  /\ stack' = Old(dst) \o <<TakeDeleter(dst, src)>>
  /\ UNCHANGED <<m_deleter, live, obj, mate, raw>>

\* reset() and operator=(nullptr)
ResetNull_mut(h) ==
  /\ stack = <<>> /\ h \in live
  /\ m_ptr' = [m_ptr EXCEPT ![h] = Null]
  /\ UNCHANGED <<m_deleter, live, obj, mate, raw, stack>>
ResetNull(h) ==
  /\ stack = <<>> /\ h \in live
  /\ m_ptr' = [m_ptr EXCEPT ![h] = Null]
  /\ stack' = Old(h)
  /\ UNCHANGED <<m_deleter, live, obj, mate, raw>>

\* reset(ptr)
Reset(h, o) ==
  /\ stack = <<>> /\ h \in live /\ MayGive(o, m_deleter[h]) /\ NoCycle(h, o)
  /\ Give(o)
  /\ m_ptr' = [x \in Handle |-> IF x = h THEN o ELSE IF x \in Born(o) THEN Null ELSE m_ptr[x]]
  /\ live' = live \cup Born(o)
  /\ stack' = Old(h)
  /\ UNCHANGED <<m_deleter, mate>>

\* A null pointer is returned as it is.
Release(h) ==
  /\ stack = <<>> /\ h \in live /\ m_ptr[h] # Null
  /\ raw' = raw \cup {m_ptr[h]}
  /\ m_ptr' = [m_ptr EXCEPT ![h] = Null]
  /\ UNCHANGED <<m_deleter, live, obj, mate, stack>>

Swap(h, g) ==
  /\ stack = <<>> /\ {h, g} \subseteq live /\ h # g
  /\ NoCycle(h, m_ptr[g]) /\ NoCycle(g, m_ptr[h])
  /\ m_ptr' = [m_ptr EXCEPT ![h] = m_ptr[g], ![g] = m_ptr[h]]
  /\ m_deleter' = [m_deleter EXCEPT ![h] = m_deleter[g], ![g] = m_deleter[h]]
  /\ UNCHANGED <<live, obj, mate, raw, stack>>

\* ~UniquePtr of a variable: reset(), and the handle's lifetime ends.
Destroy(h) ==
  /\ stack = <<>> /\ h \in live \cap Root
  /\ m_ptr' = [m_ptr EXCEPT ![h] = Null]
  /\ stack' = Old(h) \o <<EndLife(h)>>
  /\ UNCHANGED <<m_deleter, live, obj, mate, raw>>

-----------------------------------------------------------------------------
(* What a member function does after its exchange.                         *)

Top(do) == stack # <<>> /\ Head(stack).do = do

\* m_deleter(old) enters old's destructor, which destroys its member.
CallDeleter(o) ==
  /\ Top("delete") /\ o = Head(stack).obj
  /\ obj' = [obj EXCEPT ![o] = "dying"]
  /\ IF o \in Node
     THEN /\ m_ptr' = [m_ptr EXCEPT ![o] = Null]
          /\ stack' = Old(o) \o <<EndLife(o), Free(o)>> \o Tail(stack)
     ELSE /\ stack' = <<Free(o)>> \o Tail(stack)
          /\ UNCHANGED m_ptr
  /\ UNCHANGED <<m_deleter, live, mate, raw>>

EndDeleter ==
  /\ Top("free")
  /\ obj' = [obj EXCEPT ![Head(stack).obj] = "freed"]
  /\ stack' = Tail(stack)
  /\ UNCHANGED <<m_ptr, m_deleter, live, mate, raw>>

EndLifetime ==
  /\ Top("end")
  /\ live' = live \ {Head(stack).handle}
  /\ stack' = Tail(stack)
  /\ UNCHANGED <<m_ptr, m_deleter, obj, mate, raw>>

\* m_deleter = forward(other.m_deleter).  Deleting the old object may have
\* destroyed other: then garbage is read.
AssignDeleter ==
  /\ Top("take")
  /\ LET dst == Head(stack).dst  src == Head(stack).src
     IN  m_deleter' = [m_deleter EXCEPT ![dst] =
           IF src \in live THEN m_deleter[src] ELSE Garbage]
  /\ stack' = Tail(stack)
  /\ UNCHANGED <<m_ptr, live, obj, mate, raw>>

-----------------------------------------------------------------------------
Call ==
  \/ \E h \in Handle, d \in Deleter : ConstructNull(h, d)
  \/ \E h \in Handle, o \in Object, d \in Deleter : Construct(h, o, d)
  \/ \E h, src \in Handle : MoveConstruct(h, src)
  \/ \E dst, src \in Handle : MoveAssign(dst, src)
  \/ \E h \in Handle : ResetNull(h)
  \/ \E h \in Handle, o \in Object : Reset(h, o)
  \/ \E h \in Handle : Release(h)
  \/ \E h, g \in Handle : Swap(h, g)
  \/ \E h \in Handle : Destroy(h)

Continue ==
  \/ \E o \in Object : CallDeleter(o)
  \/ EndDeleter
  \/ EndLifetime
  \/ AssignDeleter

Next == Call \/ Continue

Spec == Init /\ [][Next]_vars

-----------------------------------------------------------------------------
(* Properties.                                                             *)

\* Everything that is responsible for o: handles, the caller, a pending call
\* of a deleter.
Owners(o) ==
  {<<"handle", h>> : h \in {x \in live : m_ptr[x] = o}}
    \cup {<<"caller", x>> : x \in raw \cap {o}}
    \cup {<<"deleter", i>> : i \in {j \in DOMAIN stack :
                                      stack[j].do = "delete" /\ stack[j].obj = o}}

\* An object that lives has exactly one owner and a dead one has none: it is
\* not deleted twice, not reachable once its destructor ran, and not leaked,
\* also when deleting a node re-enters reset() (179-186) through ~UniquePtr
\* (123-126) in the middle of an assignment.
OneOwner ==
  \A o \in Object : Cardinality(Owners(o)) = IF obj[o] = "alive" THEN 1 ELSE 0

\* The deleter that came with an object deletes it and, while no member function
\* is running, is the one beside it in its handle: assignments (135-154) and
\* swap (190-194) never pair an object with another handle's deleter.  The
\* exception is p = std::move(p->next), which reads the deleter of a destroyed
\* handle: harmless only if the deleter is an empty class.
RightDeleter ==
  /\ \A i \in DOMAIN stack :
       stack[i].do = "delete" => stack[i].with \in {mate[stack[i].obj], Garbage}
  /\ stack = <<>> =>
       \A h \in live : m_ptr[h] # Null => m_deleter[h] \in {mate[m_ptr[h]], Garbage}

=============================================================================
