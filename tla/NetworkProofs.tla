--------------------------- MODULE NetworkProofs ----------------------------
(***************************************************************************)
(* Proofs about the TCP endpoints and their configuration.  Tcp: an open   *)
(* descriptor has exactly one owner and nobody else closes a listening     *)
(* server's, for any number of threads, objects and descriptors.           *)
(* TomlParser and Config: however often a file is loaded and changed, and  *)
(* whatever its length, what is read is what its lines say.                *)
(***************************************************************************)
EXTENDS Tcp, Config, FiniteSetTheorems, SequenceTheorems, WellFoundedInduction, TLAPS

-----------------------------------------------------------------------------
(* The inductive invariant.                                                *)

\* The calls that get a new descriptor from the kernel.
Taking == {"start", "connect", "accept", "adopt"}

Pc == {"idle", "socket", "accept", "close", "store", "bind", "listen", "connect"}
Kind == Taking \cup {"none", "reset", "move", "destroy"}

OpType ==
  [pc : Pc, kind : Kind, this : Handle \cup {NoHandle}, src : Handle \cup {NoHandle},
   new : Fd \cup {None}]

TypesOK ==
  /\ kernel \in [Fd -> {"free", "socket", "accepted", "bound", "listening", "connected"}]
  /\ alive \subseteq Handle
  /\ _fd \in [Handle -> Fd \cup {None}]
  /\ op \in [Thread -> OpType]

\* What a thread inside a member function may rely on.
CallOK(o) ==
  /\ o.pc = "idle" => o = NoOp
  /\ o.pc # "idle" => o.this \in Handle /\ o.this # o.src
  /\ o.pc \in {"socket", "accept"} => o.kind \in Taking /\ o.new = None
  /\ o.pc \in {"close", "store"} => (o.kind \in Taking <=> o.new # None)
  /\ o.pc \in {"close", "bind", "listen", "connect"} => o.this \in alive /\ _fd[o.this] \in Fd
  /\ o.kind = "move" => o.src \in alive

CallsOK == \A t \in Thread : CallOK(op[t])

\* The object that a call changes is used by no other call.
Apart ==
  \A t, u \in Thread :
    (t # u /\ op[t].pc # "idle" /\ op[u].pc # "idle")
      => op[t].this # op[u].this /\ op[t].this # op[u].src

GoneOK == \A h \in Handle : h \notin alive => _fd[h] = None

\* The two ways to own descriptor f: as an object, and as a call on its way to
\* store it in one.
Holds(h, f) ==
  /\ h \in alive /\ _fd[h] = f
  /\ \A t \in Thread : op[t].pc = "store" => op[t].this # h

Carries(t, f) == op[t].new = f /\ op[t].pc \in {"close", "store"}

Owned ==
  \A f \in Fd :
    kernel[f] # "free" <=> (\E h \in Handle : Holds(h, f)) \/ (\E t \in Thread : Carries(t, f))

Once ==
  \A f \in Fd :
    /\ \A h, g \in Handle : Holds(h, f) /\ Holds(g, f) => h = g
    /\ \A t, u \in Thread : Carries(t, f) /\ Carries(u, f) => t = u
    /\ \A h \in Handle, t \in Thread : ~(Holds(h, f) /\ Carries(t, f))

SockInv == TypesOK /\ CallsOK /\ Apart /\ GoneOK /\ Owned /\ Once

-----------------------------------------------------------------------------
(* Lemmas.                                                                 *)

\* -1 is no descriptor.
LEMMA NoneIsNoFd == None \notin Fd /\ \A f \in Fd \cup {None} : f >= 0 <=> f \in Fd
  BY ConstantsAssumption DEF None, Fd

\* NoHandle is no object.
LEMMA NoHandleIsNone == NoHandle \notin Handle
  BY ConstantsAssumption DEF Handle

\* The operation of a thread has its type.
LEMMA OpTyped ==
  ASSUME SockInv, NEW t \in Thread
  PROVE  /\ op[t] \in OpType /\ op[t].pc \in Pc /\ op[t].kind \in Kind
         /\ op[t].this \in Handle \cup {NoHandle} /\ op[t].src \in Handle \cup {NoHandle}
         /\ op[t].new \in Fd \cup {None}
  BY DEF SockInv, TypesOK, OpType

LEMMA NoOpTyped ==
  /\ NoOp \in OpType /\ NoOp.pc = "idle" /\ NoOp.kind = "none" /\ NoOp.new = None
  /\ NoOp.this = NoHandle /\ NoOp.src = NoHandle
  BY DEF NoOp, OpType, Pc, Kind

\* Whether assigning to h closes a descriptor first.
LEMMA ReplaceCases ==
  ASSUME SockInv, NEW h \in Handle
  PROVE  \/ Replace(h) = "close" /\ h \in alive /\ _fd[h] \in Fd
         \/ Replace(h) = "store" /\ ~(h \in alive /\ _fd[h] \in Fd)
<1>1. _fd[h] \in Fd \cup {None}
  BY DEF SockInv, TypesOK
<1> QED BY <1>1, NoneIsNoFd DEF Replace

\* A step of t leaves the other calls as they are if it leaves alone the
\* objects they use.
LEMMA OthersOK ==
  ASSUME SockInv, NEW t \in Thread, CallOK(op[t])',
         \A u \in Thread : u # t => op'[u] = op[u],
         \A u \in Thread : u # t /\ op[u].pc # "idle" =>
           /\ op[u].this \in alive => op[u].this \in alive'
           /\ _fd'[op[u].this] = _fd[op[u].this]
           /\ op[u].src \in alive => op[u].src \in alive'
  PROVE  CallsOK'
<1> SUFFICES ASSUME NEW u \in Thread, u # t PROVE CallOK(op[u])'
  BY DEF CallsOK
<1>1. CallOK(op[u]) /\ op'[u] = op[u]
  BY DEF SockInv, CallsOK
<1>2. CASE op[u].pc = "idle"
  <2>1. op[u] = NoOp
    BY <1>1, <1>2 DEF CallOK
  <2> QED BY <1>1, <2>1, NoOpTyped DEF CallOK
<1>3. CASE op[u].pc # "idle"
  BY <1>1, <1>3 DEF CallOK
<1> QED BY <1>2, <1>3

\* A call that goes on uses the objects it used before.
LEMMA ApartKept ==
  ASSUME SockInv, NEW t \in Thread,
         \A u \in Thread : u # t => op'[u] = op[u],
         \/ op'[t].pc = "idle"
         \/ op[t].pc # "idle" /\ op'[t].this = op[t].this /\ op'[t].src = op[t].src
  PROVE  Apart'
  BY DEF SockInv, Apart

\* Ownership is kept where neither the owners nor the free descriptors change.
LEMMA SameOwners ==
  ASSUME SockInv,
         \A h \in Handle, f \in Fd : Holds(h, f)' <=> Holds(h, f),
         \A t \in Thread, f \in Fd : Carries(t, f)' <=> Carries(t, f),
         \A f \in Fd : kernel'[f] = "free" <=> kernel[f] = "free"
  PROVE  Owned' /\ Once'
<1>1. Owned /\ Once
  BY DEF SockInv
<1>2. Owned'
  BY <1>1 DEF Owned
<1>3. Once'
  BY <1>1 DEF Once
<1> QED BY <1>2, <1>3

-----------------------------------------------------------------------------
(* Calls.                                                                  *)

\* The beginning of a member function.
LEMMA BeginInv ==
  ASSUME SockInv, NEW t \in Thread,
         NEW pc \in {"socket", "accept", "close", "store"}, NEW kind \in Kind,
         NEW this \in Handle, NEW src \in Handle \cup {NoHandle},
         Begin(t, pc, kind, this, src), this # src, Unused(this),
         \A u \in Thread : op[u].pc # "idle" => op[u].this # src,
         pc \in {"socket", "accept"} <=> kind \in Taking,
         pc = "close" => this \in alive /\ _fd[this] \in Fd,
         pc = "store" => ~(this \in alive /\ _fd[this] \in Fd),
         kind = "move" => src \in alive
  PROVE  SockInv'
<1> DEFINE o == [pc |-> pc, kind |-> kind, this |-> this, src |-> src, new |-> None]
<1>1. /\ op[t] = NoOp /\ op' = [op EXCEPT ![t] = o]
      /\ UNCHANGED <<kernel, alive, _fd>>
  BY DEF Begin
<1>2. /\ o \in OpType /\ o.pc = pc /\ o.kind = kind /\ o.this = this /\ o.src = src
      /\ o.new = None
  BY DEF OpType, Pc
<1> HIDE DEF o
<1>3. op' \in [Thread -> OpType] /\ op'[t] = o /\ \A u \in Thread : u # t => op'[u] = op[u]
  BY <1>1, <1>2 DEF SockInv, TypesOK
<1>4. TypesOK'
  BY <1>1, <1>3 DEF SockInv, TypesOK
<1>5. CallOK(op[t])'
  BY <1>1, <1>2, <1>3 DEF CallOK
<1>6. CallsOK'
  BY <1>1, <1>3, <1>5, OthersOK
<1>7. Apart'
  BY <1>2, <1>3 DEF SockInv, Apart, Unused
<1>8. GoneOK'
  BY <1>1 DEF SockInv, GoneOK
<1>9. \A h \in Handle, f \in Fd : Holds(h, f)' <=> Holds(h, f)
  BY <1>1, <1>2, <1>3, NoOpTyped DEF Holds
<1>10. \A u \in Thread, f \in Fd : Carries(u, f)' <=> Carries(u, f)
  BY <1>1, <1>2, <1>3, NoOpTyped, NoneIsNoFd DEF Carries
<1>11. Owned' /\ Once'
  BY <1>1, <1>9, <1>10, SameOwners
<1> QED BY <1>4, <1>6, <1>7, <1>8, <1>11 DEF SockInv

\* A new object owns nothing.
LEMMA ConstructInv ==
  ASSUME SockInv, NEW t \in Thread, NEW h \in Handle, Construct(t, h)
  PROVE  SockInv'
<1>1. alive' = alive \cup {h} /\ h \notin alive /\ UNCHANGED <<kernel, _fd, op>>
  BY DEF Construct
<1>2. TypesOK'
  BY <1>1 DEF SockInv, TypesOK
<1>3. CallsOK'
  BY <1>1 DEF SockInv, CallsOK, CallOK
<1>4. Apart'
  BY <1>1 DEF SockInv, Apart
<1>5. GoneOK'
  BY <1>1 DEF SockInv, GoneOK
<1>6. \A g \in Handle, f \in Fd : Holds(g, f)' <=> Holds(g, f)
  BY <1>1, NoneIsNoFd DEF Holds, SockInv, GoneOK
<1>7. \A u \in Thread, f \in Fd : Carries(u, f)' <=> Carries(u, f)
  BY <1>1 DEF Carries
<1>8. Owned' /\ Once'
  BY <1>1, <1>6, <1>7, SameOwners
<1> QED BY <1>2, <1>3, <1>4, <1>5, <1>8 DEF SockInv

LEMMA CallInv ==
  ASSUME SockInv, NEW t \in Thread, Call(t)
  PROVE  SockInv'
<1>0. /\ Server \subseteq Handle /\ Client \subseteq Handle /\ Socket \subseteq Handle
      /\ Server \cap Socket = {} /\ NoHandle \notin Handle
  BY ConstantsAssumption DEF Handle
<1>a. \A u \in Thread : op[u].pc # "idle" => op[u].this # NoHandle
  BY <1>0 DEF SockInv, CallsOK, CallOK
<1>b. {"start", "connect", "accept", "adopt", "reset", "move", "destroy"} \subseteq Kind
  BY DEF Kind, Taking
<1>1. CASE \E h \in Handle : Construct(t, h)
  BY <1>1, ConstructInv
<1>2. CASE \E s \in Server : Start(t, s)
  BY <1>0, <1>a, <1>b, <1>2, BeginInv DEF Start, Taking
<1>3. CASE \E c \in Client : ConnectToServer(t, c)
  BY <1>0, <1>a, <1>b, <1>3, BeginInv DEF ConnectToServer, Taking
<1>4. CASE \E s \in Server, h \in Socket : AcceptClient(t, s, h)
  <2>1. PICK s \in Server, h \in Socket : AcceptClient(t, s, h)
    BY <1>4
  <2>2. s \in Handle /\ h \in Handle /\ h # s
    BY <1>0
  <2>3. Begin(t, "accept", "accept", h, s) /\ Unused(h) /\ \A u \in Thread : op[u].this # s
    BY <2>1 DEF AcceptClient, OnlyRead
  <2> QED BY <1>b, <2>2, <2>3, BeginInv DEF Taking
<1>5. CASE \E h \in Socket : Adopt(t, h)
  BY <1>0, <1>a, <1>b, <1>5, BeginInv DEF Adopt, Taking
<1>6. CASE \E h \in Handle : Begin(t, Replace(h), "reset", h, NoHandle) /\ Unused(h)
  <2>1. PICK h \in Handle : Begin(t, Replace(h), "reset", h, NoHandle) /\ Unused(h)
    BY <1>6
  <2>2. PICK pc \in {"close", "store"} : pc = Replace(h)
    BY ReplaceCases
  <2> QED BY <1>0, <1>a, <1>b, <2>1, <2>2, ReplaceCases, BeginInv DEF Taking
<1>7. CASE \E h, g \in Handle : MoveAssign(t, h, g)
  <2>1. PICK h \in Handle, g \in Handle : MoveAssign(t, h, g)
    BY <1>7
  <2>2. PICK pc \in {"close", "store"} : pc = Replace(h)
    BY ReplaceCases
  <2>3. /\ Begin(t, pc, "move", h, g) /\ Unused(h) /\ h # g /\ g \in alive
        /\ \A u \in Thread : op[u].this # g
    BY <2>1, <2>2 DEF MoveAssign, Unused
  <2> QED BY <1>0, <1>b, <2>2, <2>3, ReplaceCases, BeginInv DEF Taking
<1>8. CASE \E h, g \in Handle : MoveConstruct(t, h, g)
  <2>1. PICK h \in Handle, g \in Handle : MoveConstruct(t, h, g)
    BY <1>8
  <2>2. /\ Begin(t, "store", "move", h, g) /\ Unused(h) /\ h \notin alive /\ g \in alive
        /\ \A u \in Thread : op[u].this # g
    BY <2>1 DEF MoveConstruct, Unused
  <2> QED BY <1>0, <1>b, <2>2, BeginInv DEF Taking
<1>9. CASE \E h \in Handle : Destroy(t, h)
  <2>1. PICK h \in Handle : Destroy(t, h)
    BY <1>9
  <2>2. PICK pc \in {"close", "store"} : pc = Replace(h)
    BY ReplaceCases
  <2>3. Begin(t, pc, "destroy", h, NoHandle) /\ Unused(h)
    BY <2>1, <2>2 DEF Destroy
  <2> QED BY <1>0, <1>a, <1>b, <2>2, <2>3, ReplaceCases, BeginInv DEF Taking
<1> QED BY <1>0, <1>1, <1>2, <1>3, <1>4, <1>5, <1>6, <1>7, <1>8, <1>9 DEF Call, Reset

-----------------------------------------------------------------------------
(* System calls.                                                           *)

LEMMA GotoOp ==
  ASSUME SockInv, NEW t \in Thread, NEW pc \in Pc, Goto(t, pc)
  PROVE  /\ op' \in [Thread -> OpType] /\ \A u \in Thread : u # t => op'[u] = op[u]
         /\ op'[t].pc = pc /\ op'[t].kind = op[t].kind /\ op'[t].this = op[t].this
         /\ op'[t].src = op[t].src /\ op'[t].new = op[t].new
<1>1. op \in [Thread -> OpType] /\ op[t] \in OpType
  BY DEF SockInv, TypesOK
<1>2. PICK o : o = [op[t] EXCEPT !.pc = pc]
  OBVIOUS
<1>3. op' = [op EXCEPT ![t] = o]
  BY <1>2 DEF Goto
<1>4. /\ o \in OpType /\ o.pc = pc /\ o.kind = op[t].kind /\ o.this = op[t].this
      /\ o.src = op[t].src /\ o.new = op[t].new
  BY <1>1, <1>2 DEF OpType
<1> QED BY <1>1, <1>3, <1>4

LEMMA ReturnOp ==
  ASSUME SockInv, NEW t \in Thread, Return(t)
  PROVE  /\ op' \in [Thread -> OpType] /\ \A u \in Thread : u # t => op'[u] = op[u]
         /\ op'[t] = NoOp /\ op'[t].pc = "idle"
         /\ CallOK(op[t])'
<1>1. /\ op' \in [Thread -> OpType] /\ \A u \in Thread : u # t => op'[u] = op[u]
      /\ op'[t] = NoOp
  BY NoOpTyped DEF Return, SockInv, TypesOK
<1> QED BY <1>1, NoOpTyped DEF CallOK

\* The descriptor of the object that a call works on is the object's own.
LEMMA OwnFd ==
  ASSUME SockInv, NEW t \in Thread, op[t].pc \in {"close", "bind", "listen", "connect"}
  PROVE  /\ op[t].this \in Handle /\ op[t].this \in alive /\ _fd[op[t].this] \in Fd
         /\ Holds(op[t].this, _fd[op[t].this])
         /\ kernel[_fd[op[t].this]] # "free"
<1>1. op[t].this \in Handle /\ op[t].this \in alive /\ _fd[op[t].this] \in Fd
  BY DEF SockInv, CallsOK, CallOK
<1>2. \A u \in Thread : op[u].pc = "store" => op[u].this # op[t].this
  BY DEF SockInv, Apart
<1>3. Holds(op[t].this, _fd[op[t].this])
  BY <1>1, <1>2 DEF Holds
<1>4. kernel[_fd[op[t].this]] # "free"
  BY <1>1, <1>3 DEF SockInv, Owned
<1> QED BY <1>1, <1>3, <1>4

\* A step that neither takes nor gives up a descriptor.
LEMMA QuietInv ==
  ASSUME SockInv, NEW t \in Thread, UNCHANGED <<alive, _fd>>,
         op' \in [Thread -> OpType], \A u \in Thread : u # t => op'[u] = op[u],
         op[t].pc \notin {"idle", "close", "store"}, op'[t].pc \notin {"close", "store"},
         op'[t].pc = "idle" \/ (op'[t].this = op[t].this /\ op'[t].src = op[t].src),
         CallOK(op[t])',
         kernel' \in [Fd -> {"free", "socket", "accepted", "bound", "listening", "connected"}],
         \A f \in Fd : kernel'[f] = "free" <=> kernel[f] = "free"
  PROVE  SockInv'
<1>1. TypesOK'
  BY DEF SockInv, TypesOK
<1>2. CallsOK'
  BY OthersOK
<1>3. Apart'
  BY ApartKept
<1>4. GoneOK'
  BY DEF SockInv, GoneOK
<1>5. \A h \in Handle, f \in Fd : Holds(h, f)' <=> Holds(h, f)
  <2>1. \A u \in Thread : /\ op'[u].pc = "store" <=> op[u].pc = "store"
                          /\ op[u].pc = "store" => op'[u].this = op[u].this
    OBVIOUS
  <2> QED BY <2>1 DEF Holds
<1>6. \A u \in Thread, f \in Fd : Carries(u, f)' <=> Carries(u, f)
  <2> SUFFICES ASSUME NEW u \in Thread, NEW f \in Fd PROVE Carries(u, f)' <=> Carries(u, f)
    OBVIOUS
  <2>1. CASE u = t
    BY <2>1 DEF Carries
  <2>2. CASE u # t
    BY <2>2 DEF Carries
  <2> QED BY <2>1, <2>2
<1>7. Owned' /\ Once'
  BY <1>5, <1>6, SameOwners
<1> QED BY <1>1, <1>2, <1>3, <1>4, <1>7 DEF SockInv

LEMMA SysFailInv ==
  ASSUME SockInv, NEW t \in Thread, SysFail(t)
  PROVE  SockInv'
<1>1. /\ op[t].pc \in {"socket", "bind", "listen", "connect", "accept"} /\ Return(t)
      /\ UNCHANGED <<kernel, alive, _fd>>
  BY DEF SysFail
<1>2. /\ op' \in [Thread -> OpType] /\ \A u \in Thread : u # t => op'[u] = op[u]
      /\ op'[t].pc = "idle" /\ CallOK(op[t])'
  BY <1>1, ReturnOp
<1>3. kernel' \in [Fd -> {"free", "socket", "accepted", "bound", "listening", "connected"}]
  BY <1>1 DEF SockInv, TypesOK
<1> QED BY <1>1, <1>2, <1>3, QuietInv

\* bind(), listen() and connect() change the state of the object's own socket.
LEMMA SysSetInv ==
  ASSUME SockInv, NEW t \in Thread, SysBind(t) \/ SysListen(t) \/ SysConnect(t)
  PROVE  SockInv'
<1>1. /\ op[t].pc \in {"bind", "listen", "connect"} /\ UNCHANGED <<alive, _fd>>
      /\ Goto(t, "listen") \/ Return(t)
  BY DEF SysBind, SysListen, SysConnect, At
<1>2. PICK g \in Fd : g = _fd[op[t].this] /\ kernel[g] # "free"
  BY <1>1, OwnFd
<1>3. PICK x \in {"bound", "listening", "connected"} : kernel' = [kernel EXCEPT ![g] = x]
  BY <1>2 DEF SysBind, SysListen, SysConnect
<1>4. /\ kernel' \in [Fd -> {"free", "socket", "accepted", "bound", "listening", "connected"}]
      /\ \A f \in Fd : kernel'[f] = "free" <=> kernel[f] = "free"
  BY <1>2, <1>3 DEF SockInv, TypesOK
<1>5. CASE Goto(t, "listen")
  <2>1. "listen" \in Pc
    BY DEF Pc
  <2>2. /\ op' \in [Thread -> OpType] /\ \A u \in Thread : u # t => op'[u] = op[u]
        /\ op'[t].pc = "listen" /\ op'[t].kind = op[t].kind /\ op'[t].this = op[t].this
        /\ op'[t].src = op[t].src /\ op'[t].new = op[t].new
    BY <1>5, <2>1, GotoOp
  <2>3. CallOK(op[t])
    BY DEF SockInv, CallsOK
  <2>4. CallOK(op[t])'
    BY <1>1, <2>2, <2>3 DEF CallOK
  <2> QED BY <1>1, <1>4, <2>2, <2>4, QuietInv
<1>6. CASE Return(t)
  <2>1. /\ op' \in [Thread -> OpType] /\ \A u \in Thread : u # t => op'[u] = op[u]
        /\ op'[t].pc = "idle" /\ CallOK(op[t])'
    BY <1>6, ReturnOp
  <2> QED BY <1>1, <1>4, <2>1, QuietInv
<1> QED BY <1>1, <1>5, <1>6

\* A new descriptor is the call's.
LEMMA NewFdInv ==
  ASSUME SockInv, NEW t \in Thread, NEW f \in Fd, NEW state \in {"socket", "accepted"},
         op[t].pc \in {"socket", "accept"}, NewFd(t, f, state)
  PROVE  SockInv'
<1>1. /\ kernel[f] = "free" /\ kernel' = [kernel EXCEPT ![f] = state]
      /\ UNCHANGED <<alive, _fd>>
  BY DEF NewFd, Lowest
<1>2. CallOK(op[t]) /\ op[t].this \in Handle /\ op[t].kind \in Taking
  BY DEF SockInv, CallsOK, CallOK
<1>3. PICK r \in {"close", "store"} :
        /\ r = Replace(op[t].this)
        /\ r = "close" <=> (op[t].this \in alive /\ _fd[op[t].this] \in Fd)
  BY <1>2, ReplaceCases
<1>4. PICK o : o = [op[t] EXCEPT !.new = f, !.pc = r]
  OBVIOUS
<1>5. op \in [Thread -> OpType] /\ op[t] \in OpType
  BY DEF SockInv, TypesOK
<1>6. op' = [op EXCEPT ![t] = o]
  BY <1>3, <1>4, <1>5 DEF NewFd
<1>7. /\ o \in OpType /\ o.pc = r /\ o.kind = op[t].kind /\ o.this = op[t].this
      /\ o.src = op[t].src /\ o.new = f
  BY <1>4, <1>5 DEF OpType, Pc
<1>8. op' \in [Thread -> OpType] /\ op'[t] = o /\ \A u \in Thread : u # t => op'[u] = op[u]
  BY <1>5, <1>6, <1>7
<1>9. TypesOK'
  BY <1>1, <1>8 DEF SockInv, TypesOK
<1>10. CallOK(op[t])'
  BY <1>1, <1>2, <1>3, <1>7, <1>8, NoneIsNoFd DEF CallOK
<1>11. CallsOK'
  BY <1>1, <1>8, <1>10, OthersOK
<1>12. Apart'
  BY <1>7, <1>8, ApartKept
<1>13. GoneOK'
  BY <1>1 DEF SockInv, GoneOK
<1>14. \A h \in Handle, g \in Fd : Holds(h, g)' <=> Holds(h, g)
  BY <1>1, <1>3, <1>7, <1>8 DEF Holds
<1>15. \A u \in Thread, g \in Fd :
         Carries(u, g)' <=> IF u = t THEN g = f ELSE Carries(u, g)
  BY <1>3, <1>7, <1>8 DEF Carries
<1>16. ~Carries(t, f) /\ \A g \in Fd : ~Carries(t, g)
  BY DEF Carries
<1>17. /\ \A h \in Handle : ~Holds(h, f)
       /\ \A u \in Thread : ~Carries(u, f)
  BY <1>1 DEF SockInv, Owned
<1>18. \A g \in Fd : kernel'[g] = "free" <=> g # f /\ kernel[g] = "free"
  BY <1>1 DEF SockInv, TypesOK
<1>19. Owned'
  <2>1. Owned
    BY DEF SockInv
  <2> QED BY <1>14, <1>15, <1>16, <1>18, <2>1 DEF Owned
<1>20. Once'
  <2>1. Once
    BY DEF SockInv
  <2> QED BY <1>14, <1>15, <1>16, <1>17, <2>1 DEF Once
<1> QED BY <1>9, <1>11, <1>12, <1>13, <1>19, <1>20 DEF SockInv

\* close() of the object's own descriptor, which is then nobody's.
LEMMA CloseOldInv ==
  ASSUME SockInv, NEW t \in Thread, CloseOld(t)
  PROVE  SockInv'
<1>1. op[t].pc = "close" /\ UNCHANGED <<alive, _fd>> /\ Goto(t, "store")
  BY DEF CloseOld, At
<1>2. PICK h \in Handle, g \in Fd :
        /\ h = op[t].this /\ g = _fd[h] /\ h \in alive /\ Holds(h, g) /\ kernel[g] # "free"
  BY <1>1, OwnFd
<1>3. kernel' = [kernel EXCEPT ![g] = "free"]
  BY <1>2 DEF CloseOld
<1>4. "store" \in Pc
  BY DEF Pc
<1>5. /\ op' \in [Thread -> OpType] /\ \A u \in Thread : u # t => op'[u] = op[u]
      /\ op'[t].pc = "store" /\ op'[t].kind = op[t].kind /\ op'[t].this = op[t].this
      /\ op'[t].src = op[t].src /\ op'[t].new = op[t].new
  BY <1>1, <1>4, GotoOp
<1>6. TypesOK'
  BY <1>1, <1>3, <1>5 DEF SockInv, TypesOK
<1>7. CallOK(op[t])
  BY DEF SockInv, CallsOK
<1>8. CallOK(op[t])'
  BY <1>1, <1>5, <1>7 DEF CallOK
<1>9. CallsOK'
  BY <1>1, <1>5, <1>8, OthersOK
<1>10. Apart'
  BY <1>1, <1>5, ApartKept
<1>11. GoneOK'
  BY <1>1 DEF SockInv, GoneOK
<1>12. \A x \in Handle, f \in Fd : Holds(x, f)' <=> x # h /\ Holds(x, f)
  BY <1>1, <1>2, <1>5 DEF Holds
<1>13. \A u \in Thread, f \in Fd : Carries(u, f)' <=> Carries(u, f)
  BY <1>1, <1>5 DEF Carries
<1>14. \A f \in Fd : Holds(h, f) => f = g
  BY <1>2 DEF Holds
<1>15. \A f \in Fd : kernel'[f] = "free" <=> f = g \/ kernel[f] = "free"
  BY <1>3 DEF SockInv, TypesOK
<1>16. /\ \A x \in Handle : Holds(x, g) => x = h
       /\ \A u \in Thread : ~Carries(u, g)
  BY <1>2 DEF SockInv, Once
<1>17. Owned'
  <2>1. Owned
    BY DEF SockInv
  <2> QED BY <1>12, <1>13, <1>14, <1>15, <1>16, <2>1 DEF Owned
<1>18. Once'
  <2>1. Once
    BY DEF SockInv
  <2> QED BY <1>12, <1>13, <2>1 DEF Once
<1> QED BY <1>6, <1>9, <1>10, <1>11, <1>17, <1>18 DEF SockInv

\* The object that is assigned to is owned by the call alone, and has no other
\* call's descriptor.
LEMMA Storing ==
  ASSUME SockInv, NEW t \in Thread, op[t].pc = "store"
  PROVE  /\ op[t].this \in Handle /\ op[t].this # op[t].src
         /\ \A f \in Fd : ~Holds(op[t].this, f)
         /\ \A u \in Thread : u # t /\ op[u].pc # "idle" =>
              op[u].this # op[t].this /\ op[u].src # op[t].this /\ op[u].this # op[t].src
<1>1. op[t].this \in Handle /\ op[t].this # op[t].src
  BY DEF SockInv, CallsOK, CallOK
<1>2. \A f \in Fd : ~Holds(op[t].this, f)
  BY DEF Holds
<1>3. \A u \in Thread : u # t /\ op[u].pc # "idle" =>
        op[u].this # op[t].this /\ op[u].src # op[t].this /\ op[u].this # op[t].src
  BY DEF SockInv, Apart
<1> QED BY <1>1, <1>2, <1>3

\* The descriptor goes from the call to the object.
LEMMA StoreInv ==
  ASSUME SockInv, NEW t \in Thread, Store(t)
  PROVE  SockInv'
<1> DEFINE n == op[t].new
<1>1. /\ op[t].pc = "store" /\ op[t].kind # "move" /\ UNCHANGED kernel
      /\ \/ Goto(t, "bind") /\ op[t].kind = "start"
         \/ Goto(t, "connect") /\ op[t].kind = "connect"
         \/ Return(t)
  <2>1. AfterStore(t) /\ op[t].pc = "store" /\ op[t].kind # "move" /\ UNCHANGED kernel
    BY DEF Store, At
  <2>2. CASE op[t].kind = "start"
    BY <2>1, <2>2 DEF AfterStore
  <2>3. CASE op[t].kind = "connect"
    BY <2>1, <2>3 DEF AfterStore
  <2>4. CASE op[t].kind \notin {"start", "connect"}
    BY <2>1, <2>4 DEF AfterStore
  <2> QED BY <2>1, <2>2, <2>3, <2>4
<1>2. PICK h \in Handle : h = op[t].this
  BY <1>1, Storing
<1>3. /\ _fd' = [_fd EXCEPT ![h] = n]
      /\ alive' = IF op[t].kind = "destroy" THEN alive \ {h} ELSE alive \cup {h}
  BY <1>2 DEF Store
<1>4. n \in Fd \cup {None} /\ (op[t].kind \in Taking <=> n \in Fd)
  <2>1. CallOK(op[t]) /\ n \in Fd \cup {None}
    BY OpTyped DEF SockInv, CallsOK
  <2> QED BY <1>1, <2>1, NoneIsNoFd DEF CallOK
<1> HIDE DEF n
<1>5. /\ op' \in [Thread -> OpType] /\ \A u \in Thread : u # t => op'[u] = op[u]
      /\ op'[t].pc \in {"idle", "bind", "connect"}
      /\ \/ op'[t] = NoOp
         \/ /\ op[t].kind \in Taking /\ op'[t].pc \in {"bind", "connect"}
            /\ op'[t].kind = op[t].kind /\ op'[t].this = h /\ op'[t].src = op[t].src
  <2>1. "bind" \in Pc /\ "connect" \in Pc /\ "start" \in Taking /\ "connect" \in Taking
    BY DEF Pc, Taking
  <2> QED BY <1>1, <1>2, <2>1, GotoOp, ReturnOp
<1>6. /\ _fd' \in [Handle -> Fd \cup {None}] /\ _fd'[h] = n
      /\ \A x \in Handle : x # h => _fd'[x] = _fd[x]
  BY <1>3, <1>4 DEF SockInv, TypesOK
<1>7. TypesOK'
  BY <1>1, <1>3, <1>5, <1>6 DEF SockInv, TypesOK
<1>8. "destroy" \notin Taking /\ "move" \notin Taking
  BY DEF Taking
<1>9. CallOK(op[t])'
  <2>1. CASE op'[t] = NoOp
    BY <2>1, NoOpTyped DEF CallOK
  <2>2. CASE op'[t] # NoOp
    <3>1. h # op[t].src /\ h \in alive' /\ n \in Fd
      BY <1>1, <1>2, <1>3, <1>4, <1>5, <1>8, <2>2, Storing
    <3> QED BY <1>1, <1>5, <1>6, <2>2, <3>1 DEF CallOK
  <2> QED BY <2>1, <2>2
<1>10. \A u \in Thread : u # t /\ op[u].pc # "idle" =>
         op[u].this # h /\ op[u].src # h /\ op[u].this \in Handle
  BY <1>1, <1>2, Storing DEF SockInv, CallsOK, CallOK
<1>11. CallsOK'
  BY <1>3, <1>5, <1>6, <1>9, <1>10, OthersOK
<1>12. Apart'
  BY <1>1, <1>2, <1>5, NoOpTyped, ApartKept
<1>13. GoneOK'
  <2>1. op[t].kind = "destroy" => n = None
    BY <1>4, <1>8
  <2> QED BY <1>3, <1>6, <2>1 DEF SockInv, GoneOK
<1>14. \A x \in Handle, f \in Fd : Holds(x, f)' <=> IF x = h THEN Carries(t, f) ELSE Holds(x, f)
  <2> SUFFICES ASSUME NEW x \in Handle, NEW f \in Fd
               PROVE  Holds(x, f)' <=> IF x = h THEN Carries(t, f) ELSE Holds(x, f)
    OBVIOUS
  <2>1. CASE x = h
    <3>1. \A u \in Thread : op'[u].pc = "store" => op'[u].this # h
      BY <1>5, <1>10
    <3>2. Carries(t, f) <=> n = f
      BY <1>1 DEF Carries, n
    <3>3. n = f => h \in alive'
      BY <1>3, <1>4, <1>8
    <3> QED BY <1>6, <2>1, <3>1, <3>2, <3>3 DEF Holds
  <2>2. CASE x # h
    BY <1>2, <1>3, <1>5, <1>6, <2>2 DEF Holds
  <2> QED BY <2>1, <2>2
<1>15. \A u \in Thread, f \in Fd : Carries(u, f)' <=> u # t /\ Carries(u, f)
  BY <1>5 DEF Carries
<1>16. \A f \in Fd : ~Holds(h, f)
  BY <1>1, <1>2, Storing
<1>17. Owned'
  <2>1. Owned
    BY DEF SockInv
  <2> QED BY <1>1, <1>14, <1>15, <1>16, <2>1 DEF Owned
<1>18. Once'
  <2>1. Once
    BY DEF SockInv
  <2> QED BY <1>14, <1>15, <1>16, <2>1 DEF Once
<1> QED BY <1>7, <1>11, <1>12, <1>13, <1>17, <1>18 DEF SockInv

\* The descriptor goes from the one object to the other.
LEMMA StoreMoveInv ==
  ASSUME SockInv, NEW t \in Thread, StoreMove(t)
  PROVE  SockInv'
<1>1. op[t].pc = "store" /\ op[t].kind = "move" /\ UNCHANGED kernel /\ Return(t)
  BY DEF StoreMove, At
<1>2. PICK h \in Handle : h = op[t].this
  BY <1>1, Storing
<1>3. PICK s \in Handle : s = op[t].src /\ s \in alive /\ s # h
  BY <1>1, <1>2, Storing DEF SockInv, CallsOK, CallOK, TypesOK
<1>4. /\ _fd' = [_fd EXCEPT ![h] = _fd[s], ![s] = None]
      /\ alive' = alive \cup {h}
  BY <1>2, <1>3 DEF StoreMove
<1>5. /\ op' \in [Thread -> OpType] /\ \A u \in Thread : u # t => op'[u] = op[u]
      /\ op'[t].pc = "idle" /\ CallOK(op[t])'
  BY <1>1, ReturnOp
<1>6. /\ _fd' \in [Handle -> Fd \cup {None}] /\ _fd'[h] = _fd[s] /\ _fd'[s] = None
      /\ \A x \in Handle : x # h /\ x # s => _fd'[x] = _fd[x]
  BY <1>3, <1>4 DEF SockInv, TypesOK
<1>7. TypesOK'
  BY <1>1, <1>4, <1>5, <1>6 DEF SockInv, TypesOK
<1>8. \A u \in Thread : u # t /\ op[u].pc # "idle" =>
        op[u].this # h /\ op[u].this # s /\ op[u].this \in Handle
  BY <1>1, <1>2, <1>3, Storing DEF SockInv, CallsOK, CallOK
<1>9. CallsOK'
  BY <1>4, <1>5, <1>6, <1>8, OthersOK
<1>10. Apart'
  BY <1>5, ApartKept
<1>11. GoneOK'
  BY <1>4, <1>6 DEF SockInv, GoneOK
<1>12. \A x \in Handle, f \in Fd :
         Holds(x, f)' <=> IF x = h THEN Holds(s, f) ELSE x # s /\ Holds(x, f)
  <2> SUFFICES ASSUME NEW x \in Handle, NEW f \in Fd
               PROVE  Holds(x, f)' <=> IF x = h THEN Holds(s, f) ELSE x # s /\ Holds(x, f)
    OBVIOUS
  <2>1. CASE x = h
    <3>1. \A u \in Thread : op'[u].pc = "store" => op'[u].this # h
      BY <1>5, <1>8
    <3>2. \A u \in Thread : op[u].pc = "store" => op[u].this # s
      BY <1>2, <1>3, <1>8
    <3> QED BY <1>3, <1>4, <1>6, <2>1, <3>1, <3>2 DEF Holds
  <2>2. CASE x = s
    BY <1>3, <1>6, <2>2, NoneIsNoFd DEF Holds
  <2>3. CASE x # h /\ x # s
    BY <1>2, <1>4, <1>5, <1>6, <2>3 DEF Holds
  <2> QED BY <2>1, <2>2, <2>3
<1>13. \A f \in Fd : ~Holds(h, f) /\ ~Carries(t, f)
  <2>1. "move" \notin Taking
    BY DEF Taking
  <2>2. op[t].new = None
    BY <1>1, <2>1 DEF SockInv, CallsOK, CallOK
  <2> QED BY <1>1, <1>2, <2>2, Storing, NoneIsNoFd DEF Carries
<1>14. \A u \in Thread, f \in Fd : Carries(u, f)' <=> Carries(u, f)
  <2> SUFFICES ASSUME NEW u \in Thread, NEW f \in Fd PROVE Carries(u, f)' <=> Carries(u, f)
    OBVIOUS
  <2>1. CASE u = t
    BY <1>5, <1>13, <2>1 DEF Carries
  <2>2. CASE u # t
    BY <1>5, <2>2 DEF Carries
  <2> QED BY <2>1, <2>2
<1>15. Owned'
  <2>1. Owned
    BY DEF SockInv
  <2> QED BY <1>1, <1>12, <1>13, <1>14, <2>1 DEF Owned
<1>16. Once'
  <2>1. Once
    BY DEF SockInv
  <2> QED BY <1>12, <1>13, <1>14, <2>1 DEF Once
<1> QED BY <1>7, <1>9, <1>10, <1>11, <1>15, <1>16 DEF SockInv

-----------------------------------------------------------------------------
(* The theorems.                                                           *)

LEMMA InitInv ==
  ASSUME Init
  PROVE  SockInv
<1>1. \A t \in Thread : op[t] = NoOp
  BY DEF Init
<1>2. TypesOK
  BY NoOpTyped DEF Init, TypesOK
<1>3. CallsOK /\ Apart /\ GoneOK
  BY <1>1, NoOpTyped DEF Init, CallsOK, CallOK, Apart, GoneOK
<1>4. /\ \A h \in Handle, f \in Fd : ~Holds(h, f)
      /\ \A t \in Thread, f \in Fd : ~Carries(t, f)
  BY <1>1, NoOpTyped DEF Init, Holds, Carries
<1>5. Owned /\ Once
  BY <1>4 DEF Init, Owned, Once
<1> QED BY <1>2, <1>3, <1>5 DEF SockInv

LEMMA NextInv ==
  ASSUME SockInv, [Next]_vars
  PROVE  SockInv'
<1>1. CASE UNCHANGED vars
  <2>1. UNCHANGED <<kernel, alive, _fd, op>>
    BY <1>1 DEF vars
  <2>2. TypesOK' /\ CallsOK' /\ Apart' /\ GoneOK'
    BY <2>1 DEF SockInv, TypesOK, CallsOK, CallOK, Apart, GoneOK
  <2>3. /\ \A h \in Handle, f \in Fd : Holds(h, f)' <=> Holds(h, f)
        /\ \A t \in Thread, f \in Fd : Carries(t, f)' <=> Carries(t, f)
    BY <2>1 DEF Holds, Carries
  <2>4. Owned' /\ Once'
    BY <2>1, <2>3, SameOwners
  <2> QED BY <2>2, <2>4 DEF SockInv
<1>2. ASSUME NEW t \in Thread, Call(t) PROVE SockInv'
  BY <1>2, CallInv
<1>3. ASSUME NEW t \in Thread, Continue(t) PROVE SockInv'
  <2>1. CASE \E f \in Fd : SysSocket(t, f)
    BY <2>1, NewFdInv DEF SysSocket, At
  <2>2. CASE \E f \in Fd : SysAccept(t, f)
    BY <2>2, NewFdInv DEF SysAccept, At
  <2> QED BY <1>3, <2>1, <2>2, SysFailInv, CloseOldInv, StoreInv, StoreMoveInv, SysSetInv
          DEF Continue
<1> QED BY <1>1, <1>2, <1>3 DEF Next

\* However the threads' calls interleave and wherever a system call fails, the
\* descriptors and the objects and calls that have them agree.
THEOREM SocketInvariant == Spec => []SockInv
<1>1. Init => SockInv
  BY InitInv
<1>2. SockInv /\ [Next]_vars => SockInv'
  BY NextInv
<1> QED BY <1>1, <1>2, PTL DEF Spec

\* A descriptor that the kernel gave out is to be closed by exactly one object
\* or call, on every path through start, connect_to_server, accept_client, the
\* moves, reset and the destructor, and a free one by none.
THEOREM OneCloser == Spec => []OneOwner
<1>1. SockInv => OneOwner
  <2> SUFFICES ASSUME SockInv, NEW f \in Fd
               PROVE  Cardinality(Owners(f)) = IF kernel[f] = "free" THEN 0 ELSE 1
    BY DEF OneOwner
  <2> DEFINE H == {h \in alive \ Stale : _fd[h] = f}
  <2> DEFINE T == {t \in Thread : op[t].new = f /\ op[t].pc \in {"close", "store"}}
  <2>1. \A h : h \in H <=> h \in Handle /\ Holds(h, f)
    BY DEF Holds, Stale, SockInv, TypesOK
  <2>2. \A t : t \in T <=> t \in Thread /\ Carries(t, f)
    BY DEF Carries
  <2>3. Owners(f) = H \cup T
    BY DEF Owners
  <2> HIDE DEF H, T
  <2>4. kernel[f] # "free" <=> (\E h \in Handle : Holds(h, f)) \/ (\E t \in Thread : Carries(t, f))
    BY DEF SockInv, Owned
  <2>5. /\ \A h, g \in Handle : Holds(h, f) /\ Holds(g, f) => h = g
        /\ \A t, u \in Thread : Carries(t, f) /\ Carries(u, f) => t = u
        /\ \A h \in Handle, t \in Thread : ~(Holds(h, f) /\ Carries(t, f))
    BY DEF SockInv, Once
  <2>6. CASE kernel[f] = "free"
    <3>1. Owners(f) = {}
      BY <2>1, <2>2, <2>3, <2>4, <2>6
    <3> QED BY <2>6, <3>1, FS_EmptySet
  <2>7. CASE kernel[f] # "free"
    <3>1. \E x : Owners(f) = {x}
      <4>1. CASE \E h \in Handle : Holds(h, f)
        BY <2>1, <2>2, <2>3, <2>5, <4>1
      <4>2. CASE \E t \in Thread : Carries(t, f)
        BY <2>1, <2>2, <2>3, <2>5, <4>2
      <4> QED BY <2>4, <2>7, <4>1, <4>2
    <3> QED BY <2>7, <3>1, FS_Singleton
  <2> QED BY <2>6, <2>7
<1> QED BY <1>1, SocketInvariant, PTL

\* A server whose own member functions are not running goes on listening,
\* whatever other threads close, open, bind or move at the same time.
THEOREM ServersUndisturbed == Spec => NobodyElseCloses
<1> DEFINE Listens(s) == s \in alive /\ OnlyRead(s) /\ _fd[s] \in Fd /\ kernel[_fd[s]] = "listening"
<1>1. SockInv /\ [Next]_vars =>
        [\A s \in Server :
           (s \in alive \cap alive' /\ OnlyRead(s) /\ _fd[s] \in Fd /\ kernel[_fd[s]] = "listening")
             => kernel'[_fd[s]] = "listening"]_vars
  <2> SUFFICES ASSUME SockInv, Next, NEW s \in Server, Listens(s)
               PROVE  kernel'[_fd[s]] = "listening"
    OBVIOUS
  <2>1. s \in Handle /\ \A u \in Thread : op[u].this # s
    BY DEF Handle, OnlyRead
  <2>2. PICK f \in Fd : f = _fd[s] /\ kernel[f] = "listening" /\ Holds(s, f)
    BY <2>1 DEF Holds
  <2>3. PICK t \in Thread : Call(t) \/ Continue(t)
    BY DEF Next
  <2>4. CASE UNCHANGED kernel
    BY <2>2, <2>4
  <2>5. CASE \E g \in Fd : kernel[g] = "free" /\ \E x : kernel' = [kernel EXCEPT ![g] = x]
    BY <2>2, <2>5 DEF SockInv, TypesOK
  <2>6. CASE /\ op[t].pc \in {"close", "bind", "listen", "connect"}
             /\ \E x : kernel' = [kernel EXCEPT ![_fd[op[t].this]] = x]
    <3>1. /\ op[t].this \in Handle /\ _fd[op[t].this] \in Fd
          /\ Holds(op[t].this, _fd[op[t].this])
      BY <2>6, OwnFd
    <3>2. _fd[op[t].this] # f
      BY <2>1, <2>2, <3>1 DEF SockInv, Once
    <3> QED BY <2>2, <2>6, <3>1, <3>2 DEF SockInv, TypesOK
  <2>7. CASE Call(t)
    BY <2>4, <2>7 DEF Call, Construct, Start, ConnectToServer, AcceptClient, Adopt, Reset,
                      MoveAssign, MoveConstruct, Destroy, Begin
  <2>8. CASE Continue(t)
    <3>1. CASE \E g \in Fd : SysSocket(t, g) \/ SysAccept(t, g)
      BY <2>5, <3>1 DEF SysSocket, SysAccept, NewFd, Lowest
    <3>2. CASE SysFail(t) \/ Store(t) \/ StoreMove(t)
      BY <2>4, <3>2 DEF SysFail, Store, StoreMove
    <3>3. CASE CloseOld(t) \/ SysBind(t) \/ SysListen(t) \/ SysConnect(t)
      BY <2>6, <3>3 DEF CloseOld, SysBind, SysListen, SysConnect, At
    <3> QED BY <2>8, <3>1, <3>2, <3>3 DEF Continue
  <2> QED BY <2>3, <2>7, <2>8
<1> QED BY <1>1, SocketInvariant, PTL DEF Spec, NobodyElseCloses

-----------------------------------------------------------------------------
(* TomlParser.                                                             *)

\* What the first n lines of f say.
EntriesTo(f, n) == {j \in 1..n : Is(f, j, "entry")}
KeyAt(f, j) == <<SectionOf(f, j), Meaning[f[j]].key>>
PlacesTo(f, n, k) == {j \in EntriesTo(f, n) : KeyAt(f, j) = k}
SaysTo(f, n) ==
  [k \in {KeyAt(f, j) : j \in EntriesTo(f, n)} |-> Meaning[f[Min(PlacesTo(f, n, k))]].value]

\* The entries of a load are added to the ones that were there.
Merged(old, said) ==
  [k \in DOMAIN old \cup DOMAIN said |-> IF k \in DOMAIN old THEN old[k] ELSE said[k]]

IsFunction(m) == m = [k \in DOMAIN m |-> m[k]]

\* Half-way through a load, what was read is sound and is in m_keys, and the
\* section is the one of the next line.
ReadOK ==
  pos > 0 =>
    /\ disk \in Seq(Lines) /\ pos <= Len(disk) + 1 /\ result = "none"
    /\ current_section = SectionOf(disk, pos)
    /\ Sound(SubSeq(disk, 1, pos - 1))
    /\ m_keys = Merged(before, Says(SubSeq(disk, 1, pos - 1)))

TomlInv ==
  /\ disk \in Seq(Lines) \cup {NoFile} /\ pos \in Nat
  /\ IsFunction(m_keys)
  /\ ReadOK
  /\ pos = 0 => m_keys = Merged(before, Says(got))

-----------------------------------------------------------------------------
(* The largest and the least.                                              *)

LEMMA MaxIs ==
  ASSUME NEW S \in SUBSET Int, NEW m \in S, \A y \in S : m >= y
  PROVE  Max(S) = m
<1>1. Max(S) \in S /\ \A y \in S : Max(S) >= y
  BY Zenon DEF Max
<1>2. PICK c \in S : c = Max(S)
  BY <1>1
<1>3. c \in Int /\ m \in Int /\ c >= m /\ m >= c
  BY <1>1, <1>2
<1> QED BY <1>2, <1>3

LEMMA MinIs ==
  ASSUME NEW S \in SUBSET Int, NEW m \in S, \A y \in S : m =< y
  PROVE  Min(S) = m
<1>1. Min(S) \in S /\ \A y \in S : Min(S) =< y
  BY Zenon DEF Min
<1>2. PICK c \in S : c = Min(S)
  BY <1>1
<1>3. c \in Int /\ m \in Int /\ c =< m /\ m =< c
  BY <1>1, <1>2
<1> QED BY <1>2, <1>3

LEMMA LeastExists ==
  ASSUME NEW S \in SUBSET Nat, S # {}
  PROVE  \E x \in S : \A y \in S : x =< y
<1>1. PICK x \in S : \A y \in S : <<y, x>> \notin OpToRel(<, Nat)
  BY WFMin, NatLessThanWellFounded, Zenon
<1>2. ASSUME NEW y \in S PROVE ~(y < x)
  BY <1>1, Zenon DEF OpToRel
<1> QED BY <1>2

LEMMA MinIn ==
  ASSUME NEW S \in SUBSET Nat, S # {}
  PROVE  Min(S) \in S /\ \A y \in S : Min(S) =< y
<1>1. PICK x \in S : \A y \in S : x =< y
  BY LeastExists
<1>2. Min(S) = x
  BY <1>1, MinIs
<1> QED BY <1>1, <1>2

LEMMA MaxIn ==
  ASSUME NEW m \in Nat, NEW S \in SUBSET (0..m), S # {}
  PROVE  Max(S) \in S
<1> DEFINE T == {m - x : x \in S}
<1>1. T \in SUBSET Nat /\ T # {}
  <2>1. \A x \in S : x \in Int /\ m - x \in Nat
    OBVIOUS
  <2>2. T # {}
    OBVIOUS
  <2> QED BY <2>1, <2>2
<1>2. PICK t \in T : \A y \in T : t =< y
  BY <1>1, LeastExists
<1>3. PICK x \in S : t = m - x
  OBVIOUS
<1>4. ASSUME NEW y \in S PROVE x >= y
  <2>1. m - y \in T
    OBVIOUS
  <2>2. m - x =< m - y
    BY <1>2, <1>3, <2>1
  <2> QED BY <2>2
<1>5. S \in SUBSET Int
  OBVIOUS
<1>6. Max(S) = x
  BY <1>4, <1>5, MaxIs
<1> QED BY <1>6

\* A number above all others is not their least.
LEMMA MinBelow ==
  ASSUME NEW S \in SUBSET Nat, S # {}, NEW m \in Nat, \A y \in S : y < m
  PROVE  Min(S \cup {m}) = Min(S)
<1>1. Min(S) \in S /\ \A y \in S : Min(S) =< y
  BY MinIn
<1>2. PICK x \in S : x = Min(S)
  BY <1>1
<1>3. S \cup {m} \in SUBSET Int /\ x \in S \cup {m} /\ \A y \in S \cup {m} : x =< y
  <2>1. x \in Nat /\ x < m
    OBVIOUS
  <2> QED BY <1>1, <1>2, <2>1
<1> QED BY <1>2, <1>3, MinIs

-----------------------------------------------------------------------------
(* A file and its beginnings.                                              *)

LEMMA Beginning ==
  ASSUME NEW f \in Seq(Lines), NEW n \in 0..Len(f)
  PROVE  /\ SubSeq(f, 1, n) \in Seq(Lines) /\ Len(SubSeq(f, 1, n)) = n
         /\ \A i \in 1..n : SubSeq(f, 1, n)[i] = f[i]
<1>1. \A i \in 1..n : f[i] \in Lines
  BY ElementOfSeq
<1>2. /\ SubSeq(f, 1, n) \in Seq(Lines)
      /\ Len(SubSeq(f, 1, n)) = IF 1 <= n THEN n - 1 + 1 ELSE 0
      /\ \A i \in 1..(n - 1 + 1) : SubSeq(f, 1, n)[i] = f[1 + i - 1]
  BY <1>1, SubSeqProperties
<1> QED BY <1>2

\* What the beginning of a file says depends on nothing after it.
LEMMA BeginningSays ==
  ASSUME NEW f \in Seq(Lines), NEW n \in 0..Len(f)
  PROVE  /\ Says(SubSeq(f, 1, n)) = SaysTo(f, n)
         /\ Sound(SubSeq(f, 1, n)) <=> \A j \in 1..n : /\ ~Is(f, j, "bad")
                                                       /\ Is(f, j, "entry") => SectionOf(f, j) # <<>>
<1> DEFINE p == SubSeq(f, 1, n)
<1>1. Len(p) = n /\ \A i \in 1..n : p[i] = f[i]
  BY Beginning
<1>2. n \in Nat
  OBVIOUS
<1> HIDE DEF p
<1>3. \A j \in 1..n : \A kind : Is(p, j, kind) <=> Is(f, j, kind)
  BY <1>1 DEF Is
<1>4. Entries(p) = EntriesTo(f, n)
  BY <1>1, <1>3 DEF Entries, EntriesTo
<1>5. ASSUME NEW j \in 1..n PROVE SectionOf(p, j) = SectionOf(f, j)
  <2> DEFINE H == {i \in 1..(j - 1) : Is(f, i, "section")}
  <2>1. {i \in 1..(j - 1) : Is(p, i, "section")} = H
    BY <1>2, <1>3
  <2>2. \A i \in H : p[i] = f[i]
    BY <1>1, <1>2
  <2>3. CASE H = {}
    BY <2>1, <2>3 DEF SectionOf
  <2>4. CASE H # {}
    <3>1. Max(H) \in H
      <4>1. H \in SUBSET (0..n)
        BY <1>2
      <4> QED BY <1>2, <2>4, <4>1, MaxIn
    <3> QED BY <2>1, <2>2, <2>4, <3>1 DEF SectionOf
  <2> QED BY <2>3, <2>4
<1>6. \A j \in Entries(p) : <<SectionOf(p, j), Meaning[p[j]].key>> = KeyAt(f, j)
  BY <1>1, <1>4, <1>5 DEF KeyAt, EntriesTo
<1>7. {<<SectionOf(p, j), Meaning[p[j]].key>> : j \in Entries(p)}
        = {KeyAt(f, j) : j \in EntriesTo(f, n)}
  BY <1>4, <1>6
<1>8. ASSUME NEW k \in {KeyAt(f, j) : j \in EntriesTo(f, n)}
      PROVE  /\ {j \in Entries(p) : <<SectionOf(p, j), Meaning[p[j]].key>> = k} = PlacesTo(f, n, k)
             /\ p[Min(PlacesTo(f, n, k))] = f[Min(PlacesTo(f, n, k))]
  <2>1. {j \in Entries(p) : <<SectionOf(p, j), Meaning[p[j]].key>> = k} = PlacesTo(f, n, k)
    BY <1>4, <1>6 DEF PlacesTo
  <2>2. PlacesTo(f, n, k) # {} /\ PlacesTo(f, n, k) \subseteq 1..n
    BY <1>8 DEF PlacesTo, EntriesTo
  <2>3. Min(PlacesTo(f, n, k)) \in 1..n
    BY <1>2, <2>2, MinIn
  <2> QED BY <1>1, <2>1, <2>3
<1>9. Says(p) = SaysTo(f, n)
  BY <1>7, <1>8 DEF Says, SaysTo
<1>10. Sound(p) <=> \A j \in 1..n : ~Is(f, j, "bad") /\ (Is(f, j, "entry") => SectionOf(f, j) # <<>>)
  BY <1>1, <1>3, <1>4, <1>5 DEF Sound, EntriesTo
<1> QED BY <1>9, <1>10 DEF p

\* One more line: a header is the section of what follows it.
LEMMA NextSection ==
  ASSUME NEW f, NEW j \in Nat \ {0}
  PROVE  SectionOf(f, j + 1) = IF Is(f, j, "section") THEN Meaning[f[j]].name ELSE SectionOf(f, j)
<1> DEFINE H == {i \in 1..(j - 1) : Is(f, i, "section")}
           G == {i \in 1..j : Is(f, i, "section")}
<1>1. (j + 1) - 1 = j
  OBVIOUS
<1>2. CASE Is(f, j, "section")
  <2>1. G \in SUBSET Int /\ j \in G /\ \A y \in G : j >= y
    BY <1>2
  <2>2. Max(G) = j
    BY <2>1, MaxIs
  <2> QED BY <1>1, <1>2, <2>1, <2>2 DEF SectionOf
<1>3. CASE ~Is(f, j, "section")
  <2>1. G = H
    BY <1>3
  <2> QED BY <1>1, <1>3, <2>1 DEF SectionOf
<1> QED BY <1>2, <1>3

\* An entry counts if it is the first for its key.
LEMMA NextSays ==
  ASSUME NEW f, NEW j \in Nat \ {0}
  PROVE  SaysTo(f, j) = IF Is(f, j, "entry")
                        THEN Emplace(SaysTo(f, j - 1), KeyAt(f, j), Meaning[f[j]].value)
                        ELSE SaysTo(f, j - 1)
<1> DEFINE n == j - 1
           K == {KeyAt(f, i) : i \in EntriesTo(f, n)}
<1>1. n \in Nat /\ EntriesTo(f, n) \subseteq 1..n /\ j \notin EntriesTo(f, n)
  BY DEF EntriesTo
<1>2. CASE ~Is(f, j, "entry")
  <2>1. EntriesTo(f, j) = EntriesTo(f, n)
    BY <1>2 DEF EntriesTo
  <2> QED BY <1>2, <2>1 DEF SaysTo, PlacesTo
<1>3. CASE Is(f, j, "entry")
  <2>1. EntriesTo(f, j) = EntriesTo(f, n) \cup {j}
    BY <1>3 DEF EntriesTo
  <2> DEFINE key == KeyAt(f, j)
  <2>2. {KeyAt(f, i) : i \in EntriesTo(f, j)} = K \cup {key}
    BY <2>1
  <2>3. DOMAIN SaysTo(f, n) = K
    BY DEF SaysTo
  <2>4. ASSUME NEW k \in K \cup {key}
        PROVE  Meaning[f[Min(PlacesTo(f, j, k))]].value
                 = IF k \in K THEN Meaning[f[Min(PlacesTo(f, n, k))]].value ELSE Meaning[f[j]].value
    <3>1. CASE k # key
      <4>1. PlacesTo(f, j, k) = PlacesTo(f, n, k) /\ k \in K
        BY <2>1, <2>4, <3>1 DEF PlacesTo
      <4> QED BY <4>1
    <3>2. CASE k = key /\ k \in K
      <4>1. /\ PlacesTo(f, j, k) = PlacesTo(f, n, k) \cup {j}
            /\ PlacesTo(f, n, k) # {} /\ PlacesTo(f, n, k) \subseteq 1..n
        BY <1>1, <2>1, <3>2 DEF PlacesTo
      <4>2. PlacesTo(f, n, k) \in SUBSET Nat /\ \A y \in PlacesTo(f, n, k) : y < j
        BY <1>1, <4>1
      <4>3. Min(PlacesTo(f, j, k)) = Min(PlacesTo(f, n, k))
        BY <4>1, <4>2, MinBelow
      <4> QED BY <3>2, <4>3
    <3>3. CASE k = key /\ k \notin K
      <4>1. PlacesTo(f, j, k) = {j}
        BY <2>1, <3>3 DEF PlacesTo
      <4>2. Min({j}) = j
        BY MinIs
      <4> QED BY <3>3, <4>1, <4>2
    <3> QED BY <3>1, <3>2, <3>3
  <2>5. \A k \in K : SaysTo(f, n)[k] = Meaning[f[Min(PlacesTo(f, n, k))]].value
    BY DEF SaysTo
  <2>6. SaysTo(f, j) = [k \in K \cup {key} |-> Meaning[f[Min(PlacesTo(f, j, k))]].value]
    BY <2>2 DEF SaysTo
  <2>7. SaysTo(f, j) = [k \in K \cup {key} |-> IF k \in K THEN SaysTo(f, n)[k] ELSE Meaning[f[j]].value]
    BY <2>4, <2>5, <2>6
  <2> QED BY <1>3, <2>3, <2>7 DEF Emplace
<1> QED BY <1>2, <1>3

\* To add an entry to what is said is to add it to what is merged.
LEMMA MergeOne ==
  ASSUME NEW old, NEW said, NEW k, NEW v
  PROVE  Merged(old, Emplace(said, k, v)) = Emplace(Merged(old, said), k, v)
  BY DEF Merged, Emplace

LEMMA AreFunctions ==
  ASSUME NEW old, NEW said, NEW k, NEW v
  PROVE  IsFunction(Merged(old, said)) /\ IsFunction(Emplace(said, k, v))
  BY DEF Merged, Emplace, IsFunction

\* What the parser makes of a line is what the line says.
LEMMA LineMeans ==
  ASSUME NEW f \in Seq(Lines), NEW j \in 1..Len(f)
  PROVE  LET line == Trim(f[j])
         IN  /\ f[j] \in Lines
             /\ Is(f, j, "nothing") <=> IsSkipped(line)
             /\ Is(f, j, "section") <=> IsSection(line)
             /\ Is(f, j, "entry") <=> IsEntry(line)
             /\ Is(f, j, "bad") <=> ~IsSkipped(line) /\ ~IsSection(line) /\ ~IsEntry(line)
             /\ IsSection(line) => Meaning[f[j]].name = SectionName(line)
             /\ IsEntry(line) => Meaning[f[j]].key = Key(line) /\ Meaning[f[j]].value = Value(line)
<1>1. f[j] \in Lines
  BY ElementOfSeq
<1>2. /\ ~(IsSkipped(Trim(f[j])) /\ IsSection(Trim(f[j])))
      /\ IsEntry(Trim(f[j])) => ~IsSkipped(Trim(f[j])) /\ ~IsSection(Trim(f[j]))
  BY DEF IsSection, IsEntry
<1> QED BY <1>1, <1>2, MeaningAssumption DEF Is

-----------------------------------------------------------------------------
(* Steps.                                                                  *)

\* A line that was read and found sound.
LEMMA LineRead ==
  ASSUME TomlInv, Parsing, pos' = pos + 1, UNCHANGED <<disk, result, before>>,
         ~Is(disk, pos, "bad"),
         Is(disk, pos, "entry") => current_section # <<>>,
         current_section' = IF Is(disk, pos, "section") THEN Meaning[disk[pos]].name
                            ELSE current_section,
         m_keys' = IF Is(disk, pos, "entry")
                   THEN Emplace(m_keys, <<current_section, Meaning[disk[pos]].key>>,
                                Meaning[disk[pos]].value)
                   ELSE m_keys
  PROVE  TomlInv'
<1>1. /\ disk \in Seq(Lines) /\ pos \in Nat /\ pos > 0 /\ pos <= Len(disk) /\ result = "none"
      /\ current_section = SectionOf(disk, pos) /\ Sound(SubSeq(disk, 1, pos - 1))
      /\ m_keys = Merged(before, Says(SubSeq(disk, 1, pos - 1))) /\ IsFunction(m_keys)
  BY DEF TomlInv, ReadOK, Parsing
<1>2. Len(disk) \in Nat /\ pos - 1 \in 0..Len(disk) /\ pos \in 0..Len(disk) /\ pos' - 1 = pos
  BY <1>1, LenProperties
<1>3. current_section' = SectionOf(disk, pos + 1)
  <2>1. pos \in Nat \ {0}
    BY <1>1
  <2>2. SectionOf(disk, pos + 1) =
          IF Is(disk, pos, "section") THEN Meaning[disk[pos]].name ELSE SectionOf(disk, pos)
    BY <2>1, NextSection
  <2> QED BY <1>1, <2>2
<1>4. Sound(SubSeq(disk, 1, pos))
  <2>1. \A j \in 1..(pos - 1) : ~Is(disk, j, "bad") /\ (Is(disk, j, "entry") => SectionOf(disk, j) # <<>>)
    BY <1>1, <1>2, BeginningSays
  <2>2. \A j \in 1..pos : ~Is(disk, j, "bad") /\ (Is(disk, j, "entry") => SectionOf(disk, j) # <<>>)
    BY <1>1, <2>1
  <2> QED BY <1>1, <1>2, <2>2, BeginningSays
<1>5. m_keys' = Merged(before, Says(SubSeq(disk, 1, pos))) /\ IsFunction(m_keys')
  <2>1. Says(SubSeq(disk, 1, pos - 1)) = SaysTo(disk, pos - 1) /\ Says(SubSeq(disk, 1, pos)) = SaysTo(disk, pos)
    BY <1>1, <1>2, BeginningSays
  <2>2. CASE ~Is(disk, pos, "entry")
    <3>1. SaysTo(disk, pos) = SaysTo(disk, pos - 1)
      BY <1>1, <2>2, NextSays
    <3> QED BY <1>1, <2>1, <2>2, <3>1
  <2>3. CASE Is(disk, pos, "entry")
    <3> DEFINE k == KeyAt(disk, pos)
               v == Meaning[disk[pos]].value
               said == SaysTo(disk, pos - 1)
    <3>1. SaysTo(disk, pos) = Emplace(said, k, v)
      BY <1>1, <2>3, NextSays
    <3>2. m_keys' = Emplace(m_keys, k, v)
      BY <1>1, <2>3 DEF KeyAt
    <3>3. m_keys = Merged(before, said)
      BY <1>1, <2>1
    <3> HIDE DEF k, v, said
    <3>4. m_keys' = Merged(before, SaysTo(disk, pos))
      BY <3>1, <3>2, <3>3, MergeOne
    <3> QED BY <2>1, <3>2, <3>4, AreFunctions
  <2> QED BY <2>2, <2>3
<1>6. ReadOK'
  BY <1>1, <1>2, <1>3, <1>4, <1>5 DEF ReadOK
<1>7. pos' # 0
  BY <1>1
<1> QED BY <1>1, <1>5, <1>6, <1>7 DEF TomlInv

LEMMA SkipLineInv ==
  ASSUME TomlInv, SkipLine
  PROVE  TomlInv'
<1>1. /\ Parsing /\ IsSkipped(Trim(disk[pos])) /\ pos' = pos + 1
      /\ UNCHANGED <<disk, result, before, current_section, m_keys>>
  BY DEF SkipLine, Current, ghost
<1>2. disk \in Seq(Lines) /\ pos \in 1..Len(disk)
  BY <1>1 DEF TomlInv, ReadOK, Parsing
<1>3. Is(disk, pos, "nothing")
  BY <1>1, <1>2, LineMeans
<1> QED BY <1>1, <1>3, LineRead DEF Is

LEMMA SectionLineInv ==
  ASSUME TomlInv, SectionLine
  PROVE  TomlInv'
<1>1. /\ Parsing /\ IsSection(Trim(disk[pos])) /\ pos' = pos + 1
      /\ current_section' = SectionName(Trim(disk[pos]))
      /\ UNCHANGED <<disk, result, before, m_keys>>
  BY DEF SectionLine, Current, ghost
<1>2. disk \in Seq(Lines) /\ pos \in 1..Len(disk)
  BY <1>1 DEF TomlInv, ReadOK, Parsing
<1>3. Is(disk, pos, "section") /\ Meaning[disk[pos]].name = SectionName(Trim(disk[pos]))
  BY <1>1, <1>2, LineMeans
<1> QED BY <1>1, <1>3, LineRead DEF Is

LEMMA EntryLineInv ==
  ASSUME TomlInv, EntryLine
  PROVE  TomlInv'
<1>1. /\ Parsing /\ IsEntry(Trim(disk[pos])) /\ pos' = pos + 1 /\ current_section # <<>>
      /\ m_keys' = Emplace(m_keys, <<current_section, Key(Trim(disk[pos]))>>, Value(Trim(disk[pos])))
      /\ UNCHANGED <<disk, result, before, current_section>>
  BY DEF EntryLine, Current, ghost
<1>2. disk \in Seq(Lines) /\ pos \in 1..Len(disk)
  BY <1>1 DEF TomlInv, ReadOK, Parsing
<1>3. /\ Is(disk, pos, "entry") /\ Meaning[disk[pos]].key = Key(Trim(disk[pos]))
      /\ Meaning[disk[pos]].value = Value(Trim(disk[pos]))
  BY <1>1, <1>2, LineMeans
<1> QED BY <1>1, <1>3, LineRead DEF Is

\* No lines say nothing.
LEMMA NothingRead ==
  ASSUME NEW m, IsFunction(m)
  PROVE  m = Merged(m, Says(<<>>))
<1>1. DOMAIN Says(<<>>) = {}
  BY DEF Says, Entries
<1> QED BY <1>1 DEF Merged, IsFunction

\* A load begins with nothing read.
LEMMA LoadInv ==
  ASSUME TomlInv, Load
  PROVE  TomlInv'
<1>1. /\ UNCHANGED <<disk, m_keys>> /\ before' = m_keys /\ got' = <<>> /\ current_section' = <<>>
      /\ disk = NoFile => pos' = 0
      /\ disk # NoFile => pos' = 1 /\ result' = "none"
  BY DEF Load
<1>2. IsFunction(m_keys)
  BY DEF TomlInv
<1>3. m_keys' = Merged(before', Says(got'))
  BY <1>1, <1>2, NothingRead
<1>4. CASE disk = NoFile
  BY <1>1, <1>2, <1>3, <1>4 DEF TomlInv, ReadOK
<1>5. CASE disk # NoFile
  <2>1. disk \in Seq(Lines) /\ Len(disk) \in Nat
    BY <1>5, LenProperties DEF TomlInv
  <2>2. Says(SubSeq(disk, 1, 0)) = SaysTo(disk, 0) /\ Sound(SubSeq(disk, 1, 0))
    BY <2>1, BeginningSays
  <2>3. DOMAIN SaysTo(disk, 0) = {}
    BY DEF SaysTo, EntriesTo
  <2>4. m_keys = Merged(m_keys, SaysTo(disk, 0))
    BY <1>2, <2>3 DEF Merged, IsFunction
  <2>5. SectionOf(disk, 1) = <<>>
    BY DEF SectionOf
  <2> QED BY <1>1, <1>2, <1>3, <1>5, <2>1, <2>2, <2>4, <2>5 DEF TomlInv, ReadOK
<1> QED BY <1>4, <1>5

\* A load ends, with true or with an error.
LEMMA LoadEndsInv ==
  ASSUME TomlInv, EndOfFile \/ BadLine
  PROVE  TomlInv'
<1>1. /\ pos > 0 /\ pos' = 0 /\ got' = SubSeq(disk, 1, pos - 1)
      /\ UNCHANGED <<disk, m_keys, before>>
  BY DEF EndOfFile, BadLine, Parsing
<1>2. /\ disk \in Seq(Lines) /\ IsFunction(m_keys)
      /\ m_keys = Merged(before, Says(SubSeq(disk, 1, pos - 1)))
  BY <1>1 DEF TomlInv, ReadOK
<1> QED BY <1>1, <1>2 DEF TomlInv, ReadOK

LEMMA EditFileInv ==
  ASSUME TomlInv, EditFile
  PROVE  TomlInv'
<1>1. /\ pos = 0 /\ pos' = 0 /\ UNCHANGED <<m_keys, before, got>> /\ disk # NoFile
      /\ (\E i \in 1..Len(disk), l \in Lines : disk' = [disk EXCEPT ![i] = l]) \/ disk' = NoFile
  BY DEF EditFile, Idle, parse
<1>2. disk \in Seq(Lines)
  BY <1>1 DEF TomlInv
<1>3. disk' \in Seq(Lines) \cup {NoFile}
  BY <1>1, <1>2, ExceptSeq
<1> QED BY <1>1, <1>3 DEF TomlInv, ReadOK

LEMMA TomlInitInv == TomlInit => TomlInv
<1> SUFFICES ASSUME TomlInit PROVE TomlInv
  OBVIOUS
<1>1. disk \in Seq(Lines)
  <2>1. PICK n \in 0..MaxLines : disk \in [1..n -> Lines]
    BY DEF TomlInit
  <2>2. n \in Nat
    BY TomlAssumption
  <2> QED BY <2>1, <2>2, IsASeq
<1>2. IsFunction(m_keys)
  BY DEF TomlInit, IsFunction
<1>3. m_keys = Merged(before, Says(got))
  BY <1>2, NothingRead DEF TomlInit
<1> QED BY <1>1, <1>2, <1>3 DEF TomlInit, TomlInv, ReadOK

\* The invariant of the parser: m_keys is what was there before the last load
\* and what the lines that it read say, half-way through it and once it has
\* returned.
THEOREM TomlInvariant == TomlSpec => []TomlInv
<1>1. TomlInv /\ [TomlNext]_tomlVars => TomlInv'
  <2> SUFFICES ASSUME TomlInv, [TomlNext]_tomlVars PROVE TomlInv'
    OBVIOUS
  <2>1. CASE UNCHANGED tomlVars
    BY <2>1 DEF tomlVars, parse, ghost, TomlInv, ReadOK
  <2> QED BY <2>1, LoadInv, SkipLineInv, SectionLineInv, EntryLineInv, LoadEndsInv,
             EditFileInv DEF TomlNext
<1> QED BY <1>1, TomlInitInv, PTL DEF TomlSpec

\* However often load() runs (TomlParser.hh 122-144), over whatever changes to
\* the file and for files of any length, it adds what the lines it read say and
\* takes nothing away (emplace, 211), also when it returns an error (177, 182).
THEOREM LoadsMerge == TomlSpec => []LoadMerges
<1>1. TomlInv => LoadMerges
  <2> SUFFICES ASSUME TomlInv PROVE LoadMerges
    OBVIOUS
  <2>1. CASE pos > 0
    BY <2>1 DEF TomlInv, ReadOK, LoadMerges, Merged
  <2>2. CASE ~(pos > 0)
    <3>1. pos = 0
      BY <2>2 DEF TomlInv
    <3> QED BY <2>2, <3>1 DEF TomlInv, LoadMerges, Merged
  <2> QED BY <2>1, <2>2
<1> QED BY <1>1, TomlInvariant, PTL

\* load() refuses no sound file and, if it reaches the end of it, no other file
\* is accepted, for files of any length (TomlParser.hh 136-150 and the errors at
\* 174-183).
THEOREM VerdictIsRight == TomlSpec => LoadVerdict
<1> DEFINE Verdict ==
             pos > 0 /\ pos' = 0 => /\ result' # "true" => ~Sound(disk)
                                    /\ result' = "true" /\ got' = disk => Sound(disk)
<1>1. TomlInv /\ [TomlNext]_tomlVars => [Verdict]_tomlVars
  <2> SUFFICES ASSUME TomlInv, TomlNext, pos > 0, pos' = 0
               PROVE  Verdict
    OBVIOUS
  <2>1. /\ disk \in Seq(Lines) /\ pos \in Nat /\ pos <= Len(disk) + 1 /\ Len(disk) \in Nat
        /\ current_section = SectionOf(disk, pos) /\ Sound(SubSeq(disk, 1, pos - 1))
    BY LenProperties DEF TomlInv, ReadOK
  <2>2. BadLine \/ EndOfFile
    BY <2>1 DEF TomlNext, Load, Idle, SkipLine, SectionLine, EntryLine, EditFile
  <2>3. CASE EndOfFile
    BY <2>1, <2>3 DEF EndOfFile
  <2>4. CASE BadLine
    <3>1. /\ pos <= Len(disk) /\ result' = "PARSE_ERROR"
          /\ ~IsSkipped(Trim(disk[pos])) /\ ~IsSection(Trim(disk[pos]))
          /\ ~IsEntry(Trim(disk[pos])) \/ current_section = <<>>
      BY <2>4 DEF BadLine, Parsing, Current
    <3>2. pos \in 1..Len(disk)
      BY <2>1, <3>1
    <3>3. Is(disk, pos, "bad") \/ (Is(disk, pos, "entry") /\ SectionOf(disk, pos) = <<>>)
      BY <2>1, <3>1, <3>2, LineMeans
    <3>4. ~Sound(disk)
      BY <3>2, <3>3 DEF Sound, Entries
    <3> QED BY <3>1, <3>4
  <2> QED BY <2>2, <2>3, <2>4
<1> QED BY <1>1, TomlInvariant, PTL DEF TomlSpec, LoadVerdict

-----------------------------------------------------------------------------
(* Config.                                                                 *)

\* One element of a sequence.
LEMMA OneOf ==
  ASSUME NEW W, NEW s \in Seq(W), NEW i \in 1..Len(s)
  PROVE  SubSeq(s, i, i) = <<s[i]>>
<1>1. i \in Int /\ s[i] \in W
  BY ElementOfSeq
<1>2. \A j \in i..i : s[j] \in W
  BY <1>1
<1>3. /\ SubSeq(s, i, i) \in Seq(W) /\ Len(SubSeq(s, i, i)) = IF i <= i THEN i - i + 1 ELSE 0
      /\ \A j \in 1..(i - i + 1) : SubSeq(s, i, i)[j] = s[i + j - 1]
  BY <1>1, <1>2, SubSeqProperties
<1>4. Len(SubSeq(s, i, i)) = 1 /\ SubSeq(s, i, i)[1] = s[i]
  BY <1>1, <1>3
<1>5. <<s[i]>> \in Seq(W) /\ Len(<<s[i]>>) = 1 /\ <<s[i]>>[1] = s[i]
  BY <1>1
<1>6. \A j \in 1..Len(SubSeq(s, i, i)) : SubSeq(s, i, i)[j] = <<s[i]>>[j]
  BY <1>4, <1>5
<1> QED BY <1>3, <1>4, <1>5, <1>6, SeqEqual

\* get_int splits the key at its dot.
LEMMA PortKey ==
  /\ Find(".", <<"network", ".", "port">>) = 2
  /\ Before(<<"network", ".", "port">>, 2) = <<"network">>
  /\ After(<<"network", ".", "port">>, 2) = <<"port">>
<1> DEFINE W == {"network", ".", "port"}
           key == <<"network", ".", "port">>
<1>1. Len(key) = 3 /\ key[1] = "network" /\ key[2] = "." /\ key[3] = "port"
  OBVIOUS
<1>2. key \in Seq(W)
  OBVIOUS
<1> HIDE DEF key, W
<1>3. Find(".", key) = 2
  <2>1. {i \in 1..Len(key) : key[i] = "."} = {2}
    BY <1>1
  <2>2. Min({2}) = 2
    BY MinIs
  <2> QED BY <2>1, <2>2 DEF Find, SelectInSeq
<1>4. SubSeq(key, 1, 1) = <<"network">>
  BY <1>1, <1>2, OneOf
<1>5. SubSeq(key, 3, 3) = <<"port">>
  <2>1. 3 \in 1..Len(key)
    BY <1>1
  <2> QED BY <1>1, <1>2, <2>1, OneOf
<1>6. Before(key, 2) = SubSeq(key, 1, 1) /\ After(key, 2) = SubSeq(key, 3, 3)
  BY <1>1 DEF Before, After
<1> QED BY <1>3, <1>4, <1>5, <1>6 DEF key

LEMMA Uint16Small ==
  ASSUME NEW x \in Int, 0 <= x, x <= 65535
  PROVE  Uint16(x) = x
  BY SMTT(20) DEF Uint16

\* The address that Config's getters (Config.hh 45-73) return is the one that the
\* file names in section network, and the port 0 if it names none, for files of
\* any length and any lines.  Numbers of more than 16 bits, and get_int for a
\* value in two pairs of quotes, are left out as in AddressIsMeant.
THEOREM AddressMeant == TomlSpec => []AddressIsMeant
<1>1. TomlInv => AddressIsMeant
  <2> DEFINE at == <<<<"network">>, <<"port">>>>
             value == IF at \in DOMAIN Says(disk) THEN Says(disk)[at] ELSE <<>>
             port == IF IsNumber(value) THEN stoi(value) ELSE 0
             key == <<"network", ".", "port">>
             ip == <<<<"network">>, <<"ip">>>>
  <2> SUFFICES ASSUME TomlInv, parse_config, got = disk, before = <<>>
               PROVE  /\ get_market_ip = IF ip \in DOMAIN Says(disk) THEN Says(disk)[ip] ELSE <<>>
                      /\ 0 <= port /\ port <= 65535 => get_market_port = port
                      /\ port < 0 => get_market_port = 0
                      /\ Unquote(value) = value => get_int(key) = port
    BY DEF AddressIsMeant
  <2>1. m_keys = Merged(before, Says(disk)) /\ DOMAIN before = {}
    <3>1. pos = 0
      BY DEF TomlInv, ReadOK, parse_config
    <3> QED BY <3>1 DEF TomlInv
  <2>2. DOMAIN m_keys = DOMAIN Says(disk) /\ \A k \in DOMAIN m_keys : m_keys[k] = Says(disk)[k]
    BY <2>1 DEF Merged
  <2>3. TrimLeft(<<>>) = <<>>
    BY DEF TrimLeft, SelectInSeq
  <2>4. ~IsNumber(<<>>)
    BY <2>3 DEF IsNumber
  <2>5. at \notin DOMAIN m_keys => value = <<>> /\ port = 0
    BY <2>2, <2>4
  <2>6. at \in DOMAIN m_keys => value = get_value(<<"network">>, <<"port">>)
    BY <2>2 DEF get_value
  <2>7. Has(<<"network">>, <<"port">>) <=> at \in DOMAIN m_keys
    BY DEF Has
  <2>8. port \in Int
    BY TomlAssumption DEF stoi, IsNumber
  <2>9. get_string(key) = IF at \in DOMAIN m_keys THEN Unquote(value) ELSE <<>>
    BY <2>6, <2>7, PortKey DEF get_string
  <2> HIDE DEF value
  <2>10. Unquote(value) = value => get_int(key) = port
    BY <2>4, <2>5, <2>9 DEF get_int
  <2>11. get_market_port = IF at \in DOMAIN m_keys /\ IsNumber(value) /\ stoi(value) >= 0
                           THEN Uint16(stoi(value)) ELSE 0
    BY <2>6, <2>7 DEF get_market_port
  <2>12. 0 <= port /\ port <= 65535 => Uint16(port) = port
    BY <2>8, Uint16Small
  <2>13. get_market_port = IF at \in DOMAIN m_keys /\ IsNumber(value) /\ port >= 0 THEN Uint16(port) ELSE 0
    BY <2>11
  <2>14. at \notin DOMAIN m_keys \/ ~IsNumber(value) => port = 0
    BY <2>5
  <2> HIDE DEF port
  <2>15. 0 <= port /\ port <= 65535 => get_market_port = port
    BY <2>8, <2>12, <2>13, <2>14
  <2>16. port < 0 => get_market_port = 0
    BY <2>8, <2>13
  <2>17. get_market_ip = IF ip \in DOMAIN Says(disk) THEN Says(disk)[ip] ELSE <<>>
    BY <2>2 DEF get_market_ip, Has, get_value
  <2> QED BY <2>10, <2>15, <2>16, <2>17
<1> QED BY <1>1, TomlInvariant, PTL

=============================================================================
