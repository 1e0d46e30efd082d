--------------------------------- MODULE Tcp ---------------------------------
(***************************************************************************)
(* quick::io::TcpServer and TcpClient over SocketRAII (include/quick/io/   *)
(* TcpServer.hh, TcpClient.hh, Tcp.hh, SocketRAII.hh): objects that own a  *)
(* file descriptor, used by several threads.                               *)
(*                                                                         *)
(* The kernel gives out the lowest free number, so a number that one       *)
(* thread closed is another thread's next socket.  Every system call is a  *)
(* step of its own.  Any call may fail.  As for any object, two threads    *)
(* use one object at a time only if neither changes it; bytes sent and     *)
(* received are left out.                                                  *)
(***************************************************************************)
EXTENDS Integers, FiniteSets

CONSTANTS
  Thread,
  Server, Client,   \* the TcpServer and TcpClient objects, on one port
  Socket,           \* the SocketRAII objects for accepted and adopted sockets
  NoHandle,
  MaxFd             \* bound: the descriptors the process may have open

ASSUME ConstantsAssumption ==
  /\ MaxFd \in Nat
  /\ Server \cap Client = {} /\ Server \cap Socket = {} /\ Client \cap Socket = {}
  /\ NoHandle \notin Server \cup Client \cup Socket

Handle == Server \cup Client \cup Socket
Fd == 0..MaxFd
None == -1

VARIABLES
  kernel,     \* kernel[f]: "free", or what the socket behind f is
  alive,      \* the objects whose lifetime has begun
  _fd,        \* _fd[h]: the SocketRAII of h
  _running,   \* _running[s]
  op          \* op[t]: the member function thread t is in

vars == <<kernel, alive, _fd, _running, op>>

NoOp == [pc |-> "idle", kind |-> "none", this |-> NoHandle, src |-> NoHandle, new |-> None]

Init ==
  /\ kernel = [f \in Fd |-> "free"]
  /\ alive = {}
  /\ _fd = [h \in Handle |-> None]
  /\ _running = [s \in Server |-> FALSE]
  /\ op = [t \in Thread |-> NoOp]

-----------------------------------------------------------------------------
(* Calls.                                                                  *)

SameClass(h, g) == \E class \in {Server, Client, Socket} : {h, g} \subseteq class

Unused(h) == \A t \in Thread : h \notin {op[t].this, op[t].src}

\* accept_client only reads m_sock: two threads may be in it.
OnlyRead(s) == \A t \in Thread : op[t].this # s /\ (op[t].src = s => op[t].kind = "accept")

Begin(t, pc, kind, this, src) ==
  /\ op[t] = NoOp
  /\ op' = [op EXCEPT ![t] = [pc |-> pc, kind |-> kind, this |-> this, src |-> src, new |-> None]]
  /\ UNCHANGED <<kernel, alive, _fd, _running>>

\* Where assigning to h begins: if (_fd >= 0) close(_fd).
Replace(h) == IF h \in alive /\ _fd[h] >= 0 THEN "close" ELSE "store"

Construct(t, h) ==
  /\ op[t] = NoOp /\ h \notin alive /\ Unused(h)
  /\ alive' = alive \cup {h}
  /\ _running' = IF h \in Server THEN [_running EXCEPT ![h] = FALSE] ELSE _running
  /\ UNCHANGED <<kernel, _fd, op>>

Start(t, s) == s \in alive /\ Unused(s) /\ Begin(t, "socket", "start", s, NoHandle)

ConnectToServer(t, c) == c \in alive /\ Unused(c) /\ Begin(t, "socket", "connect", c, NoHandle)

\* The result goes into h, a new object or one that it is assigned to.
AcceptClient(t, s, h) ==
  s \in alive /\ OnlyRead(s) /\ Unused(h) /\ Begin(t, "accept", "accept", h, s)

\* The caller's own socket(), handed over to operator=(int) or reset(newfd).
Adopt(t, h) == h \in alive /\ Unused(h) /\ Begin(t, "socket", "adopt", h, NoHandle)

Reset(t, h) == h \in alive /\ Unused(h) /\ Begin(t, Replace(h), "reset", h, NoHandle)

MoveAssign(t, h, g) ==
  /\ h # g /\ {h, g} \subseteq alive /\ SameClass(h, g) /\ Unused(h) /\ Unused(g)
  /\ Begin(t, Replace(h), "move", h, g)

MoveConstruct(t, h, g) ==
  /\ h \notin alive /\ g \in alive /\ SameClass(h, g) /\ Unused(h) /\ Unused(g)
  /\ Begin(t, "store", "move", h, g)

Destroy(t, h) == h \in alive /\ Unused(h) /\ Begin(t, Replace(h), "destroy", h, NoHandle)

-----------------------------------------------------------------------------
(* System calls and the steps between them.                                *)

At(t, pc) == op[t].pc = pc

Goto(t, pc) == op' = [op EXCEPT ![t].pc = pc]

Return(t) == op' = [op EXCEPT ![t] = NoOp]

Lowest(f) == kernel[f] = "free" /\ \A g \in Fd : kernel[g] = "free" => f <= g

\* socket() and accept() return a new descriptor.
NewFd(t, f, state) ==
  /\ Lowest(f)
  /\ kernel' = [kernel EXCEPT ![f] = state]
  /\ op' = [op EXCEPT ![t].new = f, ![t].pc = Replace(op[t].this)]
  /\ UNCHANGED <<alive, _fd, _running>>

SysSocket(t, f) == At(t, "socket") /\ NewFd(t, f, "socket")

\* A listening socket has a client waiting; a moved-from server has no socket.
SysAccept(t, f) ==
  /\ At(t, "accept")
  /\ _fd[op[t].src] \in Fd /\ kernel[_fd[op[t].src]] = "listening"
  /\ NewFd(t, f, "accepted")

\* socket(), bind(), listen(), inet_pton(), connect() or accept() fails.
SysFail(t) ==
  /\ op[t].pc \in {"socket", "bind", "listen", "connect", "accept"}
  /\ Return(t)
  /\ UNCHANGED <<kernel, alive, _fd, _running>>

CloseOld_mut(t) ==
  /\ At(t, "close")
  /\ kernel' = IF op[t].kind = "move" THEN kernel
               ELSE [kernel EXCEPT ![_fd[op[t].this]] = "free"]
  /\ Goto(t, "store")
  /\ UNCHANGED <<alive, _fd, _running>>
CloseOld(t) ==
  /\ At(t, "close")
  /\ kernel' = [kernel EXCEPT ![_fd[op[t].this]] = "free"]
  /\ Goto(t, "store")
  /\ UNCHANGED <<alive, _fd, _running>>

\* What follows the assignment of _fd.
AfterStore(t) ==
  CASE op[t].kind = "start" -> Goto(t, "bind")
    [] op[t].kind = "connect" -> Goto(t, "connect")
    [] OTHER -> Return(t)

Store(t) ==
  /\ At(t, "store") /\ op[t].kind # "move"
  /\ _fd' = [_fd EXCEPT ![op[t].this] = op[t].new]
  /\ alive' = IF op[t].kind = "destroy" THEN alive \ {op[t].this} ELSE alive \cup {op[t].this}
  /\ AfterStore(t)
  /\ UNCHANGED <<kernel, _running>>

\* The source is left with -1; a server's _running is copied.
StoreMove_mut(t) ==
  LET this == op[t].this  src == op[t].src
  IN  /\ At(t, "store") /\ op[t].kind = "move"
      /\ _fd' = [_fd EXCEPT ![this] = _fd[src]]
      /\ alive' = alive \cup {this}
      /\ _running' = IF this \in Server THEN [_running EXCEPT ![this] = _running[src]] ELSE _running
      /\ Return(t)
      /\ UNCHANGED kernel
StoreMove(t) ==
  LET this == op[t].this  src == op[t].src
  IN  /\ At(t, "store") /\ op[t].kind = "move"
      /\ _fd' = [_fd EXCEPT ![this] = _fd[src], ![src] = None]
      /\ alive' = alive \cup {this}
      /\ _running' = IF this \in Server THEN [_running EXCEPT ![this] = _running[src]] ELSE _running
      /\ Return(t)
      /\ UNCHANGED kernel

\* bind() finds the port free.
SysBind(t) ==
  /\ At(t, "bind")
  /\ \A f \in Fd : kernel[f] \notin {"bound", "listening"}
  /\ kernel' = [kernel EXCEPT ![_fd[op[t].this]] = "bound"]
  /\ Goto(t, "listen")
  /\ UNCHANGED <<alive, _fd, _running>>

SysListen(t) ==
  /\ At(t, "listen")
  /\ kernel' = [kernel EXCEPT ![_fd[op[t].this]] = "listening"]
  /\ _running' = [_running EXCEPT ![op[t].this] = TRUE]
  /\ Return(t)
  /\ UNCHANGED <<alive, _fd>>

SysConnect(t) ==
  /\ At(t, "connect")
  /\ kernel' = [kernel EXCEPT ![_fd[op[t].this]] = "connected"]
  /\ Return(t)
  /\ UNCHANGED <<alive, _fd, _running>>

-----------------------------------------------------------------------------
Call(t) ==
  \/ \E h \in Handle : Construct(t, h)
  \/ \E s \in Server : Start(t, s)
  \/ \E c \in Client : ConnectToServer(t, c)
  \/ \E s \in Server, h \in Socket : AcceptClient(t, s, h)
  \/ \E h \in Socket : Adopt(t, h)
  \/ \E h \in Socket : Reset(t, h)
  \/ \E h, g \in Handle : MoveAssign(t, h, g)
  \/ \E h, g \in Handle : MoveConstruct(t, h, g)
  \/ \E h \in Handle : Destroy(t, h)

Continue(t) ==
  \/ \E f \in Fd : SysSocket(t, f)
  \/ \E f \in Fd : SysAccept(t, f)
  \/ SysFail(t)
  \/ CloseOld(t)
  \/ Store(t)
  \/ StoreMove(t)
  \/ SysBind(t)
  \/ SysListen(t)
  \/ SysConnect(t)

Next == \E t \in Thread : Call(t) \/ Continue(t)

Spec == Init /\ [][Next]_vars

-----------------------------------------------------------------------------
(* Properties.                                                             *)

\* Objects that closed their descriptor and have not overwritten it yet.
Stale == {op[t].this : t \in {u \in Thread : op[u].pc = "store"}}

\* Who is to close f: objects, and calls that hold it as their new descriptor.
Owners(f) ==
  {h \in alive \ Stale : _fd[h] = f}
    \cup {t \in Thread : op[t].new = f /\ op[t].pc \in {"close", "store"}}

\* An open descriptor has one owner and a free one has none: none leaks, on no
\* error path, and none is closed twice, which would close whatever the kernel
\* gave the number to in between.
OneOwner ==
  \A f \in Fd : Cardinality(Owners(f)) = IF kernel[f] = "free" THEN 0 ELSE 1

\* A listening server is not disturbed by what other threads do with other
\* objects, the reuse of descriptor numbers included: as long as its own member
\* functions are not running, its socket goes on listening.
NobodyElseCloses ==
  [][\A s \in Server :
       (s \in alive \cap alive' /\ OnlyRead(s) /\ _fd[s] \in Fd /\ kernel[_fd[s]] = "listening")
         => kernel'[_fd[s]] = "listening"]_vars

=============================================================================
