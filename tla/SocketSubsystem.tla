-------------------------- MODULE SocketSubsystem --------------------------
(***************************************************************************)
(* The Win32 socket wrappers of src/src/DXSockets.c and the Winsock state  *)
(* they drive.  Several connection threads each open, connect and close    *)
(* their own socket and resolve names; the wrappers share one global flag, *)
(* g_sock_subsystem_initialized, and Winsock's per-process startup count.  *)
(*                                                                         *)
(* Winsock (the environment): WSAStartup increments a reference count and  *)
(* WSACleanup decrements it; when it reaches zero Winsock is torn down and *)
(* every socket of the process is reset ("dead").  WSACleanup with a zero  *)
(* count fails.  A socket() call fails while the count is zero.  A         *)
(* non-blocking connect completes later, connected or refused; select      *)
(* reports success in the write set and failure only in the except set.    *)
(*                                                                         *)
(* A step is one Winsock call, or a read or write of the global flag, of   *)
(* one thread: nothing serialises the wrappers.                            *)
(***************************************************************************)
EXTENDS Naturals, FiniteSets

CONSTANTS
    Threads,     \* connection threads calling the wrappers
    Sockets,     \* socket handles the OS can hand out
    MaxCalls,    \* bound on wrapper calls
    NoSocket     \* INVALID_SOCKET

(* dx_name_resolution_attempt_count                                        *)
AttemptCount == 5

VARIABLES
    wsaCount,     \* Winsock's startup reference count
    os,           \* os[s]: the OS state of socket s
    initialized,  \* g_sock_subsystem_initialized
    th,           \* th[t]: thread t's call, its locals and its socket
    calls         \* wrapper calls started

vars == <<wsaCount, os, initialized, th, calls>>

OsStates == {"free", "open", "connecting", "connected", "refused", "dead"}
Alive == {"open", "connecting", "connected", "refused"}
Pcs == {"idle", "sock_init", "sock_startup", "sock_create", "sock_close",
        "sock_close_flag", "connect", "connect_wait", "close", "close_flag",
        "addr_init", "addr_startup", "resolve", "send", "recv"}

TypeOK ==
    /\ wsaCount \in Nat
    /\ os \in [Sockets -> OsStates]
    /\ initialized \in BOOLEAN
    /\ th \in [Threads -> [pc : Pcs, s : Sockets \cup {NoSocket},
                           nb : BOOLEAN, conn : BOOLEAN, tries : 0..AttemptCount,
                           ret : {"none", "ok", "zero", "fail"}]]
    /\ calls \in 0..MaxCalls

Init ==
    /\ wsaCount = 0
    /\ os = [s \in Sockets |-> "free"]
    /\ initialized = FALSE
    /\ th = [t \in Threads |-> [pc |-> "idle", s |-> NoSocket, nb |-> FALSE,
                                conn |-> FALSE,
                                tries |-> 0, ret |-> "none"]]
    /\ calls = 0

(* A wrapper returns: the thread goes idle with the call's result.         *)
Return(t, r) == th' = [th EXCEPT ![t].pc = "idle", ![t].ret = r]

(* How a connection uses the wrappers: resolve and open a socket when it   *)
(* has none, connect it once, send and receive on it once connected,      *)
(* close it.                                                               *)
Call(t, pc) ==
    /\ th[t].pc = "idle"
    /\ calls < MaxCalls
    /\ \/ pc \in {"sock_init", "addr_init"} /\ th[t].s = NoSocket
       \/ pc = "connect" /\ th[t].s # NoSocket /\ ~th[t].conn
       \/ pc \in {"send", "recv"} /\ th[t].conn
       \/ pc = "close" /\ th[t].s # NoSocket
    /\ th' = [th EXCEPT ![t].pc = pc, ![t].tries = 0, ![t].ret = "none"]
    /\ calls' = calls + 1
    /\ UNCHANGED <<wsaCount, os, initialized>>

-----------------------------------------------------------------------------
(* dx_init_socket_subsystem, entered from dx_socket (pcs sock_init and   *)
(* sock_startup) or from dx_getaddrinfo (addr_init and addr_startup).    *)
(* The flag is read in one step; WSAStartup and                           *)
(* the write of the flag follow in another.                                *)

InitCheck(t, from, startup, body) ==
    /\ th[t].pc = from
    /\ th' = [th EXCEPT ![t].pc = IF initialized THEN body ELSE startup]
    /\ UNCHANGED <<wsaCount, os, initialized, calls>>

(* WSAStartup(2.0) either fails, or succeeds with a version other than    *)
(* 2.0 and is undone by WSACleanup, and either way the wrapper returns     *)
(* failure with the count and the flag as they were; or it succeeds with   *)
(* version 2.0 and the flag is set.                                        *)
InitStartup(t, from, body) ==
    /\ th[t].pc = from
    /\ \/ /\ wsaCount' = wsaCount + 1
          /\ initialized' = TRUE
          /\ th' = [th EXCEPT ![t].pc = body]
       \/ /\ Return(t, "fail")
          /\ UNCHANGED <<wsaCount, initialized>>
    /\ UNCHANGED <<os, calls>>

-----------------------------------------------------------------------------
(* dx_socket after initialisation: socket() fails while Winsock is not     *)
(* started or when no handle is free; otherwise ioctlsocket(FIONBIO) is    *)
(* passed the uninitialised u_long dummy, leaving the socket blocking or   *)
(* non-blocking (nb) as the stack happens to hold zero or not.  A failed   *)
(* ioctlsocket sends the new socket to dx_close and then returns failure.  *)
SocketCreate(t) ==
    /\ th[t].pc = "sock_create"
    /\ \/ /\ wsaCount = 0 \/ \A s \in Sockets : os[s] # "free"
          /\ Return(t, "fail")
          /\ UNCHANGED os
       \/ \E s \in Sockets, nonblocking \in BOOLEAN, ioctlOk \in BOOLEAN :
          /\ wsaCount > 0
          /\ os[s] = "free"
          /\ os' = [os EXCEPT ![s] = "open"]
          /\ th' = [th EXCEPT ![t].pc = IF ioctlOk THEN "idle" ELSE "sock_close",
                              ![t].s = s, ![t].nb = nonblocking,
                              ![t].conn = FALSE, ![t].ret = "ok"]
    /\ UNCHANGED <<wsaCount, initialized, calls>>

-----------------------------------------------------------------------------
(* Mutation: WSAEWOULDBLOCK is taken for a completed connection.         *)
ConnectStartNoWait(t) ==
    /\ th[t].pc = "connect"
    /\ LET s == th[t].s IN
       \/ /\ os[s] = "dead"
          /\ Return(t, "fail")
          /\ UNCHANGED os
       \/ \E r \in {"connected", "refused"} :
          /\ os[s] = "open" /\ ~th[t].nb
          /\ os' = [os EXCEPT ![s] = r]
          /\ th' = [th EXCEPT ![t].pc = "idle", ![t].conn = (r = "connected"),
                              ![t].ret = IF r = "connected" THEN "ok" ELSE "fail"]
       \/ /\ os[s] = "open" /\ th[t].nb
          /\ os' = [os EXCEPT ![s] = "connecting"]
          /\ th' = [th EXCEPT ![t].pc = "idle", ![t].conn = TRUE, ![t].ret = "ok"]
    /\ UNCHANGED <<wsaCount, initialized, calls>>

(* dx_connect: connect() on a reset socket fails; a blocking socket        *)
(* completes at once, connected or refused; a non-blocking one reports     *)
(* WSAEWOULDBLOCK and the wrapper waits in select.                         *)
ConnectStart(t) ==
    /\ th[t].pc = "connect"
    /\ LET s == th[t].s IN
       \/ /\ os[s] = "dead"
          /\ Return(t, "fail")
          /\ UNCHANGED os
       \/ \E r \in {"connected", "refused"} :
          /\ os[s] = "open" /\ ~th[t].nb
          /\ os' = [os EXCEPT ![s] = r]
          /\ th' = [th EXCEPT ![t].pc = "idle", ![t].conn = (r = "connected"),
                              ![t].ret = IF r = "connected" THEN "ok" ELSE "fail"]
       \/ /\ os[s] = "open" /\ th[t].nb
          /\ os' = [os EXCEPT ![s] = "connecting"]
          /\ th' = [th EXCEPT ![t].pc = "connect_wait"]
    /\ UNCHANGED <<wsaCount, initialized, calls>>

(* select(0, NULL, {s}, NULL, NULL): no timeout and no except set.  It     *)
(* returns 1 once the connection is made, and an error once Winsock has    *)
(* been torn down under the socket; a refused connection is never          *)
(* reported, and the call does not return.                                 *)
ConnectWait(t) ==
    /\ th[t].pc = "connect_wait"
    /\ \/ /\ os[th[t].s] = "connected"
          /\ th' = [th EXCEPT ![t].pc = "idle", ![t].conn = TRUE, ![t].ret = "ok"]
       \/ /\ os[th[t].s] = "dead"
          /\ Return(t, "fail")
    /\ UNCHANGED <<wsaCount, os, initialized, calls>>

-----------------------------------------------------------------------------
(* dx_close, called by a connection (close) or by dx_socket after a failed *)
(* ioctlsocket (sock_close).  shutdown(SD_BOTH) fails on a socket that is  *)
(* not connected or was reset, and the wrapper returns before closesocket: *)
(* the caller is left without a usable handle either way.  Otherwise the  *)
(* socket is closed and dx_deinit_socket_subsystem calls WSACleanup, which *)
(* cannot fail here because a connected socket means Winsock is started.  *)
(* The last cleanup resets every socket of the process.                    *)
(* The result dx_close reports; dx_socket returns failure after it.       *)
CloseResult(t, r) == IF th[t].pc \in {"sock_close", "sock_close_flag"} THEN "fail" ELSE r

(* Mutation: the subsystem is deinitialised whatever shutdown returned.    *)
CloseAlwaysCleanup(t) ==
    /\ th[t].pc \in {"close", "sock_close"}
    /\ wsaCount' = wsaCount - 1
    /\ os' = [x \in Sockets |->
                IF x = th[t].s THEN "free"
                ELSE IF wsaCount = 1 /\ os[x] \in Alive THEN "dead"
                ELSE os[x]]
    /\ th' = [th EXCEPT ![t].pc = IF @ = "close" THEN "close_flag"
                                                ELSE "sock_close_flag",
                        ![t].s = NoSocket, ![t].conn = FALSE]
    /\ UNCHANGED <<initialized, calls>>

Close(t) ==
    /\ th[t].pc \in {"close", "sock_close"}
    /\ LET s == th[t].s IN
       \/ /\ os[s] # "connected"
          /\ th' = [th EXCEPT ![t].pc = "idle", ![t].s = NoSocket, ![t].conn = FALSE,
                              ![t].ret = "fail"]
          /\ UNCHANGED <<wsaCount, os>>
       \/ /\ os[s] = "connected"
          /\ wsaCount' = wsaCount - 1
          /\ os' = [x \in Sockets |->
                      IF x = s THEN "free"
                      ELSE IF wsaCount = 1 /\ os[x] \in Alive THEN "dead"
                      ELSE os[x]]
          /\ th' = [th EXCEPT ![t].pc = IF @ = "close" THEN "close_flag"
                                                      ELSE "sock_close_flag",
                              ![t].s = NoSocket, ![t].conn = FALSE]
    /\ UNCHANGED <<initialized, calls>>

(* Mutation: the flag is not reset after the cleanup.                     *)
CloseFlagNoReset(t) ==
    /\ th[t].pc \in {"close_flag", "sock_close_flag"}
    /\ th' = [th EXCEPT ![t].pc = "idle", ![t].ret = CloseResult(t, "ok")]
    /\ UNCHANGED <<wsaCount, os, initialized, calls>>

(* dx_deinit_socket_subsystem after a successful WSACleanup.               *)
CloseFlag(t) ==
    /\ th[t].pc \in {"close_flag", "sock_close_flag"}
    /\ initialized' = FALSE
    /\ th' = [th EXCEPT ![t].pc = "idle", ![t].ret = CloseResult(t, "ok")]
    /\ UNCHANGED <<wsaCount, os, calls>>

-----------------------------------------------------------------------------
(* dx_getaddrinfo after initialisation: one getaddrinfo call per step,     *)
(* retried on WSATRY_AGAIN while fewer than AttemptCount calls were made. *)
(* Without Winsock started it fails with WSANOTINITIALISED.                *)
ResolveAttempt(t) ==
    /\ th[t].pc = "resolve"
    /\ \E r \in IF wsaCount = 0 THEN {"fail"} ELSE {"ok", "again", "fail"} :
          \/ /\ r = "again" /\ th[t].tries + 1 < AttemptCount
             /\ th' = [th EXCEPT ![t].tries = @ + 1]
          \/ /\ r = "again" /\ th[t].tries + 1 = AttemptCount
             /\ th' = [th EXCEPT ![t].tries = @ + 1, ![t].pc = "idle", ![t].ret = "fail"]
          \/ /\ r # "again"
             /\ Return(t, r)
    /\ UNCHANGED <<wsaCount, os, initialized, calls>>

-----------------------------------------------------------------------------
(* dx_send and dx_recv on a socket dx_connect reported connected.  The     *)
(* peer is not modelled: on a connected socket each call may move data     *)
(* ("ok", a positive count), fail with a network error, and on a          *)
(* non-blocking socket find nothing to do (WSAEWOULDBLOCK, returned as 0, *)
(* "zero"); recv may also find the connection closed by the peer (recv    *)
(* returns 0, reported as INVALID_DATA_SIZE).  On a socket Winsock reset   *)
(* the call fails with an error other than WSAEWOULDBLOCK.                 *)
WouldBlock(t) == th[t].nb /\ os[th[t].s] = "connected"

Send(t) ==
    /\ th[t].pc = "send"
    /\ \/ \E r \in IF os[th[t].s] = "connected" THEN {"ok", "fail"} ELSE {"fail"} :
             Return(t, r)
       \/ WouldBlock(t) /\ Return(t, "zero")
    /\ UNCHANGED <<wsaCount, os, initialized, calls>>

Recv(t) ==
    /\ th[t].pc = "recv"
    /\ \/ \E r \in IF os[th[t].s] = "connected" THEN {"ok", "fail"} ELSE {"fail"} :
             Return(t, r)
       \/ WouldBlock(t) /\ Return(t, "zero")
    /\ UNCHANGED <<wsaCount, os, initialized, calls>>

-----------------------------------------------------------------------------
(* Winsock completes a pending non-blocking connect.                       *)
OsConnect(s) ==
    /\ os[s] = "connecting"
    /\ \E r \in {"connected", "refused"} : os' = [os EXCEPT ![s] = r]
    /\ UNCHANGED <<wsaCount, initialized, th, calls>>

(* The steps of a thread inside a wrapper.                                 *)
ThreadStep(t) ==
    \/ InitCheck(t, "sock_init", "sock_startup", "sock_create")
    \/ InitCheck(t, "addr_init", "addr_startup", "resolve")
    \/ InitStartup(t, "sock_startup", "sock_create")
    \/ InitStartup(t, "addr_startup", "resolve")
    \/ SocketCreate(t)
    \/ ConnectStart(t) \/ ConnectWait(t)
    \/ Close(t) \/ CloseFlag(t)
    \/ ResolveAttempt(t)
    \/ Send(t) \/ Recv(t)

(* Every call has returned and no call is left.                            *)
Done ==
    /\ \A t \in Threads : th[t].pc = "idle"
    /\ calls = MaxCalls
    /\ UNCHANGED vars

Next ==
    \/ \E t \in Threads :
          \/ \E pc \in {"sock_init", "addr_init", "connect", "send", "recv", "close"} : Call(t, pc)
          \/ ThreadStep(t)
    \/ \E s \in Sockets : OsConnect(s)
    \/ Done

(* The scheduler runs every runnable thread, and the network answers     *)
(* every connection attempt (TCP gives up after a finite timeout).         *)
Fairness ==
    /\ \A t \in Threads : WF_vars(ThreadStep(t))
    /\ \A s \in Sockets : WF_vars(OsConnect(s))

Spec == Init /\ [][Next]_vars /\ Fairness

-----------------------------------------------------------------------------
(* Properties.                                                             *)

(* g_sock_subsystem_initialized never claims a started Winsock that is not *)
(* started, except between a close's WSACleanup and its reset of the flag: *)
(* dx_init_socket_subsystem skips WSAStartup on the strength of the flag.  *)
FlagImpliesStarted ==
    initialized =>
        \/ wsaCount > 0
        \/ \E t \in Threads : th[t].pc \in {"close_flag", "sock_close_flag"}

(* A socket dx_connect reported connected is connected in the OS, unless   *)
(* Winsock was torn down under it: the select on the write set returns    *)
(* only for a completed connection.                                        *)
ConnectReportsConnection ==
    \A t \in Threads :
        th[t].conn => os[th[t].s] \in {"connected", "dead"}

(* A socket a connection holds is never reset under it: closing one        *)
(* connection's socket must not tear down Winsock for another.  dx_close   *)
(* calls WSACleanup on every close although dx_init_socket_subsystem calls *)
(* WSAStartup only once.                                                   *)
HeldSocketsAlive ==
    \A t \in Threads : th[t].s # NoSocket => os[th[t].s] # "dead"

(* dx_connect returns: the wait for a non-blocking connect ends whether    *)
(* the connection is made or refused.                                      *)
ConnectReturns ==
    \A t \in Threads : th[t].pc = "connect_wait" ~> th[t].pc = "idle"

(* Every socket the OS holds open for the process is held by a connection *)
(* that can still close it: dx_close releases a socket whatever state its  *)
(* connection attempt left it in.                                          *)
NoLeakedSockets ==
    \A s \in Sockets : os[s] \in Alive => \E t \in Threads : th[t].s = s

====
