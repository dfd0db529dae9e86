------------------------------- MODULE Forwarder -------------------------------
(***************************************************************************)
(* src/nautilus-server/traffic_forwarder.py: one process per egress        *)
(* endpoint.  A thread accepts TCP connections and opens a vsock           *)
(* connection for each; two threads per connection copy one direction      *)
(* each and share both sockets.                                            *)
(*                                                                         *)
(*  - A direction is named by the side it reads from.  Of its data only    *)
(*    the number of chunks is kept: a socket delivers in order.            *)
(*  - close() does not wake a thread that is blocked in recv() on the same *)
(*    socket, and until it wakes the peer is not told: "blocked" is a      *)
(*    thread inside the call, "recv" one about to make it.  The same holds *)
(*    of sendall(), which has no timeout either: "sending" is a thread     *)
(*    inside it, for as long as the peer neither reads nor leaves once     *)
(*    Room chunks are under way to it.                                     *)
(*  - A server thread that raises starts its successor in its `finally`    *)
(*    while its own sockets are still open; they are closed when its frame *)
(*    is freed.  A successor whose bind() fails does the same, so that     *)
(*    retrying shows as bind() simply not succeeding yet.  No successor,   *)
(*    ever, if its thread cannot be started.                               *)
(*  - bind() without SO_REUSEADDR fails while any socket keeps the port:   *)
(*    an old listener, or a connection, TIME_WAIT included.                *)
(* Bound: Chunks, what a peer sends.                                       *)
(***************************************************************************)
EXTENDS Naturals

CONSTANTS
    Conns,   \* connections a client makes
    Chunks,  \* the most a peer sends in one, in units of recv(1024)
    Room,    \* chunks the kernels hold for a peer that does not read
    None

ASSUME ForwarderAssumption == Chunks \in Nat /\ Room \in Nat /\ None \notin Conns

VARIABLES
    listener,   \* where the youngest server thread is
    accepting,  \* the connection it is setting up, or None
    lingering,  \* the sockets of a server thread that raised are still open
    conn,       \* connection -> its state
    peer,       \* connection -> side -> what that peer sent and read, how it ended
    sock,       \* connection -> side -> our socket to it
    thread,     \* connection -> direction -> where its thread is
    given,      \* connection -> direction -> chunks passed on
    (* History, read by no action. *)
    broken      \* connections with a reset, with data for a peer that had left,
                \* or with one thread only

listenerVars == <<listener, accepting, lingering>>
streamVars   == <<sock, thread, given, broken>>
forwarderVars == <<listener, accepting, lingering, conn, peer, sock, thread, given, broken>>

Sides == {"client", "server"}
Other(s) == IF s = "client" THEN "server" ELSE "client"

ForwarderTypeOK ==
    /\ listener \in {"bind", "accept", "connect", "start_incoming", "unstarted", "dead"}
    /\ accepting \in Conns \cup {None}
    /\ lingering \in BOOLEAN
    /\ conn \in [Conns -> {"idle", "backlog", "open", "gone"}]
    /\ peer \in [Conns -> [Sides -> [sent : 0 .. Chunks, read : 0 .. Chunks,
                                     end : {"open", "half", "closed", "reset"}]]]
    /\ sock \in [Conns -> [Sides -> {"open", "shut_wr", "closed"}]]
    /\ thread \in [Conns -> [Sides -> {"none", "recv", "blocked", "send", "sending",
                                       "shut_rd", "shut_wr", "done"}]]
    /\ given \in [Conns -> [Sides -> 0 .. Chunks]]
    /\ broken \subseteq Conns

ForwarderInit ==
    /\ listener = "bind" /\ accepting = None /\ lingering = FALSE
    /\ conn = [c \in Conns |-> "idle"]
    /\ peer = [c \in Conns |-> [s \in Sides |-> [sent |-> 0, read |-> 0, end |-> "open"]]]
    /\ sock = [c \in Conns |-> [s \in Sides |-> "open"]]
    /\ thread = [c \in Conns |-> [d \in Sides |-> "none"]]
    /\ given = [c \in Conns |-> [d \in Sides |-> 0]]
    /\ broken = {}

-----------------------------------------------------------------------------
(* server() *)

Listening == listener \in {"accept", "connect", "start_incoming"} \/ lingering

(* What keeps the port from being bound again. *)
PortTaken == lingering \/ \E c \in Conns : conn[c] = "open"

(* bind() and listen(), when they succeed. *)
Bind ==
    /\ listener = "bind" /\ ~PortTaken
    /\ listener' = "accept"
    /\ UNCHANGED <<accepting, lingering, conn, peer>> /\ UNCHANGED streamVars

Accept(c) ==
    /\ listener = "accept" /\ conn[c] = "backlog"
    /\ listener' = "connect" /\ accepting' = c
    /\ conn' = [conn EXCEPT ![c] = "open"]
    /\ UNCHANGED <<lingering, peer>> /\ UNCHANGED streamVars

(* connect() to the host succeeds and the outgoing thread is started ...   *)
ConnectVsock ==
    /\ listener = "connect"
    /\ listener' = "start_incoming"
    /\ thread' = [thread EXCEPT ![accepting]["client"] = "recv"]
    /\ UNCHANGED <<accepting, lingering, conn, peer, sock, given, broken>>

(* ... and then the incoming one. *)
StartIncoming ==
    /\ listener = "start_incoming"
    /\ listener' = "accept" /\ accepting' = None
    /\ thread' = [thread EXCEPT ![accepting]["server"] = "recv"]
    /\ UNCHANGED <<lingering, conn, peer, sock, given, broken>>

(* Any call of server() raises, and its `finally` starts another server    *)
(* thread, if a thread can be started.  The slip has no `finally`.         *)
RaiseWithoutRestart == listener' = "dead"
RaiseAndRestart     == listener' \in {"bind", "unstarted"}

Raise ==
    /\ listener \in {"bind", "accept", "connect", "start_incoming"}
    /\ RaiseAndRestart
    /\ lingering' = (lingering \/ listener # "bind")
    /\ broken' = IF listener = "start_incoming" THEN broken \cup {accepting} ELSE broken
    /\ UNCHANGED <<accepting, conn, peer, sock, thread, given>>

(* The frame of the thread that raised is freed: its listening socket is   *)
(* closed, which resets the backlog, and so is the connection at hand      *)
(* unless a thread has it already.                                         *)
FreeFrame ==
    /\ lingering
    /\ lingering' = FALSE /\ accepting' = None
    /\ conn' = [c \in Conns |->
            IF conn[c] = "backlog" \/ (c = accepting /\ thread[c]["client"] = "none")
            THEN "gone" ELSE conn[c]]
    /\ UNCHANGED <<listener, peer>> /\ UNCHANGED streamVars

-----------------------------------------------------------------------------
(* forward() *)

ThreadTo(c, d, pc) == thread' = [thread EXCEPT ![c][d] = pc]

(* Either `except`: both sockets are closed, whatever the other thread is  *)
(* doing with them.                                                        *)
CloseBoth(c, d) ==
    /\ sock' = [sock EXCEPT ![c] = [s \in Sides |-> "closed"]]
    /\ ThreadTo(c, d, "done")
    /\ UNCHANGED given

(* recv() is called: it raises on a closed socket, or else waits. *)
RecvCall(c, d) ==
    /\ thread[c][d] = "recv"
    /\ \/ sock[c][d] = "closed" /\ CloseBoth(c, d)
       \/ sock[c][d] # "closed" /\ ThreadTo(c, d, "blocked")
            /\ UNCHANGED <<sock, given>>
    /\ UNCHANGED broken

(* recv() returns the next chunk, nothing at the end of the stream, or     *)
(* raises.  The slip returns what it has returned before.                  *)
RecvAnyChunk(c, d) == ThreadTo(c, d, "send") /\ UNCHANGED <<sock, given>>
RecvChunk(c, d) ==
    /\ given[c][d] < peer[c][d].sent
    /\ ThreadTo(c, d, "send")
    /\ UNCHANGED <<sock, given>>

(* At the end of the stream the two halves are shut, one after the other;  *)
(* the slips close both sockets, or forget that the stream has ended.      *)
EndByClosing(c, d)   == CloseBoth(c, d)
EndByRetrying(c, d)  == ThreadTo(c, d, "recv") /\ UNCHANGED <<sock, given>>
EndOfStream(c, d)    == ThreadTo(c, d, "shut_rd") /\ UNCHANGED <<sock, given>>

RecvReturns(c, d) ==
    /\ thread[c][d] = "blocked"
    /\ \/ peer[c][d].end # "reset" /\ RecvChunk(c, d)
       \/ /\ peer[c][d].end \in {"half", "closed"} /\ given[c][d] = peer[c][d].sent
          /\ EndOfStream(c, d)
       \/ peer[c][d].end = "reset" /\ CloseBoth(c, d)
    /\ UNCHANGED broken

(* sendall() is called: it raises on a socket that is not open. *)
SendCall(c, d) ==
    /\ thread[c][d] = "send"
    /\ \/ sock[c][Other(d)] # "open" /\ CloseBoth(c, d)
       \/ sock[c][Other(d)] = "open" /\ ThreadTo(c, d, "sending")
            /\ UNCHANGED <<sock, given>>
    /\ UNCHANGED broken

Left(c, s)    == peer[c][s].end \in {"closed", "reset"}
HasRoom(c, d) == given[c][d] < peer[c][Other(d)].read + Room

(* It returns when there is room for the chunk, and raises if the socket   *)
(* was closed in the meantime.  To a peer that has left, data is lost or   *)
(* raises EPIPE.                                                           *)
SendReturns(c, d) ==
    LET s == Other(d) IN
    /\ thread[c][d] = "sending"
    /\ HasRoom(c, d) \/ Left(c, s)
    /\ \/ (sock[c][s] # "open" \/ Left(c, s)) /\ CloseBoth(c, d)
       \/ /\ given' = [given EXCEPT ![c][d] = @ + 1]
          /\ ThreadTo(c, d, "recv")
          /\ UNCHANGED sock
    /\ broken' = IF Left(c, s) THEN broken \cup {c} ELSE broken

(* source.shutdown(SHUT_RD): ENOTCONN after a reset, and possibly when     *)
(* both sides have ended their half already.                               *)
ShutdownRead(c, d) ==
    /\ thread[c][d] = "shut_rd"
    /\ \/ sock[c][d] # "open" /\ CloseBoth(c, d)
       \/ peer[c][d].end = "reset" /\ CloseBoth(c, d)
       \/ /\ sock[c][d] # "closed" /\ peer[c][d].end # "reset"
          /\ ThreadTo(c, d, "shut_wr") /\ UNCHANGED <<sock, given>>
    /\ UNCHANGED broken

ShutdownWrite(c, d) ==
    LET s == Other(d) IN
    /\ thread[c][d] = "shut_wr"
    /\ \/ (sock[c][s] = "closed" \/ peer[c][s].end = "reset") /\ CloseBoth(c, d)
       \/ /\ sock[c][s] # "closed" /\ peer[c][s].end # "reset"
          /\ sock' = [sock EXCEPT ![c][s] = "shut_wr"]
          /\ ThreadTo(c, d, "done") /\ UNCHANGED given
    /\ UNCHANGED broken

Forward(c, d) ==
    /\ \/ RecvCall(c, d) \/ RecvReturns(c, d)
       \/ SendCall(c, d) \/ SendReturns(c, d)
       \/ ShutdownRead(c, d) \/ ShutdownWrite(c, d)
    /\ UNCHANGED <<conn, peer>> /\ UNCHANGED listenerVars

(* The threads that were started have ended, and so, after TIME_WAIT, has  *)
(* the connection.                                                         *)
IsSetUp(c)  == c # accepting /\ \E d \in Sides : thread[c][d] # "none"
Finished(c) == \A d \in Sides : thread[c][d] \in {"none", "done"}

ConnGone(c) ==
    /\ conn[c] = "open" /\ IsSetUp(c) /\ Finished(c)
    /\ conn' = [conn EXCEPT ![c] = "gone"]
    /\ UNCHANGED peer /\ UNCHANGED listenerVars /\ UNCHANGED streamVars

-----------------------------------------------------------------------------
(* External: the client inside the enclave, and the host's vsock-proxy.    *)

ClientConnects(c) ==
    /\ conn[c] = "idle" /\ Listening
    /\ conn' = [conn EXCEPT ![c] = "backlog"]
    /\ UNCHANGED peer /\ UNCHANGED listenerVars /\ UNCHANGED streamVars

PeerSends(c, s) ==
    /\ conn[c] = "open" /\ peer[c][s].end = "open" /\ peer[c][s].sent < Chunks
    /\ peer' = [peer EXCEPT ![c][s].sent = @ + 1]
    /\ UNCHANGED conn /\ UNCHANGED listenerVars /\ UNCHANGED streamVars

PeerReads(c, s) ==
    /\ ~Left(c, s) /\ peer[c][s].read < given[c][Other(s)]
    /\ peer' = [peer EXCEPT ![c][s].read = @ + 1]
    /\ UNCHANGED conn /\ UNCHANGED listenerVars /\ UNCHANGED streamVars

(* A peer ends its half, leaves, or resets the connection. *)
PeerEnds(c, s, how) ==
    /\ conn[c] = "open" /\ peer[c][s].end \in {"open", "half"} /\ peer[c][s].end # how
    /\ peer' = [peer EXCEPT ![c][s].end = how]
    /\ broken' = IF how = "reset" THEN broken \cup {c} ELSE broken
    /\ UNCHANGED <<conn, sock, thread, given>> /\ UNCHANGED listenerVars

Server == Bind \/ ConnectVsock \/ StartIncoming \/ \E c \in Conns : Accept(c)

ForwarderNext ==
    \/ Server \/ Raise \/ FreeFrame
    \/ \E c \in Conns :
        \/ ClientConnects(c) \/ ConnGone(c)
        \/ \E s \in Sides :
            \/ Forward(c, s) \/ PeerSends(c, s) \/ PeerReads(c, s)
            \/ \E how \in {"half", "closed", "reset"} : PeerEnds(c, s, how)

ForwarderSpec == ForwarderInit /\ [][ForwarderNext]_forwarderVars

(* Threads are scheduled and frames are freed; a call that waits for a     *)
(* peer ends only when the peer acts, and of the peers nothing is assumed. *)
FairForwarderSpec ==
    /\ ForwarderSpec
    /\ WF_forwarderVars(Server) /\ WF_forwarderVars(FreeFrame)
    /\ \A c \in Conns, d \in Sides : WF_forwarderVars(Forward(c, d))

-----------------------------------------------------------------------------
(* Properties *)

(* The peer at side s is told that the other one has finished: our half is *)
(* shut, or the socket is closed and nobody is inside a call on it.        *)
SeesEnd(c, s) ==
    \/ sock[c][s] = "shut_wr"
    \/ sock[c][s] = "closed" /\ thread[c][s] # "blocked" /\ thread[c][Other(s)] # "sending"

(* The two threads of a connection never cut each other short: unless a    *)
(* peer reset the connection or left while there was data for it, or the   *)
(* second thread was never started, an end of stream is only passed on     *)
(* when the other side has ended its half and everything it sent has been  *)
(* passed on.  Both threads close both sockets when a call raises, and     *)
(* calls raise on sockets the other thread shut.                           *)
NothingIsCutShort ==
    \A c \in Conns \ broken : \A s \in Sides : SeesEnd(c, s) =>
        LET from == peer[c][Other(s)] IN
        from.end # "open" /\ given[c][Other(s)] = from.sent

(* A thread that waits for a peer to read what it was sent, or to leave.   *)
Unread(c, d) == thread[c][d] = "sending" /\ ~HasRoom(c, d) /\ ~Left(c, Other(d))

(* No thread is left behind but by a peer that neither reads nor leaves:   *)
(* when both peers have ended their halves, all threads end, although      *)
(* closing a socket wakes nobody, if no sendall() waits for ever.  (The    *)
(* code cannot promise more, as sendall() has no timeout.)                 *)
ThreadsEnd ==
    \A c \in Conns :
        (\A d \in Sides : []<>~Unread(c, d)) =>
            ((IsSetUp(c) /\ \A s \in Sides : peer[c][s].end # "open") ~> Finished(c))

(* The forwarder recovers from any exception of its server thread: if the  *)
(* connections it still carries come to an end, it listens again, as long  *)
(* as threads can be started.                                              *)
ListensAgain ==
    (<>[](\A c \in Conns : conn[c] # "open") /\ [](listener # "unstarted"))
        => []<>(listener = "accept")

=============================================================================
