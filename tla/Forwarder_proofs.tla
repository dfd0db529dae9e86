---------------------------- MODULE Forwarder_proofs ----------------------------
(***************************************************************************)
(* Proofs about the traffic forwarder, for any number of connections and   *)
(* of chunks.                                                              *)
(***************************************************************************)
EXTENDS Forwarder, TLAPS

-----------------------------------------------------------------------------
(* The inductive invariant *)

(* No more is passed on than was sent, a chunk at hand is not yet, and no  *)
(* more is read than was passed on.                                        *)
Counted ==
    \A c \in Conns, d \in Sides :
        /\ given[c][d] <= peer[c][d].sent
        /\ thread[c][d] \in {"send", "sending"} => given[c][d] < peer[c][d].sent
        /\ peer[c][d].read <= given[c][Other(d)]

(* A thread is started once: a server thread that is at work has freed its *)
(* predecessor's frame, and sets up a connection whose threads are to come.*)
SetUp ==
    /\ listener \in {"accept", "connect", "start_incoming"} => ~lingering
    /\ listener \in {"connect", "start_incoming"} =>
            /\ accepting \in Conns
            /\ conn[accepting] \notin {"idle", "backlog"}
            /\ thread[accepting]["server"] = "none"
            /\ listener = "connect" => thread[accepting]["client"] = "none"
    /\ \A c \in Conns, d \in Sides :
            conn[c] \in {"idle", "backlog"} => thread[c][d] = "none"

(* On a connection that no peer has broken: a thread that is past the end  *)
(* of its stream has passed all of it on; only it shuts the half it writes *)
(* to, and only the second of two threads to get there finds a socket half *)
(* shut, so that sockets are closed when there is nothing left to do.      *)
StreamOK(c) ==
    /\ \A s \in Sides : peer[c][s].end # "reset"
    /\ \A d \in Sides : thread[c][d] \in {"shut_rd", "shut_wr", "done"} =>
            peer[c][d].end # "open" /\ given[c][d] = peer[c][d].sent
    /\ \A s \in Sides : sock[c][s] = "shut_wr" => thread[c][Other(s)] = "done"
    /\ (\E s \in Sides : sock[c][s] = "closed") => \A d \in Sides : thread[c][d] = "done"

Streams == \A c \in Conns \ broken : StreamOK(c)

ForwarderInv == ForwarderTypeOK /\ Counted /\ SetUp /\ Streams

LEMMA InitEstablishesForwarder == ForwarderInit => ForwarderInv
<1> SUFFICES ASSUME ForwarderInit PROVE ForwarderInv
  OBVIOUS
<1> USE DEF ForwarderInit
<1>1. ForwarderTypeOK
  <2>1. [sent |-> 0, read |-> 0, end |-> "open"]
            \in [sent : 0 .. Chunks, read : 0 .. Chunks,
                 end : {"open", "half", "closed", "reset"}]
    BY ForwarderAssumption
  <2>2. peer \in [Conns -> [Sides -> [sent : 0 .. Chunks, read : 0 .. Chunks,
                                      end : {"open", "half", "closed", "reset"}]]]
    BY <2>1
  <2>3. given \in [Conns -> [Sides -> 0 .. Chunks]]
    BY ForwarderAssumption
  <2> QED BY <2>2, <2>3 DEF ForwarderTypeOK
<1>2. Counted
  BY DEF Counted, Other, Sides
<1>3. SetUp
  BY DEF SetUp
<1>4. Streams
  BY DEF Streams, StreamOK
<1> QED BY <1>1, <1>2, <1>3, <1>4 DEF ForwarderInv

-----------------------------------------------------------------------------
(* The steps of the threads of one connection *)

ThreadStates == {"none", "recv", "blocked", "send", "sending", "shut_rd", "shut_wr", "done"}
SockStates   == {"open", "shut_wr", "closed"}
Threads == [Conns -> [Sides -> ThreadStates]]

(* What a thread's step does to its own place, its sockets and its count.  *)
LEMMA ForwardEffect ==
    ASSUME ForwarderTypeOK, NEW c \in Conns, NEW d \in Sides, Forward(c, d)
    PROVE  /\ \E to \in ThreadStates :
                /\ ThreadTo(c, d, to)
                /\ to = "send" => given[c][d] < peer[c][d].sent
                /\ to = "sending" => thread[c][d] = "send"
           /\ sock' = sock \/ \E ss \in [Sides -> SockStates] : sock' = [sock EXCEPT ![c] = ss]
           /\ \/ given' = given
              \/ thread[c][d] = "sending" /\ given' = [given EXCEPT ![c][d] = @ + 1]
                                          /\ ThreadTo(c, d, "recv")
           /\ broken' = broken \/ broken' = broken \cup {c}
<1> USE DEF ThreadStates
<1>1. CASE CloseBoth(c, d) /\ UNCHANGED broken
  <2>1. [s \in Sides |-> "closed"] \in [Sides -> SockStates]
    BY DEF SockStates
  <2> QED BY <1>1, <2>1 DEF CloseBoth
<1>2. CASE RecvCall(c, d)
  BY <1>1, <1>2 DEF RecvCall
<1>3. CASE RecvReturns(c, d)
  BY <1>1, <1>3 DEF RecvReturns, RecvChunk, EndOfStream
<1>4. CASE SendReturns(c, d)
  <2>1. ASSUME CloseBoth(c, d), broken' = broken \cup {c}
        PROVE  \E ss \in [Sides -> SockStates] : sock' = [sock EXCEPT ![c] = ss]
    <3>1. [s \in Sides |-> "closed"] \in [Sides -> SockStates]
      BY DEF SockStates
    <3> QED BY <2>1, <3>1 DEF CloseBoth
  <2> QED BY <1>1, <1>4, <2>1 DEF SendReturns, CloseBoth
<1>5. CASE ShutdownRead(c, d)
  BY <1>1, <1>5 DEF ShutdownRead
<1>6. CASE ShutdownWrite(c, d)
  <2>1. ASSUME sock' = [sock EXCEPT ![c][Other(d)] = "shut_wr"]
        PROVE  \E ss \in [Sides -> SockStates] : sock' = [sock EXCEPT ![c] = ss]
    <3>1. [sock[c] EXCEPT ![Other(d)] = "shut_wr"] \in [Sides -> SockStates]
      BY DEF ForwarderTypeOK, SockStates
    <3> QED BY <2>1, <3>1
  <2> QED BY <1>1, <1>6, <2>1 DEF ShutdownWrite
<1>7. CASE SendCall(c, d)
  BY <1>1, <1>7 DEF SendCall
<1> QED BY <1>2, <1>3, <1>4, <1>5, <1>6, <1>7 DEF Forward

LEMMA ThreadToType ==
    ASSUME thread \in Threads, NEW c \in Conns, NEW d \in Sides, NEW to \in ThreadStates,
           ThreadTo(c, d, to)
    PROVE  /\ thread' \in Threads
           /\ \A e \in Conns, x \in Sides :
                thread'[e][x] = IF e = c /\ x = d THEN to ELSE thread[e][x]
BY DEF ThreadTo, Threads

LEMMA ForwardKeepsType ==
    ASSUME ForwarderTypeOK, Counted, NEW c \in Conns, NEW d \in Sides, Forward(c, d)
    PROVE  ForwarderTypeOK' /\ Counted'
<1>1. PICK to \in ThreadStates :
          /\ ThreadTo(c, d, to)
          /\ to \in {"send", "sending"} => given[c][d] < peer[c][d].sent
  BY ForwardEffect DEF Counted
<1>2. thread \in Threads
  BY DEF ForwarderTypeOK, Threads, ThreadStates
<1>3. thread' \in Threads /\ \A e \in Conns, x \in Sides :
          thread'[e][x] = IF e = c /\ x = d THEN to ELSE thread[e][x]
  BY <1>1, <1>2, ThreadToType
<1>4. sock' \in [Conns -> [Sides -> SockStates]]
  BY ForwardEffect DEF ForwarderTypeOK, SockStates
<1>5. UNCHANGED <<conn, peer, listener, accepting, lingering>>
  BY DEF Forward, listenerVars
<1>6. peer[c][d].sent \in 0 .. Chunks /\ given[c][d] \in 0 .. Chunks
  BY DEF ForwarderTypeOK
<1>7. given' \in [Conns -> [Sides -> 0 .. Chunks]] /\ Counted'
  <2>1. CASE given' = given
    BY <1>1, <1>3, <1>5, <2>1 DEF ForwarderTypeOK, Counted
  <2>2. CASE /\ thread[c][d] = "sending" /\ given' = [given EXCEPT ![c][d] = @ + 1]
             /\ ThreadTo(c, d, "recv")
    <3>1. thread'[c][d] = "recv"
      BY <1>2, <2>2 DEF ThreadTo, Threads
    <3>2. given[c][d] + 1 \in 0 .. Chunks /\ given[c][d] + 1 <= peer[c][d].sent
      BY <1>6, <2>2, ForwarderAssumption DEF Counted
    <3>3. /\ given' \in [Conns -> [Sides -> 0 .. Chunks]]
          /\ \A e \in Conns, x \in Sides :
                given'[e][x] = IF e = c /\ x = d THEN given[c][d] + 1 ELSE given[e][x]
      BY <2>2, <3>2 DEF ForwarderTypeOK
    <3>4. \A e \in Conns, x \in Sides : given'[e][x] >= given[e][x] /\ given[e][x] \in Nat
      <4> SUFFICES ASSUME NEW e \in Conns, NEW x \in Sides
                   PROVE  given'[e][x] >= given[e][x] /\ given[e][x] \in Nat
        OBVIOUS
      <4>1. given[e][x] \in 0 .. Chunks
        BY DEF ForwarderTypeOK
      <4> QED BY <1>6, <3>3, <4>1, ForwarderAssumption
    <3>5. \A e \in Conns, x \in Sides : peer[e][x].read \in Nat /\ Other(x) \in Sides
      BY DEF ForwarderTypeOK, Other, Sides
    <3>6. \A e \in Conns, x \in Sides : peer'[e][x].read <= given'[e][Other(x)]
      <4> SUFFICES ASSUME NEW e \in Conns, NEW x \in Sides
                   PROVE  peer[e][x].read <= given'[e][Other(x)]
        BY <1>5
      <4>1. given'[e][Other(x)] \in Nat
        BY <3>2, <3>3, <3>4, <3>5
      <4>2. peer[e][x].read <= given[e][Other(x)]
        BY DEF Counted
      <4> QED BY <3>4, <3>5, <4>1, <4>2
    <3>7. \A e \in Conns, x \in Sides :
              /\ given'[e][x] <= peer'[e][x].sent
              /\ thread'[e][x] \in {"send", "sending"} => given'[e][x] < peer'[e][x].sent
      BY <1>3, <1>5, <3>1, <3>2, <3>3 DEF Counted
    <3> QED BY <3>3, <3>6, <3>7 DEF Counted
  <2> QED BY <2>1, <2>2, ForwardEffect
<1>8. broken' \subseteq Conns
  <2>1. broken' = broken \/ broken' = broken \cup {c}
    BY ForwardEffect
  <2> QED BY <2>1 DEF ForwarderTypeOK
<1>9. ForwarderTypeOK'
  BY <1>3, <1>4, <1>5, <1>7, <1>8 DEF ForwarderTypeOK, Threads, ThreadStates, SockStates
<1> QED BY <1>7, <1>9

(* A thread leaves every other connection, and the other thread, alone.    *)
LEMMA ForwardIsLocal ==
    ASSUME ForwarderTypeOK, NEW c \in Conns, NEW d \in Sides, Forward(c, d)
    PROVE  /\ thread[c][d] # "none"
           /\ UNCHANGED <<conn, peer, listener, accepting, lingering>>
           /\ broken \subseteq broken' /\ broken' \subseteq broken \cup {c}
           /\ \A e \in Conns \ {c} :
                thread'[e] = thread[e] /\ sock'[e] = sock[e] /\ given'[e] = given[e]
           /\ thread'[c][Other(d)] = thread[c][Other(d)]
<1> USE DEF ForwarderTypeOK, Forward, listenerVars, ThreadTo, Other, Sides
<1>1. CASE RecvCall(c, d)
  BY <1>1 DEF RecvCall, CloseBoth
<1>2. CASE RecvReturns(c, d)
  BY <1>2 DEF RecvReturns, RecvChunk, EndOfStream, CloseBoth
<1>3. CASE SendReturns(c, d)
  BY <1>3 DEF SendReturns, CloseBoth
<1>4. CASE ShutdownRead(c, d)
  BY <1>4 DEF ShutdownRead, CloseBoth
<1>5. CASE ShutdownWrite(c, d)
  BY <1>5 DEF ShutdownWrite, CloseBoth
<1>6. CASE SendCall(c, d)
  BY <1>6 DEF SendCall, CloseBoth
<1> QED BY <1>1, <1>2, <1>3, <1>4, <1>5, <1>6

LEMMA ForwardKeepsStream ==
    ASSUME ForwarderTypeOK, NEW c \in Conns, NEW d \in Sides, Forward(c, d),
           StreamOK(c), c \notin broken'
    PROVE  StreamOK(c)'
<1> USE DEF ForwarderTypeOK, Forward, listenerVars, ThreadTo, Other, Sides, StreamOK
<1>1. CASE RecvCall(c, d)
  BY <1>1 DEF RecvCall
<1>2. CASE RecvReturns(c, d)
  BY <1>2 DEF RecvReturns, RecvChunk, EndOfStream
<1>3. CASE SendReturns(c, d)
  BY <1>3 DEF SendReturns, CloseBoth, Left
<1>4. CASE ShutdownRead(c, d)
  BY <1>4 DEF ShutdownRead, CloseBoth
<1>5. CASE ShutdownWrite(c, d)
  BY <1>5 DEF ShutdownWrite
<1>6. CASE SendCall(c, d)
  BY <1>6 DEF SendCall, CloseBoth
<1> QED BY <1>1, <1>2, <1>3, <1>4, <1>5, <1>6

LEMMA ForwardStep ==
    ASSUME ForwarderInv, NEW c \in Conns, NEW d \in Sides, Forward(c, d)
    PROVE  ForwarderInv'
<1> USE DEF ForwarderInv
<1>1. Streams'
  <2> SUFFICES ASSUME NEW e \in Conns \ broken' PROVE StreamOK(e)'
    BY DEF Streams
  <2>1. StreamOK(e)
    BY ForwardIsLocal DEF Streams
  <2>2. CASE e = c
    BY <2>1, <2>2, ForwardKeepsStream
  <2>3. CASE e # c
    BY <2>1, <2>3, ForwardIsLocal DEF StreamOK
  <2> QED BY <2>2, <2>3
<1>2. SetUp'
  BY ForwardIsLocal DEF SetUp, Other, Sides
<1> QED BY <1>1, <1>2, ForwardKeepsType

-----------------------------------------------------------------------------
(* The steps of the server thread and of the peers *)

LEMMA ServerStep == ForwarderInv /\ Server => ForwarderInv'
<1> SUFFICES ASSUME ForwarderInv, Server PROVE ForwarderInv'
  OBVIOUS
<1> USE DEF ForwarderInv, ForwarderTypeOK, Counted, SetUp, Streams, streamVars, Sides,
            ThreadStates
<1>1. CASE Bind
  BY <1>1 DEF Bind, PortTaken, StreamOK
<1>2. ASSUME NEW c \in Conns, Accept(c) PROVE ForwarderInv'
  BY <1>2 DEF Accept, StreamOK
<1>3. ASSUME NEW d \in Sides, accepting \in Conns, thread[accepting][d] = "none",
             thread' = [thread EXCEPT ![accepting][d] = "recv"],
             UNCHANGED <<lingering, conn, peer, sock, given, broken>>
      PROVE  Counted' /\ Streams' /\ thread' \in [Conns -> [Sides -> ThreadStates]]
  <2>1. \A e \in Conns \ {accepting} : thread'[e] = thread[e]
    BY <1>3
  <2>2. \A x \in Sides \ {d} : thread'[accepting][x] = thread[accepting][x]
    BY <1>3
  <2>3. thread'[accepting][d] = "recv"
    BY <1>3
  <2>4. ASSUME NEW e \in Conns \ broken PROVE StreamOK(e)'
    BY <1>3, <2>1, <2>2, <2>3, <2>4 DEF StreamOK, Other
  <2>5. thread' \in [Conns -> [Sides -> ThreadStates]]
    BY <1>3
  <2> QED BY <1>3, <2>1, <2>2, <2>3, <2>4, <2>5
<1>4. CASE ConnectVsock
  <2>1. Counted' /\ Streams' /\ thread' \in [Conns -> [Sides -> ThreadStates]]
    BY <1>3, <1>4 DEF ConnectVsock
  <2>2. SetUp'
    BY <1>4 DEF ConnectVsock
  <2> QED BY <1>4, <2>1, <2>2 DEF ConnectVsock
<1>5. CASE StartIncoming
  <2>1. Counted' /\ Streams' /\ thread' \in [Conns -> [Sides -> ThreadStates]]
    BY <1>3, <1>5 DEF StartIncoming
  <2>2. SetUp'
    BY <1>5 DEF StartIncoming
  <2> QED BY <1>5, <2>1, <2>2 DEF StartIncoming
<1> QED BY <1>1, <1>2, <1>4, <1>5 DEF Server

LEMMA FramesStep == ForwarderInv /\ (Raise \/ FreeFrame) => ForwarderInv'
<1> SUFFICES ASSUME ForwarderInv, Raise \/ FreeFrame PROVE ForwarderInv'
  OBVIOUS
<1> USE DEF ForwarderInv, ForwarderTypeOK, Counted, SetUp, Streams, StreamOK, streamVars
<1>1. CASE Raise
  <2>1. /\ UNCHANGED <<accepting, conn, peer, sock, thread, given>>
        /\ listener' \in {"bind", "unstarted"}
        /\ lingering' \in BOOLEAN
        /\ broken \subseteq broken' /\ broken' \subseteq Conns
    BY <1>1 DEF Raise, RaiseAndRestart
  <2>2. ForwarderTypeOK'
    BY <2>1
  <2>3. Counted'
    BY <2>1
  <2>4. Streams'
    <3>1. ASSUME NEW c \in Conns \ broken' PROVE StreamOK(c)'
      <4>1. StreamOK(c)
        BY <2>1, Zenon
      <4> QED BY <2>1, <4>1 DEF Other
    <3> QED BY <3>1, Zenon
  <2>5. SetUp'
    BY <2>1
  <2> QED BY <2>2, <2>3, <2>4, <2>5
<1>2. CASE FreeFrame
  <2>1. \A e \in Conns : conn'[e] \in {conn[e], "gone"}
    BY <1>2 DEF FreeFrame
  <2>2. listener \notin {"connect", "start_incoming"}
    BY <1>2 DEF FreeFrame
  <2>3. UNCHANGED <<listener, peer, sock, thread, given, broken>>
    BY <1>2 DEF FreeFrame
  <2>4. SetUp'
    BY <1>2, <2>1, <2>2, <2>3 DEF FreeFrame
  <2>5. Counted' /\ Streams'
    BY <2>3
  <2>6. ForwarderTypeOK'
    BY <1>2, <2>3 DEF FreeFrame
  <2> QED BY <2>4, <2>5, <2>6
<1> QED BY <1>1, <1>2

LEMMA ConnStep ==
    ASSUME ForwarderInv, NEW c \in Conns, ClientConnects(c) \/ ConnGone(c)
    PROVE  ForwarderInv'
<1> USE DEF ForwarderInv, streamVars, listenerVars
<1>1. ForwarderTypeOK'
  BY DEF ForwarderTypeOK, ClientConnects, ConnGone
<1>2. Counted' /\ Streams'
  BY DEF Counted, Streams, StreamOK, ClientConnects, ConnGone
<1>3. SetUp'
  BY DEF SetUp, ForwarderTypeOK, ClientConnects, ConnGone
<1> QED BY <1>1, <1>2, <1>3

Peers == [sent : 0 .. Chunks, read : 0 .. Chunks, end : {"open", "half", "closed", "reset"}]

LEMMA PeerStep ==
    ASSUME ForwarderInv, NEW c \in Conns, NEW s \in Sides,
           PeerSends(c, s) \/ PeerReads(c, s) \/ \E how \in {"half", "closed", "reset"} : PeerEnds(c, s, how)
    PROVE  ForwarderInv'
<1> USE DEF ForwarderInv, streamVars, listenerVars
<1>1. peer \in [Conns -> [Sides -> Peers]]
  BY DEF ForwarderTypeOK, Peers
<1>2. UNCHANGED <<listener, accepting, lingering, conn, sock, thread, given>>
  BY DEF PeerSends, PeerReads, PeerEnds
<1>3. SetUp'
  BY <1>2 DEF SetUp
<1>4. CASE PeerSends(c, s)
  <2> DEFINE p == [peer[c][s] EXCEPT !.sent = @ + 1]
  <2>1. /\ p \in Peers /\ p.sent = peer[c][s].sent + 1 /\ p.read = peer[c][s].read
        /\ p.end = "open" /\ peer[c][s].end = "open"
    BY <1>1, <1>4, ForwarderAssumption DEF PeerSends, Peers
  <2>2. /\ peer' \in [Conns -> [Sides -> Peers]]
        /\ \A e \in Conns, x \in Sides :
              peer'[e][x] = IF e = c /\ x = s THEN p ELSE peer[e][x]
    BY <1>1, <1>4, <2>1 DEF PeerSends
  <2>3. broken' = broken
    BY <1>4 DEF PeerSends
  <2> HIDE DEF p
  <2>4. \A e \in Conns, x \in Sides :
            /\ given[e][x] \in Nat /\ peer[e][x].sent \in Nat
            /\ peer'[e][x].sent >= peer[e][x].sent /\ peer'[e][x].sent \in Nat
            /\ peer'[e][x].read = peer[e][x].read
    <3> SUFFICES ASSUME NEW e \in Conns, NEW x \in Sides
                 PROVE  /\ given[e][x] \in Nat /\ peer[e][x].sent \in Nat
                        /\ peer'[e][x].sent >= peer[e][x].sent /\ peer'[e][x].sent \in Nat
                        /\ peer'[e][x].read = peer[e][x].read
      OBVIOUS
    <3>1. given[e][x] \in Nat /\ peer[e][x].sent \in Nat
      BY <1>1 DEF ForwarderTypeOK, Peers
    <3> QED BY <2>1, <2>2, <3>1
  <2>5. Counted'
    BY <1>2, <2>4 DEF Counted
  <2>6. Streams'
    BY <1>2, <2>1, <2>2, <2>3 DEF Streams, StreamOK
  <2>7. ForwarderTypeOK'
    BY <1>2, <2>2, <2>3 DEF ForwarderTypeOK, Peers
  <2> QED BY <1>3, <2>5, <2>6, <2>7
<1>5. ASSUME NEW how \in {"half", "closed", "reset"}, PeerEnds(c, s, how)
      PROVE  ForwarderInv'
  <2> DEFINE p == [peer[c][s] EXCEPT !.end = how]
  <2>1. p \in Peers /\ p.sent = peer[c][s].sent /\ p.read = peer[c][s].read /\ p.end = how
    BY <1>1, <1>5 DEF Peers
  <2>2. /\ peer' \in [Conns -> [Sides -> Peers]]
        /\ \A e \in Conns, x \in Sides :
              peer'[e][x] = IF e = c /\ x = s THEN p ELSE peer[e][x]
    BY <1>1, <1>5, <2>1 DEF PeerEnds
  <2>3. broken' = IF how = "reset" THEN broken \cup {c} ELSE broken
    BY <1>5 DEF PeerEnds
  <2> HIDE DEF p
  <2>4. Counted'
    BY <1>2, <2>1, <2>2 DEF Counted
  <2>5. Streams'
    BY <1>2, <2>1, <2>2, <2>3 DEF Streams, StreamOK
  <2>6. ForwarderTypeOK'
    BY <1>2, <2>2, <2>3 DEF ForwarderTypeOK, Peers
  <2> QED BY <1>3, <2>4, <2>5, <2>6
<1>6. CASE PeerReads(c, s)
  <2> DEFINE p == [peer[c][s] EXCEPT !.read = @ + 1]
  <2>0. given[c][Other(s)] \in 0 .. Chunks
    BY DEF ForwarderTypeOK, Other, Sides
  <2>1. /\ p \in Peers /\ p.sent = peer[c][s].sent /\ p.end = peer[c][s].end
        /\ p.read <= given[c][Other(s)]
    BY <1>1, <1>6, <2>0, ForwarderAssumption DEF PeerReads, Peers
  <2>2. /\ peer' \in [Conns -> [Sides -> Peers]]
        /\ \A e \in Conns, x \in Sides :
              peer'[e][x] = IF e = c /\ x = s THEN p ELSE peer[e][x]
    BY <1>1, <1>6, <2>1 DEF PeerReads
  <2>3. broken' = broken
    BY <1>6 DEF PeerReads
  <2> HIDE DEF p
  <2>4. Counted'
    BY <1>2, <2>1, <2>2 DEF Counted
  <2>5. Streams'
    BY <1>2, <2>1, <2>2, <2>3 DEF Streams, StreamOK
  <2>6. ForwarderTypeOK'
    BY <1>2, <2>2, <2>3 DEF ForwarderTypeOK, Peers
  <2> QED BY <1>3, <2>4, <2>5, <2>6
<1> QED BY <1>4, <1>5, <1>6

LEMMA ForwarderInvariant == ForwarderSpec => []ForwarderInv
<1>1. ForwarderInv /\ [ForwarderNext]_forwarderVars => ForwarderInv'
  <2> SUFFICES ASSUME ForwarderInv, [ForwarderNext]_forwarderVars PROVE ForwarderInv'
    OBVIOUS
  <2>1. CASE UNCHANGED forwarderVars
    BY <2>1 DEF forwarderVars, ForwarderInv, ForwarderTypeOK, Counted, SetUp, Streams, StreamOK
  <2> QED BY <2>1, ServerStep, FramesStep, ConnStep, PeerStep, ForwardStep DEF ForwarderNext
<1> QED BY <1>1, InitEstablishesForwarder, PTL DEF ForwarderSpec

-----------------------------------------------------------------------------
(* The theorems *)

(* The forwarder's state keeps its type; in particular no more chunks are  *)
(* passed on than a peer sends.                                            *)
THEOREM ForwarderTypeCorrect == ForwarderSpec => []ForwarderTypeOK
BY ForwarderInvariant, PTL DEF ForwarderInv

(* Two threads that share their sockets, each of which closes both when a  *)
(* call raises, never cut each other's stream short: unless a peer broke   *)
(* the connection, the end of a stream is passed on after all of it.       *)
THEOREM StreamsAreWhole == ForwarderSpec => []NothingIsCutShort
<1>1. ForwarderInv => NothingIsCutShort
  BY DEF ForwarderInv, Streams, StreamOK, NothingIsCutShort, SeesEnd, Other, Sides
<1> QED BY <1>1, ForwarderInvariant, PTL

=============================================================================
