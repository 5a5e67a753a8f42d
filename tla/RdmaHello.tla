----------------------------- MODULE RdmaHello -----------------------------
(***************************************************************************)
(* The one-shot RDMA "hello" of src/scripts/network/RDMA_server_v2.c and   *)
(* its Coyote peer sw/examples/rdma_receiver/main.cpp.                     *)
(*                                                                         *)
(* The server creates its verbs resources one by one, listens on TCP port  *)
(* 18488, swaps queue-pair metadata with the receiver (qpid, a 1-byte ack, *)
(* then one ibvQ each way), moves its QP to RTR and RTS, posts one 64-byte *)
(* RDMA WRITE into the receiver's buffer, polls the completion queue once  *)
(* and tears everything down at the label end.  The receiver               *)
(* (exchangeQpSlave) connects, sends its qpid and ibvQ, reads the          *)
(* server's, fills its buffer with ones, waits for ibvDone() >= 1 and      *)
(* prints the buffer as a C string.  The NIC executes the posted WRITE.    *)
(*                                                                         *)
(* Data is abstracted to what tells outcomes apart: an ibvQ is its PSN and *)
(* rkey, and the receiver's buffer is a function from 8-byte words to      *)
(* "nul" (untouched), "one" (the fill) or "msg" (message).               *)
(***************************************************************************)
EXTENDS Naturals, Sequences, FiniteSets

CONSTANTS
  Psns,        \* PSNs the receiver may advertise
  RKey,        \* the rkey of the receiver's buffer
  FillWords,   \* max_size / 64 of the receiver: words its fill loop writes
  MayFail,     \* a verbs or socket call of the server may fail
  ShortReads,  \* a TCP read may return fewer bytes than asked for
  NULL

ASSUME /\ Psns \subseteq Nat /\ Psns # {}
       /\ FillWords \in Nat
       /\ {MayFail, ShortReads} \subseteq BOOLEAN

(* The message is hMem[0..63]: eight words.  One more word lies past the   *)
(* longer of message and fill, where the printed string must end.          *)
MsgWords == 8
Words == 0 .. (IF FillWords > MsgWords THEN FillWords ELSE MsgWords)

(* Lines 117-230 create, in this order, each checked by a goto end.        *)
Resources == <<"dev_list", "context", "pd", "buf", "mr", "comp_channel",
               "comp_queue", "qp", "qp_init">>
(* Lines 244-275: socket, setsockopt(SO_REUSEADDR), bind.                  *)
SocketSteps == <<"sockfd", "reuseaddr", "bind">>

VARIABLES
  srv,        \* server: [pc, k] with k the index into Resources/SocketSteps
  created,    \* verbs resources the server has created
  listening,  \* the server socket accepts connections
  conn,       \* [srv, rcv]: "none", "open" or "closed" end of the connection
  toSrv,      \* bytes in flight to the server, as messages
  toRcv,      \* bytes in flight to the receiver, as messages
  remote,     \* remote_ibvQ: the receiver's ibvQ as the server read it
  qp,         \* state of the server's QP
  sq_psn,     \* attr.sq_psn set by the RTS transition
  sq,         \* WRITEs posted to the server's send queue
  cq,         \* completion statuses in the server's completion queue
  ack,        \* what the server printed after ibv_poll_cq
  rcv,        \* receiver: [pc, i] with i the fill loop index
  rinfo,      \* the ibvQ the receiver advertised
  peer,       \* the server's ibvQ as the receiver read it
  rready,     \* the receiver's QP accepts requests
  hMem,       \* the receiver's buffer
  rdone,      \* the receiver's ibvDone() counter
  received    \* what the receiver printed, as a sequence of words

vars == <<srv, created, listening, conn, toSrv, toRcv, remote, qp, sq_psn, sq,
          cq, ack, rcv, rinfo, peer, rready, hMem, rdone, received>>
srvVars == <<srv, created, listening, remote, qp, sq_psn, ack>>
rcvVars == <<rcv, rinfo, peer, rready, received>>
netVars == <<conn, toSrv, toRcv>>
nicVars == <<sq, cq, hMem, rdone>>

IbvQ == [psn : Psns, rkey : {RKey, "srv"}]
Msg  == {[t |-> "qpid"], [t |-> "ack"]} \cup [t : {"ibvq"}, q : IbvQ]
SrvPcs == {"setup", "socket", "listen", "accept", "rd_qpid", "wr_ack",
           "rd_ibvq", "wr_ibvq", "gid", "rtr", "rts", "post", "poll",
           "end", "exit"}
RcvPcs == {"connect", "rd_ack", "rd_ibvq", "fill", "wait", "print", "done",
           "thrown"}
Ends == {"none", "open", "closed"}

TypeOK ==
  /\ srv \in [pc : SrvPcs, k : 1 .. Len(Resources)]
  /\ created \subseteq {Resources[j] : j \in 1 .. Len(Resources)}
  /\ listening \in BOOLEAN
  /\ conn \in [srv : Ends, rcv : Ends]
  /\ toSrv \in Seq(Msg) /\ toRcv \in Seq(Msg)
  /\ remote \in IbvQ \cup {NULL}
  /\ qp \in {"none", "reset", "init", "rtr", "rts", "destroyed"}
  /\ sq_psn \in Psns \cup {0}
  /\ sq \in Seq([psn : Psns \cup {0}, rkey : {RKey, "srv"}])
  /\ cq \in Seq({"success", "nak", "retry_exc"})
  /\ ack \in {"none", "acked", "failed"}
  /\ rcv \in [pc : RcvPcs, i : 0 .. FillWords]
  /\ rinfo \in IbvQ \cup {NULL}
  /\ peer \in IbvQ \cup {NULL}
  /\ rready \in BOOLEAN
  /\ hMem \in [Words -> {"nul", "one", "msg"}]
  /\ rdone \in 0 .. 1
  /\ received \in Seq({"one", "msg"})

Init ==
  /\ srv = [pc |-> "setup", k |-> 1]
  /\ created = {}
  /\ listening = FALSE
  /\ conn = [srv |-> "none", rcv |-> "none"]
  /\ toSrv = <<>> /\ toRcv = <<>>
  /\ remote = NULL
  /\ qp = "none"
  /\ sq_psn = 0
  /\ sq = <<>> /\ cq = <<>>
  /\ ack = "none"
  /\ rcv = [pc |-> "connect", i |-> 0]
  /\ rinfo = NULL /\ peer = NULL
  /\ rready = FALSE
  /\ hMem = [w \in Words |-> "nul"]
  /\ rdone = 0
  /\ received = <<>>

-----------------------------------------------------------------------------
(* The server.  Every failing call jumps to end (goto end).                *)
Goto(pc) == srv' = [srv EXCEPT !.pc = pc, !.k = 1]

(* Lines 117-230: one resource per step; qp_init moves the new QP to INIT. *)
srv_setup ==
  /\ srv.pc = "setup"
  /\ \/ /\ created' = created \cup {Resources[srv.k]}
        /\ qp' = CASE Resources[srv.k] = "qp"      -> "reset"
                   [] Resources[srv.k] = "qp_init" -> "init"
                   [] OTHER                        -> qp
        /\ IF srv.k = Len(Resources) THEN Goto("socket")
                                     ELSE srv' = [srv EXCEPT !.k = @ + 1]
     \/ /\ MayFail
        /\ Goto("end")
        /\ UNCHANGED <<created, qp>>
  /\ UNCHANGED <<listening, remote, sq_psn, ack, rcvVars, netVars, nicVars>>

(* Lines 244-275: socket, SO_REUSEADDR and bind, each checked.             *)
srv_socket ==
  /\ srv.pc = "socket"
  /\ \/ IF srv.k = Len(SocketSteps) THEN Goto("listen")
                                    ELSE srv' = [srv EXCEPT !.k = @ + 1]
     \/ MayFail /\ Goto("end")
  /\ UNCHANGED <<created, listening, remote, qp, sq_psn, ack, rcvVars,
                 netVars, nicVars>>

(* Lines 277-287: the check of sockfd < 0 cannot fail here, and the result *)
(* of listen is not checked.                                               *)
srv_listen ==
  /\ srv.pc = "listen"
  /\ listening' = TRUE
  /\ Goto("accept")
  /\ UNCHANGED <<created, remote, qp, sq_psn, ack, rcvVars, netVars, nicVars>>

(* Lines 289-298: accept blocks until a connection is pending.             *)
srv_accept ==
  /\ srv.pc = "accept"
  /\ conn.rcv # "none" /\ conn.srv = "none"
  /\ \/ conn' = [conn EXCEPT !.srv = "open"] /\ Goto("rd_qpid")
     \/ MayFail /\ Goto("end") /\ UNCHANGED conn
  /\ UNCHANGED <<created, listening, remote, qp, sq_psn, ack, rcvVars, toSrv,
                 toRcv, nicVars>>

(* read(connfd, ..., n) returns when data or the peer's FIN is there; any  *)
(* count but n (a short read, or 0 at end of file) is a failure.           *)
Readable == toSrv # <<>> \/ conn.rcv = "closed"

(* A failed read or write closes connfd and jumps to end (lines 302-397).  *)
srv_io_fail ==
  /\ conn' = [conn EXCEPT !.srv = "closed"]
  /\ Goto("end")

(* Lines 300-311 read the qpid, lines 324-353 the receiver's ibvQ.         *)
srv_read ==
  /\ srv.pc \in {"rd_qpid", "rd_ibvq"}
  /\ Readable
  /\ \/ /\ toSrv # <<>>
        /\ toSrv' = Tail(toSrv)
        /\ IF srv.pc = "rd_qpid"
           THEN Goto("wr_ack") /\ UNCHANGED remote
           ELSE Goto("wr_ibvq") /\ remote' = Head(toSrv).q
        /\ UNCHANGED conn
     \/ /\ toSrv = <<>> \/ ShortReads
        /\ srv_io_fail
        /\ UNCHANGED <<toSrv, remote>>
  /\ UNCHANGED <<created, listening, qp, sq_psn, ack, rcvVars, toRcv, nicVars>>

(* Lines 356-366: the local ibvQ echoes the receiver's PSN.                *)
LocalPsnNext(r) == r.psn + 1
LocalPsn(r) == r.psn

(* Lines 313-322 write the ack, 385-396 the local ibvQ.  A write to a peer *)
(* that has gone fails (EPIPE).                                            *)
srv_write ==
  /\ srv.pc \in {"wr_ack", "wr_ibvq"}
  /\ \/ /\ conn.rcv = "open"
        /\ toRcv' = Append(toRcv,
                      IF srv.pc = "wr_ack" THEN [t |-> "ack"]
                      ELSE [t |-> "ibvq",
                            q |-> [psn |-> LocalPsn(remote), rkey |-> "srv"]])
        /\ Goto(IF srv.pc = "wr_ack" THEN "rd_ibvq" ELSE "gid")
        /\ UNCHANGED conn
     \/ /\ conn.rcv = "closed"
        /\ srv_io_fail
        /\ UNCHANGED toRcv
  /\ UNCHANGED <<created, listening, remote, qp, sq_psn, ack, rcvVars, toSrv,
                 nicVars>>

(* Lines 445-455: ibv_query_gid is checked.                                *)
srv_gid ==
  /\ srv.pc = "gid"
  /\ \/ Goto("rtr")
     \/ MayFail /\ Goto("end")
  /\ UNCHANGED <<created, listening, remote, qp, sq_psn, ack, rcvVars, netVars,
                 nicVars>>

(* Lines 399-503: the RTR and RTS transitions.  Their errors are printed   *)
(* and ignored (the goto end is commented out); RTS from any state but     *)
(* RTR fails.  attr.sq_psn is the PSN read from the receiver.              *)
SqPsnZero(r) == 0
SqPsn(r) == r.psn

srv_rtr ==
  /\ srv.pc = "rtr"
  /\ \/ qp' = "rtr"
     \/ MayFail /\ UNCHANGED qp
  /\ Goto("rts")
  /\ UNCHANGED <<created, listening, remote, sq_psn, ack, rcvVars, netVars,
                 nicVars>>

srv_rts ==
  /\ srv.pc = "rts"
  /\ \/ qp = "rtr" /\ qp' = "rts" /\ sq_psn' = SqPsn(remote)
     \/ (qp # "rtr" \/ MayFail) /\ UNCHANGED <<qp, sq_psn>>
  /\ Goto("post")
  /\ UNCHANGED <<created, listening, remote, ack, rcvVars, netVars, nicVars>>

(* Lines 505-649: the message is written to the server's buffer, the WR   *)
(* targets remote_ibvQ's vaddr and rkey, and ibv_post_send's result is    *)
(* ignored: on a QP not in RTS nothing is posted.                          *)
srv_post ==
  /\ srv.pc = "post"
  /\ sq' = IF qp = "rts" THEN Append(sq, [psn |-> sq_psn, rkey |-> remote.rkey])
                         ELSE sq
  /\ Goto("poll")
  /\ UNCHANGED <<created, listening, remote, qp, sq_psn, ack, rcvVars, netVars,
                 cq, hMem, rdone>>

(* Lines 651-660: ibv_poll_cq is called once and does not wait.  When it  *)
(* returns no completion, wc is uninitialized and wc.status may read as    *)
(* IBV_WC_SUCCESS or as anything else.  Its return value n is not looked  *)
(* at, so there is no loop.                                                *)
PollUntilOne(n) == n = 0
PollAgain(n) == FALSE

srv_poll ==
  /\ srv.pc = "poll"
  /\ ~PollAgain(IF cq = <<>> THEN 0 ELSE 1)
  /\ \/ /\ cq # <<>>
        /\ cq' = Tail(cq)
        /\ ack' = IF Head(cq) = "success" THEN "acked" ELSE "failed"
     \/ /\ cq = <<>>
        /\ ack' \in {"acked", "failed"}
        /\ UNCHANGED cq
  /\ Goto("end")
  /\ UNCHANGED <<created, listening, remote, qp, sq_psn, rcvVars, netVars, sq,
                 hMem, rdone>>

(* Lines 669-697: end frees and destroys every handle and closes connfd,   *)
(* whatever was created.  Destroying the QP flushes a WRITE not yet        *)
(* executed; the process exits (on the invalid free of *buf at 677 it    *)
(* aborts, with the same effect on the peer).                              *)
srv_end ==
  /\ srv.pc = "end"
  /\ qp' = IF "qp" \in created THEN "destroyed" ELSE qp
  /\ sq' = <<>>
  /\ listening' = FALSE
  /\ conn' = [conn EXCEPT !.srv = IF @ = "none" THEN "none" ELSE "closed"]
  /\ Goto("exit")
  /\ UNCHANGED <<created, remote, sq_psn, ack, rcvVars, toSrv, toRcv, cq, hMem,
                 rdone>>

-----------------------------------------------------------------------------
(* The receiver.  exchangeQpSlave (ibvQpMap, not part of this repository)  *)
(* is modelled after the protocol RDMA_server_v2.c expects of it.          *)
RcvExit == /\ conn' = [conn EXCEPT !.rcv = "closed"]
           /\ rready' = FALSE

(* main.cpp 118-121: connect to port 18488 and send the qpid; a refused    *)
(* connection throws.                                                      *)
rcv_connect ==
  /\ rcv.pc = "connect"
  /\ \/ /\ listening
        /\ conn' = [conn EXCEPT !.rcv = "open"]
        /\ toSrv' = Append(toSrv, [t |-> "qpid"])
        /\ rcv' = [rcv EXCEPT !.pc = "rd_ack"]
        /\ UNCHANGED rready
     \/ /\ ~listening
        /\ RcvExit
        /\ rcv' = [rcv EXCEPT !.pc = "thrown"]
        /\ UNCHANGED toSrv
  /\ UNCHANGED <<srvVars, rinfo, peer, received, toRcv, nicVars>>

(* Read the ack and send the local ibvQ; read the server's ibvQ and bring  *)
(* the QP up with it.  End of file on either read throws.                  *)
rcv_read ==
  /\ rcv.pc \in {"rd_ack", "rd_ibvq"}
  /\ toRcv # <<>> \/ conn.srv = "closed"
  /\ \/ /\ toRcv # <<>>
        /\ toRcv' = Tail(toRcv)
        /\ IF rcv.pc = "rd_ack"
           THEN \E p \in Psns :
                  /\ rinfo' = [psn |-> p, rkey |-> RKey]
                  /\ toSrv' = Append(toSrv, [t |-> "ibvq", q |-> rinfo'])
                  /\ rcv' = [rcv EXCEPT !.pc = "rd_ibvq"]
                  /\ UNCHANGED <<peer, rready>>
           ELSE /\ peer' = Head(toRcv).q
                /\ rready' = TRUE
                /\ rcv' = [rcv EXCEPT !.pc = "fill"]
                /\ UNCHANGED <<rinfo, toSrv>>
        /\ UNCHANGED conn
     \/ /\ toRcv = <<>>
        /\ RcvExit
        /\ rcv' = [rcv EXCEPT !.pc = "thrown"]
        /\ UNCHANGED <<toRcv, toSrv, rinfo, peer>>
  /\ UNCHANGED <<srvVars, received, nicVars>>

(* main.cpp 145-150: hMem[i*8+j] = 1 for i < max_size/64, one word per i. *)
rcv_fill ==
  /\ rcv.pc = "fill"
  /\ IF rcv.i < FillWords
     THEN /\ hMem' = [hMem EXCEPT ![rcv.i] = "one"]
          /\ rcv' = [rcv EXCEPT !.i = @ + 1]
     ELSE /\ rcv' = [rcv EXCEPT !.pc = "wait"]
          /\ UNCHANGED hMem
  /\ UNCHANGED <<srvVars, rinfo, peer, rready, received, netVars, sq, cq, rdone>>

(* main.cpp 154: spin until ibvDone() >= 1, throwing on SIGINT.            *)
rcv_wait ==
  /\ rcv.pc = "wait"
  /\ rdone >= 1
  /\ rcv' = [rcv EXCEPT !.pc = "print"]
  /\ UNCHANGED <<srvVars, rinfo, peer, rready, received, netVars, nicVars>>

rcv_sigint ==
  /\ rcv.pc = "wait"
  /\ RcvExit
  /\ rcv' = [rcv EXCEPT !.pc = "thrown"]
  /\ UNCHANGED <<srvVars, rinfo, peer, received, toSrv, toRcv, nicVars>>

(* main.cpp 156-174: string(hMem) stops at the first zero byte; main       *)
(* returns and the process exits.                                          *)
RECURSIVE CString(_)
CString(w) == IF w \notin Words \/ hMem[w] = "nul" THEN <<>>
              ELSE <<hMem[w]>> \o CString(w + 1)

rcv_print ==
  /\ rcv.pc = "print"
  /\ received' = CString(0)
  /\ RcvExit
  /\ rcv' = [rcv EXCEPT !.pc = "done"]
  /\ UNCHANGED <<srvVars, rinfo, peer, toSrv, toRcv, nicVars>>

-----------------------------------------------------------------------------
(* The NICs.  The receiver's QP checks the PSN it expects (the one the     *)
(* server advertised) and the rkey; a match writes the message and counts  *)
(* ibvDone, a mismatch is NAKed.  While the receiver's QP is not up the    *)
(* server's NIC retries; once the receiver is gone it gives up.            *)
MessageAt(m) == [w \in Words |-> IF w < MsgWords THEN "msg" ELSE m[w]]

nic_execute ==
  /\ sq # <<>> /\ qp = "rts" /\ rready
  /\ LET w == Head(sq) IN
     IF w.psn = peer.psn /\ w.rkey = rinfo.rkey
     THEN /\ hMem' = MessageAt(hMem)
          /\ rdone' = rdone + 1
          /\ cq' = Append(cq, "success")
     ELSE /\ cq' = Append(cq, "nak")
          /\ UNCHANGED <<hMem, rdone>>
  /\ sq' = Tail(sq)
  /\ UNCHANGED <<srvVars, rcvVars, netVars>>

nic_retry_exceeded ==
  /\ sq # <<>> /\ qp = "rts" /\ ~rready
  /\ rcv.pc \in {"done", "thrown"}
  /\ sq' = Tail(sq)
  /\ cq' = Append(cq, "retry_exc")
  /\ UNCHANGED <<srvVars, rcvVars, netVars, hMem, rdone>>

-----------------------------------------------------------------------------
Server == srv_setup \/ srv_socket \/ srv_listen \/ srv_accept \/ srv_read
          \/ srv_write \/ srv_gid \/ srv_rtr \/ srv_rts \/ srv_post
          \/ srv_poll \/ srv_end
Receiver == rcv_connect \/ rcv_read \/ rcv_fill \/ rcv_wait \/ rcv_print
NIC == nic_execute \/ nic_retry_exceeded

Next == Server \/ Receiver \/ rcv_sigint \/ NIC

(* Both processes run to their next blocking call, and the NIC executes    *)
(* what is posted; a SIGINT is the user's choice, so it has no fairness.   *)
Spec == Init /\ [][Next]_vars /\ WF_vars(Server) /\ WF_vars(Receiver)
        /\ WF_vars(NIC)

-----------------------------------------------------------------------------
(* Every RDMA WRITE the NIC executes carries the PSN the receiver's QP     *)
(* expects (the one the server advertised in its ibvQ) and the rkey of the *)
(* receiver's buffer: the metadata the TCP handshake swapped agrees at     *)
(* both ends (lines 356-366 and 489-491 against exchangeQpSlave).          *)
WriteAccepted ==
  [][nic_execute => /\ Head(sq).psn = peer.psn
                    /\ Head(sq).rkey = rinfo.rkey]_vars

(* Once the server has accepted the receiver's connection it always gets   *)
(* to the end of main: no read, write, QP transition or poll of lines      *)
(* 300-697 waits forever, even when the receiver has gone or a verbs call  *)
(* failed.                                                                 *)
ServerEnds == conn.srv = "open" ~> srv.pc = "exit"

(* The server prints "Message was ACKed!" (line 656) only if its WRITE has *)
(* been executed at the receiver, the message written and ibvDone raised.  *)
AckMeansDelivered == ack = "acked" => rdone = 1

====
