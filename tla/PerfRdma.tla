------------------------------ MODULE PerfRdma ------------------------------
(***************************************************************************)
(* The master/server RDMA ping-pong benchmark of                           *)
(* sw/examples/perf_rdma/main.cpp.  Two processes, the master ("mstr",     *)
(* started without -t) and the server ("srv"), run the same size loop      *)
(* (main.cpp 216-358): per transfer size a throughput phase and a latency  *)
(* phase, separated by ibvClear/ibvSync, then a final ack exchange.        *)
(*                                                                         *)
(* The ibvQpConn library is not part of the repository.  Its calls are     *)
(* modelled by the contract the benchmark relies on:                       *)
(*   ibvPostSend  appends a work request to the queue pair (FIFO);         *)
(*   an RDMA WRITE, once executed, raises ibvDone at the target and,       *)
(*   when its completion returns, ibvSent at the issuer; an RDMA READ,     *)
(*   once executed, raises both counters at the issuer;                    *)
(*   ibvClear     zeroes the two local counters, nothing else;             *)
(*   ibvSync      is a two-party barrier over the TCP side channel.        *)
(* sg.len is an unsigned counter of LenBits bits.                          *)
(***************************************************************************)
EXTENDS Integers, Sequences, SequencesExt

CONSTANTS
    NBenchRuns,     \* n_bench_runs (-b)
    NRepsThr,       \* n_reps_thr   (-r)
    NRepsLat,       \* n_reps_lat   (-l)
    MinSizes,       \* the values of min_size (-n) the model starts with
    MaxSizes,       \* the values of max_size (-x) the model starts with
    LenBits,        \* width of sg.len
    Stall           \* whether SIGINT (gotInt) may be delivered

ASSUME NBenchRuns >= 1 /\ NRepsThr >= 1 /\ NRepsLat >= 1

Nodes == {"mstr", "srv"}
Peer(n) == IF n = "mstr" THEN "srv" ELSE "mstr"
LenMod == 2^LenBits

VARIABLES
    pc,         \* pc[n]: where process n is in main()
    resume,     \* resume[n]: where n continues once its ibvSync returns
    syncs,      \* syncs[n]: number of ibvSync calls n has entered
    done,       \* done[n]: n's ibvDone() counter
    sent,       \* sent[n]: n's ibvSent() counter
    wire,       \* wire[n]: phases of n's posted, not yet executed requests
    acks,       \* acks[n]: phases of n's executed WRITEs whose completion is not back
    cleared,    \* cleared[n]: the phase n's last ibvClear opened
    len,        \* len[n]: n's sg.len
    n_runs,     \* n_runs[n]: the bench run in progress
    i,          \* i[n]: the repetition in progress
    oper,       \* oper (-w): TRUE for RDMA WRITE, FALSE for RDMA READ
    max_size,   \* max_size (-x)
    ackd,       \* the master has called sendAck(1)
    stalled     \* stalled[n]: n's std::atomic<bool> stalled

vars == <<pc, resume, syncs, done, sent, wire, acks, cleared, len, n_runs, i,
          oper, max_size, ackd, stalled>>

Labels == {"setup", "fill", "iter", "sync", "thr_post", "thr_wait", "lat_post", "lat_wait",
           "lat_sent", "rd_sync", "next", "fin", "done", "thrown"}

(* The phase a request is posted in: the number of barriers its issuer has  *)
(* entered.                                                                 *)
Phase(n) == syncs[n]

(* Whose ibvDone counter executing a request of n raises.                  *)
DoneOwner(n) == IF oper THEN Peer(n) ELSE n

Init ==
    /\ \E mn \in MinSizes, mx \in MaxSizes, o \in BOOLEAN :
         /\ len = [n \in Nodes |-> mn]
         /\ max_size = mx
         /\ oper = o
    /\ pc = [n \in Nodes |-> "setup"]
    /\ resume = [n \in Nodes |-> "setup"]
    /\ syncs = [n \in Nodes |-> 0]
    /\ done = [n \in Nodes |-> 0]
    /\ sent = [n \in Nodes |-> 0]
    /\ wire = [n \in Nodes |-> <<>>]
    /\ acks = [n \in Nodes |-> <<>>]
    /\ cleared = [n \in Nodes |-> 0]
    /\ n_runs = [n \in Nodes |-> 0]
    /\ i = [n \in Nodes |-> 0]
    /\ ackd = FALSE
    /\ stalled = [n \in Nodes |-> FALSE]

-----------------------------------------------------------------------------
(* Library calls, as parts of the steps that make them.                    *)

ibvClearKeepsCounters(n) ==
    /\ UNCHANGED <<done, sent>>
    /\ cleared' = [cleared EXCEPT ![n] = syncs[n] + 1]

ibvClear(n) ==
    /\ done' = [done EXCEPT ![n] = 0]
    /\ sent' = [sent EXCEPT ![n] = 0]
    /\ cleared' = [cleared EXCEPT ![n] = syncs[n] + 1]

(* Entering ibvSync: the barrier is left by SyncReturn.                    *)
ibvSync(n, r) ==
    /\ syncs' = [syncs EXCEPT ![n] = syncs[n] + 1]
    /\ pc' = [pc EXCEPT ![n] = "sync"]
    /\ resume' = [resume EXCEPT ![n] = r]

ibvPostSend(n) == wire' = [wire EXCEPT ![n] = Append(wire[n], Phase(n))]

(* sg.len *= 2 on a uint32_t.                                              *)
Double(l) == (l * 2) % LenMod

(* The receive threshold of repetition i of run n_runs in the latency loop *)
(* (main.cpp 269, 310, 325).                                                *)
LatTargetAhead(n) == (i[n] + 1) + n_runs[n] * NRepsLat
LatTarget(n) == (i[n] + 1) + (n_runs[n] - 1) * NRepsLat

ThrTargetShort(n) == NRepsThr * n_runs[n] - 1
ThrTarget(n) == NRepsThr * n_runs[n]

-----------------------------------------------------------------------------
(* Both processes, 118-139: addQpair and exchangeQpMaster / exchangeQpSlave *)
(* swap the queue-pair metadata over TCP, then ibvSync(mstr).  The exchange *)
(* is a rendezvous of the two processes, as the barrier after it is: one    *)
(* barrier entry stands for both.                                          *)
setup(n) ==
    /\ pc[n] = "setup"
    /\ ibvSync(n, "fill")
    /\ UNCHANGED <<done, sent, wire, acks, cleared, len, n_runs, i, oper,
                   max_size, ackd, stalled>>

(* 141-212: the test pattern is written into hMem, the buffer the peer's   *)
(* requests target; only that it has been written is kept.                 *)
fill(n) ==
    /\ pc[n] = "fill"
    /\ pc' = [pc EXCEPT ![n] = "iter"]
    /\ UNCHANGED <<resume, syncs, done, sent, wire, acks, cleared, len,
                   n_runs, i, oper, max_size, ackd, stalled>>

Filled(n) == pc[n] \notin {"setup", "fill"} /\ ~(pc[n] = "sync" /\ resume[n] = "fill")

(* Both processes: the loop test at 216 and, when it holds, the ibvClear   *)
(* and ibvSync at 218-219; the master then starts its throughput runs at   *)
(* 231-237, the server its for loop at 281 or its single sync at 343.      *)
iter(n) ==
    /\ pc[n] = "iter"
    /\ IF len[n] <= max_size
         THEN /\ ibvClear(n)
              /\ ibvSync(n, IF n = "mstr" THEN "thr_post"
                            ELSE IF oper THEN "thr_wait" ELSE "rd_sync")
              /\ n_runs' = [n_runs EXCEPT ![n] = 1]
              /\ i' = [i EXCEPT ![n] = 0]
              /\ UNCHANGED <<wire, acks>>
         ELSE /\ pc' = [pc EXCEPT ![n] = "fin"]
              /\ UNCHANGED <<resume, syncs, done, sent, wire, acks, cleared,
                             n_runs, i>>
    /\ UNCHANGED <<len, oper, max_size, ackd, stalled>>

SyncReturnEarly(n) ==
    /\ pc[n] = "sync"
    /\ syncs[Peer(n)] >= syncs[n] - 1
    /\ pc' = [pc EXCEPT ![n] = resume[n]]
    /\ UNCHANGED <<resume, syncs, done, sent, wire, acks, cleared, len,
                   n_runs, i, oper, max_size, ackd, stalled>>

SyncReturn(n) ==
    /\ pc[n] = "sync"
    /\ syncs[Peer(n)] >= syncs[n]
    /\ pc' = [pc EXCEPT ![n] = resume[n]]
    /\ UNCHANGED <<resume, syncs, done, sent, wire, acks, cleared, len,
                   n_runs, i, oper, max_size, ackd, stalled>>

(* Master, throughput runs (240-243): post n_reps_thr requests.            *)
mstr_thr_post ==
    /\ pc["mstr"] = "thr_post"
    /\ ibvPostSend("mstr")
    /\ i' = [i EXCEPT !["mstr"] = i["mstr"] + 1]
    /\ pc' = [pc EXCEPT !["mstr"] = IF i["mstr"] + 1 = NRepsThr
                                     THEN "thr_wait" ELSE "thr_post"]
    /\ UNCHANGED <<resume, syncs, done, sent, acks, cleared, len, n_runs,
                   oper, max_size, ackd, stalled>>

(* Master, 246 then the next bench run, or the reset at 255-258.           *)
mstr_thr_wait ==
    /\ pc["mstr"] = "thr_wait"
    /\ done["mstr"] >= ThrTarget("mstr")
    /\ IF n_runs["mstr"] < NBenchRuns
         THEN /\ n_runs' = [n_runs EXCEPT !["mstr"] = n_runs["mstr"] + 1]
              /\ i' = [i EXCEPT !["mstr"] = 0]
              /\ pc' = [pc EXCEPT !["mstr"] = "thr_post"]
              /\ UNCHANGED <<resume, syncs, done, sent, cleared>>
         ELSE /\ ibvClear("mstr")
              /\ ibvSync("mstr", "lat_post")
              /\ n_runs' = [n_runs EXCEPT !["mstr"] = 1]
              /\ i' = [i EXCEPT !["mstr"] = 0]
    /\ UNCHANGED <<wire, acks, len, oper, max_size, ackd, stalled>>

(* Master, latency runs (265-270): post one request, wait for its answer.  *)
mstr_lat_post ==
    /\ pc["mstr"] = "lat_post"
    /\ ibvPostSend("mstr")
    /\ pc' = [pc EXCEPT !["mstr"] = "lat_wait"]
    /\ UNCHANGED <<resume, syncs, done, sent, acks, cleared, len, n_runs, i,
                   oper, max_size, ackd, stalled>>

(* Advance the repetition, the run, or leave the phase for "next".         *)
NextRep(n, loop) ==
    IF i[n] + 1 < NRepsLat
      THEN /\ i' = [i EXCEPT ![n] = i[n] + 1]
           /\ pc' = [pc EXCEPT ![n] = loop]
           /\ UNCHANGED n_runs
    ELSE IF n_runs[n] < NBenchRuns
      THEN /\ i' = [i EXCEPT ![n] = 0]
           /\ n_runs' = [n_runs EXCEPT ![n] = n_runs[n] + 1]
           /\ pc' = [pc EXCEPT ![n] = loop]
      ELSE /\ pc' = [pc EXCEPT ![n] = "next"]
           /\ UNCHANGED <<i, n_runs>>

mstr_lat_wait ==
    /\ pc["mstr"] = "lat_wait"
    /\ done["mstr"] >= LatTarget("mstr")
    /\ NextRep("mstr", "lat_post")
    /\ UNCHANGED <<resume, syncs, done, sent, wire, acks, cleared, len,
                   oper, max_size, ackd, stalled>>

(* Server, write mode, throughput runs (281-294): wait for the master's    *)
(* requests, then send as many back.                                       *)
srv_thr_wait ==
    /\ pc["srv"] = "thr_wait"
    /\ done["srv"] >= ThrTarget("srv")
    /\ pc' = [pc EXCEPT !["srv"] = "thr_post"]
    /\ i' = [i EXCEPT !["srv"] = 0]
    /\ UNCHANGED <<resume, syncs, done, sent, wire, acks, cleared, len,
                   n_runs, oper, max_size, ackd, stalled>>

(* 289-293, then the next run or the reset at 298-300.                     *)
srv_thr_post ==
    /\ pc["srv"] = "thr_post"
    /\ ibvPostSend("srv")
    /\ IF i["srv"] + 1 < NRepsThr
         THEN /\ i' = [i EXCEPT !["srv"] = i["srv"] + 1]
              /\ UNCHANGED <<pc, resume, syncs, done, sent, cleared, n_runs>>
       ELSE IF n_runs["srv"] < NBenchRuns
         THEN /\ n_runs' = [n_runs EXCEPT !["srv"] = n_runs["srv"] + 1]
              /\ pc' = [pc EXCEPT !["srv"] = "thr_wait"]
              /\ UNCHANGED <<i, resume, syncs, done, sent, cleared>>
         ELSE /\ ibvClear("srv")
              /\ ibvSync("srv", "lat_wait")
              /\ n_runs' = [n_runs EXCEPT !["srv"] = 1]
              /\ i' = [i EXCEPT !["srv"] = 0]
    /\ UNCHANGED <<acks, len, oper, max_size, ackd, stalled>>

(* Server, latency runs (303-338): wait for the request (310), answer it   *)
(* (322) and wait until the answer has completed (325).                    *)
srv_lat_wait ==
    /\ pc["srv"] = "lat_wait"
    /\ done["srv"] >= LatTarget("srv")
    /\ pc' = [pc EXCEPT !["srv"] = "lat_post"]
    /\ UNCHANGED <<resume, syncs, done, sent, wire, acks, cleared, len,
                   n_runs, i, oper, max_size, ackd, stalled>>

srv_lat_post ==
    /\ pc["srv"] = "lat_post"
    /\ ibvPostSend("srv")
    /\ pc' = [pc EXCEPT !["srv"] = "lat_sent"]
    /\ UNCHANGED <<resume, syncs, done, sent, acks, cleared, len, n_runs, i,
                   oper, max_size, ackd, stalled>>

srv_lat_sent ==
    /\ pc["srv"] = "lat_sent"
    /\ sent["srv"] >= LatTarget("srv")
    /\ NextRep("srv", "lat_wait")
    /\ UNCHANGED <<resume, syncs, done, sent, wire, acks, cleared, len,
                   oper, max_size, ackd, stalled>>

(* Server, read mode: the single ibvSync at 343.                           *)
srv_rd_sync ==
    /\ pc["srv"] = "rd_sync"
    /\ ibvSync("srv", "next")
    /\ UNCHANGED <<done, sent, wire, acks, cleared, len, n_runs, i, oper,
                   max_size, ackd, stalled>>

(* Both: sg.len *= 2 (357) and back to the loop test.                      *)
next(n) ==
    /\ pc[n] = "next"
    /\ len' = [len EXCEPT ![n] = Double(len[n])]
    /\ pc' = [pc EXCEPT ![n] = "iter"]
    /\ UNCHANGED <<resume, syncs, done, sent, wire, acks, cleared, n_runs, i,
                   oper, max_size, ackd, stalled>>

(* 363-369: the master sends the final ack and closes; the server blocks   *)
(* in readAck until it arrives, then closes.                               *)
fin(n) ==
    /\ pc[n] = "fin"
    /\ n = "srv" => ackd
    /\ ackd' = (ackd \/ n = "mstr")
    /\ pc' = [pc EXCEPT ![n] = "done"]
    /\ UNCHANGED <<resume, syncs, done, sent, wire, acks, cleared, len,
                   n_runs, i, oper, max_size, stalled>>

(* The conditions the spin loops wait for (246, 269, 285, 310, 325).       *)
WaitDone(n) ==
    CASE pc[n] = "thr_wait" -> done[n] >= ThrTarget(n)
      [] pc[n] = "lat_wait" -> done[n] >= LatTarget(n)
      [] pc[n] = "lat_sent" -> sent[n] >= LatTarget(n)

(* One more turn of a spin loop whose condition does not hold yet.  The   *)
(* loop reads counters only, so the turn changes no state.                 *)
spin(n) ==
    /\ pc[n] \in {"thr_wait", "lat_wait", "lat_sent"}
    /\ ~WaitDone(n)
    /\ UNCHANGED vars

(* gotInt (32-34): SIGINT sets stalled.  The flag is read only in the spin *)
(* loops, so a signal is delivered while the process spins: one delivered  *)
(* earlier has the same effect.                                            *)
gotInt(n) ==
    /\ Stall
    /\ ~stalled[n]
    /\ pc[n] \in {"thr_wait", "lat_wait", "lat_sent"}
    /\ stalled' = [stalled EXCEPT ![n] = TRUE]
    /\ UNCHANGED <<pc, resume, syncs, done, sent, wire, acks, cleared, len,
                   n_runs, i, oper, max_size, ackd>>

(* A spin loop that tests stalled (246, 269, 285, 331) throws while its    *)
(* condition does not hold yet.  The server's loop at 310 does not test it.*)
StallableWaits == {<<"mstr", "thr_wait">>, <<"mstr", "lat_wait">>,
                   <<"srv", "thr_wait">>, <<"srv", "lat_sent">>}

throw(n) ==
    /\ stalled[n]
    /\ <<n, pc[n]>> \in StallableWaits
    /\ ~WaitDone(n)
    /\ pc' = [pc EXCEPT ![n] = "thrown"]
    /\ UNCHANGED <<resume, syncs, done, sent, wire, acks, cleared, len,
                   n_runs, i, oper, max_size, ackd, stalled>>

(* A process blocked on the TCP side channel, in ibvSync or in readAck    *)
(* (368), whose peer has exited: the peer's socket is closed, the read      *)
(* fails and the library call throws.                                      *)
peer_gone(n) ==
    /\ pc[n] \in {"sync", "fin"}
    /\ pc[Peer(n)] = "thrown"
    /\ pc' = [pc EXCEPT ![n] = "thrown"]
    /\ UNCHANGED <<resume, syncs, done, sent, wire, acks, cleared, len,
                   n_runs, i, oper, max_size, ackd, stalled>>

-----------------------------------------------------------------------------
(* The NIC: execute the oldest request of n's queue pair.                  *)
execute(n) ==
    /\ wire[n] # <<>>
    /\ wire' = [wire EXCEPT ![n] = Tail(wire[n])]
    /\ IF oper
         THEN /\ done' = [done EXCEPT ![Peer(n)] = done[Peer(n)] + 1]
              /\ acks' = [acks EXCEPT ![n] = Append(acks[n], Head(wire[n]))]
              /\ UNCHANGED sent
         ELSE /\ done' = [done EXCEPT ![n] = done[n] + 1]
              /\ sent' = [sent EXCEPT ![n] = sent[n] + 1]
              /\ UNCHANGED acks
    /\ UNCHANGED <<pc, resume, syncs, cleared, len, n_runs, i, oper,
                   max_size, ackd, stalled>>

(* The completion of an executed WRITE reaches its issuer.                 *)
complete(n) ==
    /\ acks[n] # <<>>
    /\ acks' = [acks EXCEPT ![n] = Tail(acks[n])]
    /\ sent' = [sent EXCEPT ![n] = sent[n] + 1]
    /\ UNCHANGED <<pc, resume, syncs, done, wire, cleared, len, n_runs, i,
                   oper, max_size, ackd, stalled>>

Finished == \A n \in Nodes : pc[n] \in {"done", "thrown"}

Process(n) ==
    \/ setup(n) \/ fill(n) \/ iter(n) \/ SyncReturn(n) \/ next(n) \/ fin(n)

Next ==
    \/ \E n \in Nodes : \/ Process(n) \/ spin(n) \/ gotInt(n) \/ throw(n)
                       \/ peer_gone(n)
                       \/ execute(n) \/ complete(n)
    \/ mstr_thr_post \/ mstr_thr_wait \/ mstr_lat_post \/ mstr_lat_wait
    \/ srv_thr_wait \/ srv_thr_post \/ srv_lat_wait \/ srv_lat_post
    \/ srv_lat_sent \/ srv_rd_sync
    \/ (Finished /\ UNCHANGED vars)

(* Each process keeps running, and the NIC executes what is posted.        *)
ProcessSteps(n) ==
    \/ Process(n)
    \/ throw(n)
    \/ peer_gone(n)
    \/ IF n = "mstr"
         THEN mstr_thr_post \/ mstr_thr_wait \/ mstr_lat_post \/ mstr_lat_wait
         ELSE srv_thr_wait \/ srv_thr_post \/ srv_lat_wait \/ srv_lat_post
              \/ srv_lat_sent \/ srv_rd_sync

Fairness == \A n \in Nodes : /\ WF_vars(ProcessSteps(n))
                             /\ WF_vars(execute(n))
                             /\ WF_vars(complete(n))

Spec == Init /\ [][Next]_vars /\ Fairness

-----------------------------------------------------------------------------
(* Properties.                                                             *)

MaxReps == IF NRepsThr > NRepsLat THEN NRepsThr ELSE NRepsLat
MaxCount == NBenchRuns * MaxReps

TypeOK ==
    /\ pc \in [Nodes -> Labels]
    /\ resume \in [Nodes -> Labels]
    /\ syncs \in [Nodes -> Nat]
    /\ done \in [Nodes -> 0..MaxCount]
    /\ sent \in [Nodes -> Nat]
    /\ wire \in [Nodes -> Seq(Nat)]
    /\ acks \in [Nodes -> Seq(Nat)]
    /\ len \in [Nodes -> 0..(LenMod - 1)]
    /\ n_runs \in [Nodes -> 0..NBenchRuns]
    /\ i \in [Nodes -> 0..MaxReps]
    /\ oper \in BOOLEAN /\ ackd \in BOOLEAN
    /\ stalled \in [Nodes -> BOOLEAN]

(* ibvDone counts only requests of the current phase: no request is still  *)
(* on the wire when the process whose ibvDone it will raise has already    *)
(* run the ibvClear (218, 255, 298) of a later phase.  The benchmark's     *)
(* waits at 246, 269, 285 and 310 rely on it: a late request of the        *)
(* previous phase would release a wait of the next one early.              *)
NoStaleDone ==
    \A n \in Nodes : \A k \in Range(wire[n]) : cleared[DoneOwner(n)] <= k

(* The barriers at 139 and 219 keep every RDMA request of a process off    *)
(* the peer's hMem until the peer has written its pattern (141-212): a     *)
(* WRITE landing earlier would be overwritten by the fill, a READ would    *)
(* fetch a buffer not yet filled.                                          *)
PeerFilledFirst == \A n \in Nodes : wire[n] # <<>> => Filled(Peer(n))

(* The benchmark terminates: unless a SIGINT is delivered, both processes  *)
(* reach the end of main (371).                                            *)
BenchTerminates ==
    [](\A n \in Nodes : ~stalled[n]) => <>(\A n \in Nodes : pc[n] = "done")

(* A SIGINT ends the process that receives it: gotInt only sets stalled,   *)
(* so the process must come to a loop that tests the flag, or finish.      *)
SignalEnds ==
    \A n \in Nodes : stalled[n] ~> pc[n] \in {"done", "thrown"}

=============================================================================
