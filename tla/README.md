# TLA+ models of the Coyote GUP memory manager, the perf_rdma benchmark and the RDMA hello

This directory holds TLA+ models of the demand-paged unified-memory manager in
`src/artifacts/coyote-experiments/driver/fpga_gup.c`. That driver code lets an
FPGA vFPGA work directly on the virtual memory of a host process. A second
model covers the master/server protocol of the RDMA benchmark
`sw/examples/perf_rdma/main.cpp`. A third model composes the queue-pair
handshake server `src/scripts/network/RDMA_server_v2.c` with its Coyote peer
`sw/examples/rdma_receiver/main.cpp`. The models are checked with TLC. `PROJECT.json` lists:

- every component;
- every run and what it checks;
- the mutants that show each property can fail;
- the source lines behind every definition;
- the findings;
- the hazards of the code.

## 1. Inventory of the system

| Part | Source | What it does |
|---|---|---|
| Region Table | `fpga_gup.c:41` `user_buff_map` | A hash table per vFPGA and per cpid (client context). Each bucket is an hlist of `struct user_pages` regions. `hash_add` inserts at the head. |
| Region Lookup | `map_present` 145-165 | Walks every bucket. It returns a region that contains the fault's start page. Otherwise it clips the fault's page count at the next region start. |
| Page Pinner | `tlb_get_user_pages` 398-495 | Pins host pages with `get_user_pages_remote`. If `en_mem` is set, it also allocates card pages. It then inserts the region, host resident. It has two error exits, `fail_host_unmap` and `fail_card_unmap`. |
| Release | `tlb_put_user_pages` 505-547, `tlb_put_user_pages_cpid` 556-593 | Unmaps, frees the card pages, unpins and deletes one region, or every region of a cpid. |
| TLB Programmer | `tlb_map_gup` 175-217, `tlb_unmap_gup` 226-267 | `tlb_map_gup` sends one map batch, capped at `MAX_N_MAP_PAGES`. `tlb_unmap_gup` sends an unmap batch and one invalidation per page run. Only the last run asks for an acknowledgment. It then blocks on `wait_invldt`. |
| Migration Engine | `migrate_to_card_gup` 275-289, `migrate_to_host_gup` 335-349 | Takes `offload_lock` or `sync_lock`, starts a DMA copy and blocks on `wait_offload` or `wait_sync`. |
| Fault Orchestrator | `mmu_handler_gup` 51-136, `offload_user_gup` 297-326, `sync_user_gup` 358-387 | `mmu_handler_gup` handles a page fault: it maps the region, migrates it then maps it, or pins it, optionally migrates it, then maps it. The other two are user-triggered migrations. |
| Benchmark | `sw/examples/perf_rdma/main.cpp` | RDMA ping-pong benchmark harness, run as master and server. |
| Receiver | `sw/examples/rdma_receiver/main.cpp` | Coyote slave: swaps QP metadata with the server, fills its buffer, waits for one incoming WRITE and prints the buffer. |
| QP handshake server | `src/scripts/network/RDMA_server_v2.c` | Plain verbs program: creates its resources, swaps QP metadata with the receiver over TCP, writes a 64-byte message into the receiver's buffer, polls once and cleans up. |

The card is a concurrent actor of the driver. It performs the invalidations it
was sent, and the acknowledgment it performs sets `wait_invldt`. It completes
DMA copies, which set `wait_offload` or `wait_sync`. It also reads and writes
through the translations in its TLB. These card-side behaviours are not in
`src/`, so they are modelled from the specification and marked `spec_modelled`
in the map.

## 2. The model: `FpgaGup.tla`

### State

| Variable | What it models |
|---|---|
| `user_buff_map[c][b]` | Bucket `b` of cpid `c`, as a sequence in hlist order (head first). A region is a record with fields `vaddr`, `n_pages` and `host`. |
| `pinned[c][p]` | The `get_user_pages` reference count of page `p` of cpid `c`. |
| `tlb` | The translations the card may still use: records `[cpid, page, loc]`, with `loc` `"host"` or `"card"`. |
| `invq`, `dmaq` | Invalidations and DMA copies sent to the card and not yet processed. |
| `wait_invldt`, `wait_offload`, `wait_sync` | The per-device single-slot completion flags. |
| `fresh[c][p]` | The copies (`"host"`, `"card"`) of page `p` of cpid `c` that hold the newest data. A card write removes the host copy. A DMA copy makes the destination fresh only if its source was fresh when the copy started. |
| `drv[t]` | Driver context `t`: the program counter of its blocked entry point and its locals. |
| `ret[t]` | The value the last entry point of context `t` returned. |
| `lock` | The holder of `d->offload_lock` and of `d->sync_lock`, or `NULL`. |
| `batch` | The size of the last map batch. |

### Actions

- Entry points run on the kernel contexts in `Threads`. The fault handler runs only on those in `FaultThreads`. Each entry point is split where it may block:
  - `mmu_handler_gup(t, c, v, n, stream)`;
  - `offload_user_gup(t, c, v)`;
  - `sync_user_gup(t, c, v)`;
  - `tlb_put_user_pages(t, c, v)`;
  - `tlb_put_user_pages_cpid(t, c)`.
- `tlb_get_user_pages_add(t)` is the second half of `tlb_get_user_pages`. It inserts the region pinned by `get_user_pages_remote` (which may sleep) and goes on with the fault.
- `tlb_unmap_gup_wait(t)` resumes after `wait_invldt`. `mutex_lock_gup(t)` takes `offload_lock` or `sync_lock` once it is free and starts the copy. `migrate_wait(t)` resumes after the copy, unlocks and maps the region.
- Everything between two blocking points is one atomic step. The table and the flags take no lock, so other contexts interleave only at those points.
- A user migration's walk resumes from the live bucket: `WalkRest` reads the entries after the migrated one as the bucket is now, and it ends the walk if another context deleted that entry.
- The error paths are explicit:
  - `tlb_get_user_pages_fail_host` and `tlb_get_user_pages_fail_card` are the two error paths of the Page Pinner;
  - `mmu_handler_gup` returns `-ENOMEM` after either of them.
- `card_invalidate`, `card_dma_done` and `card_write` are the card's actions.
- `map_present_scan` is a RECURSIVE operator. It walks the buckets in hash order, as `hash_for_each` does.
- `NextBucket` models `hash_for_each` in `tlb_put_user_pages_cpid`. The walk stops after a bucket's head because `hash_del` resets `next`.

### Constants

| Constant | Meaning | Values in the runs |
|---|---|---|
| `Threads` | The driver contexts | `{t1}`, or `{t1, t2}` in concurrent_remap |
| `FaultThreads` | The contexts that handle card faults | `{t1}` |
| `Cpids` | The cpids | `{c1}` |
| `NPages` | The virtual pages | 3 |
| `NBuckets` | The number of buckets | 2 |
| `Hash` | The hash function | `p % NBuckets` |
| `MAX_N_MAP_PAGES` | The map batch cap | 2, below NPages so that a long request exceeds it |
| `EnMem` | `pd->en_mem` | TRUE |
| `CardAllocMayFail` | Whether `card_alloc` may fail | FALSE in the core runs |
| `Interruptible` | Whether `wait_event_interruptible` may return on a signal before its flag is set | FALSE in the core runs |
| `ForcedMigrations` | Whether sync and offload may be called on a region already in the target location | FALSE in every run: the calls the model enumerates target the other side |

## 3. Runs

| Run | cfg | Expect | What it shows |
|---|---|---|---|
| core_safety | `MC_FpgaGup.cfg` | pass | Regions never overlap (`NoOverlap`). Every card translation points into a live region at its current location (`TlbCoherent`). When no entry point is running, every page of a live region is current at the region's location (`DataIntegrity`). At every state, even while an entry point is blocked, each translation the card holds reaches a copy with the newest data of its page (`CardSeesNewest`): a mapping made before a migration's copy completed would break it. Each page's pin count equals the number of regions covering it (`PinBalance`). Every entry point returns (`EntryPointsReturn`): a migration that restarted its bucket walk at the entry it just migrated would loop forever, and this run catches that. A fault the handler blocked for ends with the faulting page mapped (`FaultResolved`): a `tlb_map_gup` that fired pages from the region's start rather than the fault's would leave the card faulting on it. The driver refines the abstract region table (`RegionTableRefined`, see below). |
| pin_leak | `MC_PinLeak.cfg` | violation | `fail_card_unmap` puts back `user_pg->n_pages` = 0 pages, so the pins leak. |
| release_all | `MC_ReleaseAll.cfg` | violation | `hash_del` inside `hash_for_each` releases only each bucket's head. |
| release_target | `MC_ReleaseTarget.cfg` | violation | The `<=` at line 519 releases a neighbouring region. |
| map_array | `MC_MapArray.cfg` | violation | The `tlb_map_gup` loop writes past `map_array`. |
| signal_wait | `MC_SignalWait.cfg` | violation | An interrupted `wait_invldt` lets residency change while the card still has the old translation. |
| sync_lookup | `MC_SyncLookup.cfg` | violation | sync and offload only probe the bucket of the given page. |
| concurrent_remap | `MC_Concurrent.cfg` | violation | With a fault context and an ioctl context, a card fault between `offload_user_gup`'s unmap and its flip (lines 317-318) maps the region to the host copy. The offload then flips it to the card while the card still translates it to the host (`TlbCoherent`, 7 states). |

### The abstract region table: `RegionTable.tla`

`RegionTable.tla` states what the driver promises the card, without buckets, queues or waits.
- **State.** Each cpid has a set of disjoint regions, each resident on the host or the card. The card holds a set of translations.
- **Actions.**
  - `Pin` adds a disjoint region and may map some of its pages at once.
  - `Map` installs translations of pages of a live region, pointing at that region's copy.
  - `Invalidate` drops the translation of one page.
  - `Migrate` flips a region's residence, and `Release` removes a region. Both are allowed only when the card holds no translation into the region.
- **Refinement mapping.** `FpgaGup` instantiates it as `RT == INSTANCE RegionTable WITH regions <- [c \in Cpids |-> Live(c)], mapped <- tlb`, and core_safety checks `RegionTableRefined == RT!Spec`.
- **How the steps map.**
  - A host-access miss is `Pin`, with the pages `tlb_map_gup` fires.
  - A hit, and `migrate_wait`, are `Map`.
  - `card_invalidate` is `Invalidate`.
  - The flip in `tlb_unmap_gup_wait` is `Migrate`, and `put_entry` is `Release`.
  - Every other step leaves both mapped variables unchanged.
- **What it catches.** The refinement is stricter than the state invariants: a step may change the table only by one pin, one flip or one release. The mutant `LastRunFirst` marks the first invalidation run as the acknowledged one. The driver then wakes while later pages are still mapped, and `Release` or `Migrate` is not a step of the abstract spec.
- **Where it is checked.** Only core_safety checks the refinement. With interruptible waits (`MC_SignalWait.cfg`) an early wake-up lets the region flip while the card still holds translations into it, which is not a `Migrate` step; signal_wait shows that state through `TlbCoherent`.

### Bounds, and why they are enough

- **One cpid.** Regions of different cpids live in separate tables and never interact.
- **Three pages and two buckets.** This gives:
  - two regions in one bucket, which the hash_del truncation needs;
  - adjacent regions, which the `<=` bug needs;
  - a region whose interior page hashes to another bucket, which the lookup bug needs;
  - a request longer than `MAX_N_MAP_PAGES`.
- **One context in the passing run, two in concurrent_remap.** With one context the core run checks every sequential order of the entry points. A second context is needed to enter the driver while the first is blocked; one fault context and one ioctl context reach the remap race.

### Fairness

- **The card.** `card_invalidate` and `card_dma_done` are weakly fair. Once the driver has sent work, the hardware eventually performs it.
- **The waiting driver.** `tlb_get_user_pages_add`, `tlb_unmap_gup_wait` and `migrate_wait` are weakly fair per context. A blocked context is woken when its flag is set, and `get_user_pages_remote` returns.
- **The mutexes.** `mutex_lock_gup` is strongly fair per context: a kernel mutex hands the lock to a waiter that keeps being passed over, so a context waiting for `offload_lock` or `sync_lock` eventually gets it.
- **No fairness on requests.** New faults, syncs and releases have no fairness, because the user may stop issuing them.
- **Deadlock.** `MC_FpgaGup.cfg` checks deadlock and `EntryPointsReturn` together. The core configuration has no bounds, so no state is cut off.

## 4. The benchmark model: `PerfRdma.tla`

`sw/examples/perf_rdma/main.cpp` runs as two processes, the master and the
server. Before the loop, each swaps its queue-pair metadata with the peer
and enters an `ibvSync` (118-139, the `setup` step), then writes a test
pattern into its buffer `hMem` (141-212, the `fill` step). Both then run the
size loop at 216-358. Each size has:

- a throughput phase: the master posts `n_reps_thr` requests and waits, and in
  write mode the server echoes them;
- a latency phase: one request and one echo per repetition, with spin waits
  on `ibvDone` / `ibvSent`.

`ibvClear` and `ibvSync` separate the phases, and a final ack ends the run.

| Variable | What it models |
|---|---|
| `pc[n]` | The process's position in main. |
| `len`, `n_runs`, `i` | The locals. |
| `done`, `sent` | The two completion counters. |
| `wire[n]` | n's posted requests in queue-pair order, each tagged with the barrier phase it was posted in. |
| `acks[n]` | The completions of executed WRITEs still on their way back. |
| `cleared[n]` | The phase n's last `ibvClear` opened. |
| `stalled[n]` | The flag `gotInt` sets. |

Every spin loop is a `spin` step that changes nothing. `throw` is the
`runtime_error` of the loops that test `stalled`.

The `ibvQpConn` library is not in the repository. Its calls are modelled, and
marked `spec_modelled`, by the contract the loop relies on:

- `ibvPostSend` appends to a FIFO queue pair.
- A WRITE raises `ibvDone` at the target when it executes. It raises `ibvSent` at the issuer when its completion returns.
- A READ raises both counters at the issuer.
- `ibvClear` zeroes the two counters.
- `ibvSync` is a barrier. A blocking TCP call fails once the peer process has exited.

### Runs

| Run | cfg | Expect | What it shows |
|---|---|---|---|
| perf_safety | `MC_PerfRdma.cfg` | pass | In both modes, and with SIGINT, no request is executed after the process whose `ibvDone` it raises has cleared for a later phase (`NoStaleDone`). No request is posted at a peer that has not finished filling its buffer (`PeerFilledFirst`): the barrier at 219, entered after the fill, keeps it out, and a barrier that let a process go once its peer had entered only the previous one breaks this. Without a signal, both processes reach the end of main (`BenchTerminates`). |
| signal_hang | `MC_SignalHang.cfg` | violation | The server's loop at 310 does not test `stalled`. If the master has exited, Ctrl-C never ends the server. |

### Bounds and fairness

- **Runs and repetitions.** Two bench runs of two repetitions per phase. Every branch of the loops is then taken: the next repetition, the next run, and the phase exit.
- **Transfer size.** One transfer size. The doubling at 357 then ends the loop through the test at 216.
- **Scaled width.** `sg.len` is scaled to 4 bits.
- **Fairness.** Each process's steps are weakly fair: the processes are scheduled. The NIC's execution of posted requests and the return of completions are weakly fair as well. A signal has no fairness.

## 5. The hello model: `RdmaHello.tla`

`RdmaHello` composes three actors.

- **The server** (`srv`) follows `main` of `RDMA_server_v2.c`. Its position is `srv.pc`. `srv.k` walks the resource list of lines 116-230 and the socket steps of 244-275; with `MayFail`, each of these checked calls may `goto end`. It then goes through `listen`, `accept`, read qpid, write ack, read ibvQ, write ibvQ, `ibv_query_gid`, RTR, RTS, post, the single poll and `end`. A read fails on a short count (`ShortReads`) or at end of file. A write fails once the receiver has gone. The RTR and RTS errors are ignored, as in the code, and a post on a QP not in RTS sends nothing. When `ibv_poll_cq` finds no completion, `wc` is uninitialized and `ack` takes either value. `srv_end` destroys the QP, which flushes a WRITE not yet executed, and closes the connection.
- **The receiver** (`rcv`) follows `rdma_receiver/main.cpp`. `exchangeQpSlave` lives in the `ibvQpMap` library, which is not in the repository. It is modelled (`spec_modelled`) after the protocol the server expects: connect (refused unless the server listens), send the qpid, read the ack, send its ibvQ with a PSN from `Psns`, then read the server's ibvQ and bring the QP up (`rready`). After that come the fill loop of 145-150, one 8-byte word per step, the wait at 154 (left on SIGINT by `rcv_sigint`) and the print of `hMem` as a C string (`CString`).
- **The NICs.** `nic_execute` performs the posted WRITE. If the PSN and rkey match what the receiver expects, it writes the message words and raises `ibvDone` (`rdone`); otherwise the WRITE is NAKed. `nic_retry_exceeded` gives up once the receiver has gone without bringing its QP up.

The TCP stream is two FIFO sequences of messages, `toSrv` and `toRcv`, with one end state per process in `conn`. Data is abstracted: an ibvQ is its PSN and rkey, the message is eight words of `"msg"`, and the fill words are `"one"`.

`RDMA_server_v2.c` does not compile as it stands, because line 104 declares `uint32t ip_addr`. The model is of the program its author evidently meant.

### Runs

| Run | cfg | Expect | What it shows |
|---|---|---|---|
| hello_safety | `MC_RdmaHello.cfg` | pass | With failing calls and short reads, every WRITE the receiver's NIC executes carries the PSN it expects and the rkey of its buffer (`WriteAccepted`). Once the connection is accepted, the server always reaches the end of main (`ServerEnds`). |
| ack_unconfirmed | `MC_AckUnconfirmed.cfg` | violation | With no call failing, the server can print "Message was ACKed!" before the WRITE has executed (`AckMeansDelivered`). The single `ibv_poll_cq` found no completion, `wc` was uninitialized, and `end` then flushes the WRITE. |

Each property has a mutant that TLC catches:

- `SqPsnZero` sets `attr.sq_psn = 0`, after the commented-out `rq_psn = 0` at line 476. It breaks `WriteAccepted`.
- `PollUntilOne` turns the poll into `while (ibv_poll_cq(...) == 0)`. That hangs when the ignored RTR/RTS failure left nothing posted, so it breaks `ServerEnds`.

### Bounds and fairness

- **Constants.** Two PSNs, so the receiver can advertise a PSN other than 0. A fill of `max_size = 512`, eight words: the fill covers exactly the message.
- **Deadlock.** The deadlock check is off, because the system really can stop. A receiver started before the server listens is refused and exits, and the server then waits in `accept` for ever.
- **Fairness.** The server, the receiver and the NIC are each weakly fair. SIGINT has no fairness.

## 6. Not modelled

- **Huge pages.** `n_pages_in_huge > 1` is not modelled. `mmu_handler` aligns a huge fault to whole huge pages, but `map_present` may still clip its page count at a small region: a fault range can run from a huge VMA into a small-page VMA after it. The huge region then has a count that is not a multiple of `n_pages_in_huge`. `tlb_unmap_gup` never sends the acknowledged invalidation for it, and `tlb_map_gup` writes past `map_array`. Reaching that needs a huge VMA, a small VMA and a fault crossing both: at least four pages with two page sizes, which multiplies the state space of every core check. Both hazards are listed.
- **Other races between contexts.** The two-context model also reaches three races that no run checks, because each needs a run of its own: the lost wake-up when two contexts wait on `wait_invldt` and both acknowledgments arrive before either wakes (`EntryPointsReturn`); an offload and a sync of one region copying at once under their two different mutexes (`DataIntegrity`); and two releases of one region unpinning it twice (`PinBalance`). They are listed as hazards. `mmu_notifier` invalidations of a VMA are not modelled.
- **`en_mem` off.** With `pd->en_mem` clear, `tlb_get_user_pages` allocates no card pages, yet a card-access fault still marks the region card resident and offloads it (129). The model has no field for the card pages a region owns, and the question needs a violation run of its own; every run has `EnMem = TRUE`. The hazard is listed.
- **The hello's data.** The GID arithmetic (340-347) and every printout of `RDMA_server_v2.c` are left out. The cleanup's releases of handles never created, and the invalid `free((void*)*buf)`, are folded into `srv_end`, because to the receiver they only mean that the server process goes away. No run checks what the receiver prints: its fill can overwrite the message (a hazard), and the model's one violation run is spent on the ACK finding.
- **ibvSent after ibvClear.** The earlier check that a late completion raises the server's cleared `ibvSent` (line 298) is not run. It depends on the library's `ibvClear`, which is not in the repository; the hazard is listed.
- **Forced migrations.** `sync_user_gup` and `offload_user_gup` migrate even when a region is already at the target. Then the stale copy overwrites the newer one. The runs call them only on regions at the other side (`ForcedMigrations = FALSE`); the stale overwrite is listed as a hazard.
- **Wrap of `sg.len`.** For `max_size >= 2^31`, `sg.len` wraps to 0. For `min_size = 0` it stays 0. The size loop then never ends. This is recorded as a hazard; no run checks it.
- **Setup and arguments.** The argument parsing, environment lookups and printouts of the three user programs are left out. The benchmark's and the receiver's `ibvQpConn` calls are modelled by the contract they rely on, because the library is not in the repository.
- **Data.** Page contents, physical addresses, `SetPageDirty` and cache flushing are reduced to the `fresh` set.
