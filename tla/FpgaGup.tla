------------------------------ MODULE FpgaGup ------------------------------
(***************************************************************************)
(* The get_user_pages (GUP) unified-memory manager of one vFPGA of the     *)
(* Coyote driver, src/artifacts/coyote-experiments/driver/fpga_gup.c.     *)
(*                                                                         *)
(* Three actors share the state of one vFPGA d:                            *)
(*  - the driver, whose entry points (mmu_handler_gup, offload_user_gup,   *)
(*    sync_user_gup, tlb_put_user_pages, tlb_put_user_pages_cpid) run on  *)
(*    the kernel contexts in Threads and block in wait_event_interruptible *)
(*    until the card sets a completion flag, in mutex_lock of a migration, *)
(*    or in get_user_pages_remote; each entry point is split there;        *)
(*  - the card's TLB, which drains invalidation commands and sets          *)
(*    wait_invldt on the command marked last;                              *)
(*  - the card's DMA engine, which performs offload (host -> card) and     *)
(*    sync (card -> host) copies and sets wait_offload / wait_sync.        *)
(* The card also reads and writes memory through the translations its TLB *)
(* holds.  Small pages only.                                               *)
(***************************************************************************)
EXTENDS Integers, SequencesExt

CONSTANTS
  Threads,          \* kernel contexts entering the driver (fault handler, ioctl callers)
  FaultThreads,     \* the contexts among them that run mmu_handler_gup
  Cpids,            \* Coyote process ids of the vFPGA
  NPages,           \* pages 0 .. NPages-1 of each process's address space
  NBuckets,         \* buckets of user_buff_map[d->id][cpid]
  Hash,             \* hash_64(vaddr, USER_HASH_TABLE_ORDER) as [Pages -> 1..NBuckets]
  MAX_N_MAP_PAGES,  \* largest batch tlb_map_gup fires at the card
  EnMem,            \* pd->en_mem: the card has memory of its own
  CardAllocMayFail, \* card_alloc may return an error
  Interruptible,    \* a signal may end wait_event_interruptible early
  ForcedMigrations, \* the user may sync/offload a region already resident there
  NULL              \* no region, no cpid

Pages   == 0 .. NPages - 1
Buckets == 1 .. NBuckets

ASSUME FaultThreads \subseteq Threads
ASSUME NPages \in Nat \ {0} /\ NBuckets \in Nat \ {0}
ASSUME Hash \in [Pages -> Buckets]
ASSUME MAX_N_MAP_PAGES \in Nat \ {0}
ASSUME {EnMem, CardAllocMayFail, Interruptible, ForcedMigrations} \subseteq BOOLEAN

HOST_ACCESS == TRUE       \* the stream argument is a bool: host access is true
CARD_ACCESS == FALSE
ENOMEM      == 12

(* A struct user_pages, reduced to what the control flow reads.            *)
Region == [vaddr : Pages, n_pages : 1 .. NPages, host : BOOLEAN]
Loc(r) == IF r.host THEN "host" ELSE "card"
RegionPages(r) == r.vaddr .. r.vaddr + r.n_pages - 1
Translation == [cpid : Cpids, page : Pages, loc : {"host", "card"}]

VARIABLES
  user_buff_map, \* [Cpids -> [Buckets -> Seq(Region)]]: hlist of each bucket, head first
  pinned,        \* page references taken by get_user_pages_remote and not yet put
  tlb,           \* translations the card may still use
  invq,          \* fpga_invalidate commands the card has not processed yet
  dmaq,          \* copies started by dma_offload_start / dma_sync_start, not finished
  wait_invldt,   \* d->wait_invldt == FLAG_SET
  wait_offload,  \* d->wait_offload == FLAG_SET
  wait_sync,     \* d->wait_sync == FLAG_SET
  fresh,         \* per page, the copies ("host", "card") holding its newest data
  drv,           \* per thread, the entry point in progress and where it is blocked
  ret,           \* per thread, the value its last entry point returned
  lock,          \* holder of d->offload_lock and d->sync_lock, or NULL
  batch          \* entries written into / allocated for the last map_array

vars == <<user_buff_map, pinned, tlb, invq, dmaq, wait_invldt, wait_offload,
          wait_sync, fresh, drv, ret, lock, batch>>

Idle == [pc |-> "idle", op |-> "none", cpid |-> NULL, r |-> NULL, s |-> 0,
         n |-> 0, host |-> FALSE, vaddr |-> 0, bkt |-> 0]

(* hash_for_each visits the buckets in order, each hlist from its head.    *)
Entries(c) == FlattenSeq([b \in Buckets |-> user_buff_map[c][b]])
Live(c) == Range(Entries(c))

-----------------------------------------------------------------------------
(* Region Lookup: map_present scans the whole table of (d, cpid).  A       *)
(* region containing the start is a hit and clips the count to its end; a  *)
(* region starting inside the range clips the count to stop before it.     *)
RECURSIVE map_present_unclipped(_, _, _)
map_present_unclipped(rs, s, n) ==
  IF rs = <<>> THEN [hit |-> NULL, n |-> n]
  ELSE LET e == Head(rs) IN
       IF s >= e.vaddr /\ s < e.vaddr + e.n_pages
       THEN [hit |-> e, n |-> n]
       ELSE map_present_unclipped(Tail(rs), s, n)

RECURSIVE map_present_scan(_, _, _)
map_present_scan(rs, s, n) ==
  IF rs = <<>> THEN [hit |-> NULL, n |-> n]
  ELSE LET e   == Head(rs)
           end == e.vaddr + e.n_pages
       IN IF s >= e.vaddr /\ s < end
          THEN [hit |-> e, n |-> IF s + n > end THEN end - s ELSE n]
          ELSE map_present_scan(Tail(rs), s,
                                IF s < e.vaddr /\ s + n > e.vaddr
                                THEN e.vaddr - s ELSE n)

map_present(c, s, n) == map_present_scan(Entries(c), s, n)

-----------------------------------------------------------------------------
(* A struct user_pages is one object: the model tells two apart by the    *)
(* range they were created for, and reads a field of one that was freed   *)
(* as it was last written.                                                 *)
SameEntry(e, r) == e.vaddr = r.vaddr /\ e.n_pages = r.n_pages
Current(c, r) ==
  LET es == {e \in Live(c) : SameEntry(e, r)} IN IF es = {} THEN r ELSE CHOOSE e \in es : TRUE

(* The hash table operations on user_buff_map.                             *)
hash_add(m, c, r) == [m EXCEPT ![c][Hash[r.vaddr]] = Cons(r, @)]
hash_del(m, c, r) ==
  [m EXCEPT ![c][Hash[r.vaddr]] = RemoveFirstMatch(@, LAMBDA e : SameEntry(e, r))]
set_host(m, c, r, h) ==
  LET Flip(e) == IF SameEntry(e, r) THEN [e EXCEPT !.host = h] ELSE e IN
  [m EXCEPT ![c] = [b \in Buckets |-> [i \in DOMAIN m[c][b] |-> Flip(m[c][b][i])]]]

(* pinned after get_user_pages_remote took the pages got and put_page      *)
(* released the pages put.                                                 *)
PinnedAfter(c, got, put) ==
  [pinned EXCEPT ![c] = [p \in Pages |-> @[p] + (IF p \in got THEN 1 ELSE 0)
                                              - (IF p \in put THEN 1 ELSE 0)]]

-----------------------------------------------------------------------------
(* TLB Programmer.  tlb_map_gup writes one map_array entry per page of the *)
(* request but allocates and fires only n_map_pages of them; the card      *)
(* translates the fired pages to the copy the region's host flag names.    *)
n_map_pages(n) == IF n > MAX_N_MAP_PAGES THEN MAX_N_MAP_PAGES ELSE n

tlb_map_gup_from_region(c, r, s, n) ==
  LET fired == r.vaddr .. r.vaddr + n_map_pages(n) - 1 IN
  /\ tlb' = {t \in tlb : t.cpid # c \/ t.page \notin fired}
              \cup {[cpid |-> c, page |-> p, loc |-> Loc(r)] : p \in fired}
  /\ batch' = [written |-> n, capacity |-> n_map_pages(n)]

tlb_map_gup(c, r, s, n) ==
  LET fired == s .. s + n_map_pages(n) - 1 IN
  /\ tlb' = {t \in tlb : t.cpid # c \/ t.page \notin fired}
              \cup {[cpid |-> c, page |-> p, loc |-> Loc(r)] : p \in fired}
  /\ batch' = [written |-> n, capacity |-> n_map_pages(n)]

(* tlb_unmap_gup submits one invalidation per page run, marking the run at *)
(* i == n_pages - pg_inc as the one the card acknowledges.                 *)
LastRunFirst(i, n) == i = 0
LastRun(i, n) == i = n - 1

tlb_unmap_gup(c, r) ==
  invq' = invq \o [i \in 1 .. r.n_pages |->
                     [cpid |-> c, page |-> r.vaddr + i - 1,
                      last |-> LastRun(i - 1, r.n_pages)]]

(* wait_event_interruptible returns when the flag is set, or on a signal;  *)
(* its return value is ignored.                                            *)
invldt_wait_skipped == TRUE
invldt_done == wait_invldt \/ Interruptible
dma_wait_skipped(flag) == TRUE
dma_done(flag) == flag \/ Interruptible

-----------------------------------------------------------------------------
(* Migration Engine.  The copy reads its source when it starts: ok holds   *)
(* the pages whose source copy is newest at that moment.                   *)
Copy(kind, c, r, src) ==
  [kind |-> kind, cpid |-> c, pages |-> RegionPages(r),
   ok |-> {p \in RegionPages(r) : src \in fresh[c][p]}]

migrate_to_card_gup(c, r) == dmaq' = Append(dmaq, Copy("offload", c, r, "host"))
migrate_to_host_gup(c, r) == dmaq' = Append(dmaq, Copy("sync", c, r, "card"))

(* migrate_to_host_gup holds d->sync_lock, migrate_to_card_gup            *)
(* d->offload_lock, from before the copy starts until its wait returns.   *)
LockOf(h) == IF h THEN "sync" ELSE "offload"
start_copy(t, c, r, h) ==
  /\ lock' = [lock EXCEPT ![LockOf(h)] = t]
  /\ IF h THEN migrate_to_host_gup(c, r) ELSE migrate_to_card_gup(c, r)

(* Thread t, with locals d, calls the migration towards h and enters     *)
(* mutex_lock.                                                             *)
migrate_gup(t, r, d) ==
  /\ drv' = [drv EXCEPT ![t] = [d EXCEPT !.pc = "lock", !.r = r]]
  /\ UNCHANGED <<lock, dmaq>>

(* Thread t submits tlb_unmap_gup for region r and blocks until the card  *)
(* acknowledges; what it does next is recorded in drv[t].                 *)
BeginUnmap(t, op, c, r, s, n, h, v, bkt) ==
  /\ tlb_unmap_gup(c, r)
  /\ drv' = [drv EXCEPT ![t] = [pc |-> "wait_invldt", op |-> op, cpid |-> c, r |-> r,
                                s |-> s, n |-> n, host |-> h, vaddr |-> v, bkt |-> bkt]]

-----------------------------------------------------------------------------
(* Page Pinner: the outcomes of tlb_get_user_pages.  get_user_pages_remote *)
(* pins k of the n pages; on a short pin fail_host_unmap puts back the k   *)
(* pages pinned.  On a card_alloc error fail_card_unmap puts back           *)
(* user_pg->n_pages pages, a field that is still 0 there: user_pg was       *)
(* kzalloc'ed and n_pages is only assigned on success.                      *)
fail_host_released_extra(s, k) == s .. s + k
fail_host_released(s, k) == s .. s + k - 1
user_pg_n_pages_at_fail == 0
fail_card_released(s) == s .. s + user_pg_n_pages_at_fail - 1

tlb_get_user_pages_fail_host(t, c, s, n) ==
  /\ \E k \in 0 .. n - 1 :
       pinned' = PinnedAfter(c, s .. s + k - 1, fail_host_released(s, k))
  /\ ret' = [ret EXCEPT ![t] = -ENOMEM]
  /\ UNCHANGED <<user_buff_map, tlb, invq, dmaq, wait_invldt, wait_offload,
                 wait_sync, fresh, drv, lock, batch>>

tlb_get_user_pages_fail_card(t, c, s, n) ==
  /\ EnMem /\ CardAllocMayFail
  /\ pinned' = PinnedAfter(c, s .. s + n - 1, fail_card_released(s))
  /\ ret' = [ret EXCEPT ![t] = -ENOMEM]
  /\ UNCHANGED <<user_buff_map, tlb, invq, dmaq, wait_invldt, wait_offload,
                 wait_sync, fresh, drv, lock, batch>>

(* get_user_pages_remote pins all n pages; the thread may sleep in it, so  *)
(* the region enters the table only in a later step.                       *)
tlb_get_user_pages_ok(t, c, s, n, stream) ==
  LET r == [vaddr |-> s, n_pages |-> n, host |-> HOST_ACCESS] IN
  /\ pinned' = PinnedAfter(c, RegionPages(r), {})
  /\ drv' = [drv EXCEPT ![t] = [Idle EXCEPT !.pc = "pinned", !.op = "fault",
                                !.cpid = c, !.r = r, !.s = s, !.n = n, !.host = stream]]
  /\ UNCHANGED <<user_buff_map, tlb, invq, dmaq, wait_invldt, wait_offload,
                 wait_sync, fresh, ret, lock, batch>>

(* A card access to a freshly pinned region marks it card resident,       *)
(* offloads it and maps it once the copy is done.                          *)
miss_card_access_early_map(t, d, r) ==
  /\ migrate_gup(t, r, d)
  /\ tlb_map_gup(d.cpid, r, d.s, d.n)

miss_card_access(t, d, r) ==
  /\ migrate_gup(t, r, d)
  /\ UNCHANGED batch /\ UNCHANGED tlb

(* The rest of tlb_get_user_pages and mmu_handler_gup: hash_add puts the   *)
(* region in the bucket of its start page, host resident unless the fault *)
(* was a card access.                                                      *)
tlb_get_user_pages_add(t) ==
  LET d == drv[t]
      r == [d.r EXCEPT !.host = d.host]
  IN /\ d.pc = "pinned"
     /\ user_buff_map' = hash_add(user_buff_map, d.cpid, r)
     /\ \/ /\ d.host = HOST_ACCESS
           /\ tlb_map_gup(d.cpid, r, d.s, d.n)
           /\ drv' = [drv EXCEPT ![t] = Idle]
           /\ ret' = [ret EXCEPT ![t] = 0]
           /\ UNCHANGED <<dmaq, lock>>
        \/ /\ d.host = CARD_ACCESS
           /\ miss_card_access(t, d, r)
           /\ UNCHANGED ret
     /\ UNCHANGED <<pinned, invq, wait_invldt, wait_offload, wait_sync, fresh>>

-----------------------------------------------------------------------------
(* Fault Orchestrator: mmu_handler_gup on thread t for a fault of the card *)
(* on page s of cpid c, covering n pages.  The card faults only on a page  *)
(* it holds no translation for.                                            *)
mmu_handler_gup(t, c, s, n, stream) ==
  /\ drv[t].pc = "idle"
  /\ ~\E x \in tlb : x.cpid = c /\ x.page = s
  /\ LET pfa == map_present(c, s, n) IN
     \/ /\ pfa.hit # NULL
        /\ pfa.hit.host = stream
        /\ tlb_map_gup(c, pfa.hit, s, pfa.n)
        /\ ret' = [ret EXCEPT ![t] = 0]
        /\ UNCHANGED <<user_buff_map, pinned, invq, dmaq, wait_invldt,
                       wait_offload, wait_sync, fresh, drv, lock>>
     \/ /\ pfa.hit # NULL
        /\ pfa.hit.host # stream
        /\ BeginUnmap(t, "fault", c, pfa.hit, s, pfa.n, stream, s, 0)
        /\ UNCHANGED <<user_buff_map, pinned, tlb, dmaq, wait_invldt,
                       wait_offload, wait_sync, fresh, ret, lock, batch>>
     \/ /\ pfa.hit = NULL
        /\ \/ tlb_get_user_pages_fail_host(t, c, s, pfa.n)
           \/ tlb_get_user_pages_fail_card(t, c, s, pfa.n)
           \/ tlb_get_user_pages_ok(t, c, s, pfa.n, stream)

(* offload_user_gup and sync_user_gup look only in the bucket of the given *)
(* page and force an unmap, flip, migrate and map of every region of that  *)
(* bucket containing it.  Unless ForcedMigrations, the user asks only for  *)
(* a migration that changes the region's residency.                        *)
Covers(e, v) == v >= e.vaddr /\ v < e.vaddr + e.n_pages

(* hash_for_each_possible goes on with the entries after the one handled.   *)
RestFromCurrent(s, i) == SubSeq(s, i, Len(s))
RestAfter(s, i) == SubSeq(s, i + 1, Len(s))

user_migrate(t, op, c, v, h) ==
  LET bucket == user_buff_map[c][Hash[v]]
      i      == SelectInSeq(bucket, LAMBDA e : Covers(e, v))
  IN /\ drv[t].pc = "idle"
     /\ \/ /\ i = 0
           /\ ret' = [ret EXCEPT ![t] = 1]
           /\ UNCHANGED <<user_buff_map, pinned, tlb, invq, dmaq, wait_invldt,
                          wait_offload, wait_sync, fresh, drv, lock, batch>>
        \/ /\ i # 0
           /\ ForcedMigrations \/ bucket[i].host # h
           /\ BeginUnmap(t, op, c, bucket[i], bucket[i].vaddr, bucket[i].n_pages,
                         h, v, 0)
           /\ UNCHANGED <<user_buff_map, pinned, tlb, dmaq, wait_invldt,
                          wait_offload, wait_sync, fresh, ret, lock, batch>>

offload_user_gup(t, c, v) == user_migrate(t, "offload", c, v, FALSE)
sync_user_gup(t, c, v) == user_migrate(t, "sync", c, v, TRUE)

(* The entries hash_for_each_possible visits after r, read from the live  *)
(* bucket: r's next pointer.  When another thread has deleted r,           *)
(* hlist_del_init left that pointer NULL and the walk ends.                *)
WalkRest(c, v, r) ==
  LET b == user_buff_map[c][Hash[v]]
      k == SelectInSeq(b, LAMBDA e : SameEntry(e, r))
  IN IF k = 0 THEN <<>> ELSE RestAfter(b, k)

(* tlb_put_user_pages releases the first region of the bucket of v whose   *)
(* range, end included, holds v; hash_del ends the bucket walk.            *)
ReleaseCovers(e, v) == v >= e.vaddr /\ v <= e.vaddr + e.n_pages

tlb_put_user_pages(t, c, v) ==
  LET bucket == user_buff_map[c][Hash[v]]
      i      == SelectInSeq(bucket, LAMBDA e : ReleaseCovers(e, v))
  IN /\ drv[t].pc = "idle"
     /\ \/ /\ i = 0
           /\ ret' = [ret EXCEPT ![t] = 0]
           /\ UNCHANGED <<user_buff_map, pinned, tlb, invq, dmaq, wait_invldt,
                          wait_offload, wait_sync, fresh, drv, lock, batch>>
        \/ /\ i # 0
           /\ BeginUnmap(t, "release", c, bucket[i], 0, 0, FALSE, v, 0)
           /\ UNCHANGED <<user_buff_map, pinned, tlb, dmaq, wait_invldt,
                          wait_offload, wait_sync, fresh, ret, lock, batch>>

(* tlb_put_user_pages_cpid walks the buckets with hash_for_each; hash_del  *)
(* clears the next pointer of the deleted node, so each bucket walk stops  *)
(* after its head: the next region released is the head of the next        *)
(* non-empty bucket.                                                       *)
NextBucket(m, c, b) ==
  LET nb == {k \in b .. NBuckets : m[c][k] # <<>>} IN IF nb = {} THEN 0 ELSE Min(nb)

tlb_put_user_pages_cpid(t, c) ==
  LET b == NextBucket(user_buff_map, c, 1) IN
  /\ drv[t].pc = "idle"
  /\ \/ /\ b = 0
        /\ ret' = [ret EXCEPT ![t] = 0]
        /\ UNCHANGED <<user_buff_map, pinned, tlb, invq, dmaq, wait_invldt,
                       wait_offload, wait_sync, fresh, drv, lock, batch>>
     \/ /\ b # 0
        /\ BeginUnmap(t, "release_all", c, Head(user_buff_map[c][b]), 0, 0, FALSE,
                      0, b)
        /\ UNCHANGED <<user_buff_map, pinned, tlb, dmaq, wait_invldt,
                       wait_offload, wait_sync, fresh, ret, lock, batch>>

-----------------------------------------------------------------------------
(* Region release, the body of both release loops after tlb_unmap_gup:     *)
(* card_free, put_page of every page, hash_del.  The card copy is freed:   *)
(* what the process sees of these pages from now on is the host copy.      *)
release_put_pages_short(r) == r.vaddr .. r.vaddr + r.n_pages - 2
release_put_pages(r) == RegionPages(r)

put_entry(c, r) ==
  /\ user_buff_map' = hash_del(user_buff_map, c, r)
  /\ pinned' = PinnedAfter(c, {}, release_put_pages(r))
  /\ fresh' = [fresh EXCEPT ![c] = [p \in Pages |->
                                      IF p \in RegionPages(r) THEN {"host"} ELSE @[p]]]

(* Thread t wakes from the wait of tlb_unmap_gup, clears wait_invldt and  *)
(* runs its caller on to the next blocking call: flip the host flag and   *)
(* migrate, or release the region (and unmap the next one for             *)
(* tlb_put_user_pages_cpid).                                               *)
tlb_unmap_gup_wait(t) ==
  LET d == drv[t] IN
  /\ d.pc = "wait_invldt"
  /\ invldt_done
  /\ wait_invldt' = FALSE
  /\ \/ /\ d.op \in {"fault", "offload", "sync"}
        /\ user_buff_map' = set_host(user_buff_map, d.cpid, d.r, d.host)
        /\ migrate_gup(t, [Current(d.cpid, d.r) EXCEPT !.host = d.host], d)
        /\ UNCHANGED <<pinned, tlb, invq, wait_offload, wait_sync, fresh, ret,
                       batch>>
     \/ /\ d.op = "release"
        /\ put_entry(d.cpid, d.r)
        /\ drv' = [drv EXCEPT ![t] = Idle]
        /\ ret' = [ret EXCEPT ![t] = 0]
        /\ UNCHANGED <<tlb, invq, dmaq, wait_offload, wait_sync, lock, batch>>
     \/ /\ d.op = "release_all"
        /\ put_entry(d.cpid, d.r)
        /\ LET m == hash_del(user_buff_map, d.cpid, d.r)
               b == NextBucket(m, d.cpid, d.bkt + 1)
           IN \/ /\ b = 0
                 /\ drv' = [drv EXCEPT ![t] = Idle]
                 /\ ret' = [ret EXCEPT ![t] = 0]
                 /\ UNCHANGED invq
              \/ /\ b # 0
                 /\ BeginUnmap(t, "release_all", d.cpid, Head(m[d.cpid][b]),
                               0, 0, FALSE, 0, b)
                 /\ UNCHANGED ret
        /\ UNCHANGED <<tlb, dmaq, wait_offload, wait_sync, lock, batch>>

(* mutex_lock returns to thread t once the mutex is free (at once, unless *)
(* another thread holds it); the migration then starts its copy.          *)
mutex_lock_gup(t) ==
  LET d == drv[t] IN
  /\ d.pc = "lock"
  /\ lock[LockOf(d.host)] = NULL
  /\ start_copy(t, d.cpid, d.r, d.host)
  /\ drv' = [drv EXCEPT ![t].pc = "wait_dma"]
  /\ UNCHANGED <<user_buff_map, pinned, tlb, invq, wait_invldt, wait_offload,
                 wait_sync, fresh, ret, batch>>

(* Thread t wakes from the wait of migrate_to_card_gup (wait_offload) or  *)
(* migrate_to_host_gup (wait_sync), clears the flag, unlocks, maps the    *)
(* request with the region's current host flag and, for a user migration, *)
(* goes on with the rest of the bucket.                                   *)
migrate_wait(t) ==
  LET d    == drv[t]
      rest == IF d.op = "fault" THEN <<>> ELSE WalkRest(d.cpid, d.vaddr, d.r)
      i    == SelectInSeq(rest, LAMBDA e : Covers(e, d.vaddr))
  IN
  /\ d.pc = "wait_dma"
  /\ IF d.host
     THEN dma_done(wait_sync) /\ wait_sync' = FALSE /\ UNCHANGED wait_offload
     ELSE dma_done(wait_offload) /\ wait_offload' = FALSE /\ UNCHANGED wait_sync
  /\ lock' = [lock EXCEPT ![LockOf(d.host)] = NULL]
  /\ tlb_map_gup(d.cpid, Current(d.cpid, d.r), d.s, d.n)
  /\ \/ /\ i = 0
        /\ drv' = [drv EXCEPT ![t] = Idle]
        /\ ret' = [ret EXCEPT ![t] = 0]
        /\ UNCHANGED invq
     \/ /\ i # 0
        /\ BeginUnmap(t, d.op, d.cpid, rest[i], rest[i].vaddr, rest[i].n_pages,
                      d.host, d.vaddr, 0)
        /\ UNCHANGED ret
  /\ UNCHANGED <<user_buff_map, pinned, dmaq, wait_invldt, fresh>>

-----------------------------------------------------------------------------
(* The card.  It processes invalidations in order and raises wait_invldt   *)
(* on the one marked last; it completes copies in order and raises the     *)
(* copy's flag; it writes memory through any translation it holds, which  *)
(* makes that copy the only newest one and spoils copies in flight.        *)
card_invalidate ==
  /\ invq # <<>>
  /\ LET cmd == Head(invq) IN
     /\ tlb' = {x \in tlb : ~(x.cpid = cmd.cpid /\ x.page = cmd.page)}
     /\ wait_invldt' = (wait_invldt \/ cmd.last)
  /\ invq' = Tail(invq)
  /\ UNCHANGED <<user_buff_map, pinned, dmaq, wait_offload, wait_sync, fresh,
                 drv, ret, lock, batch>>

card_dma_done ==
  /\ dmaq # <<>>
  /\ LET x   == Head(dmaq)
         dst == IF x.kind = "offload" THEN "card" ELSE "host"
     IN /\ fresh' = [fresh EXCEPT ![x.cpid] = [p \in Pages |->
                       IF p \notin x.pages THEN @[p]
                       ELSE IF p \in x.ok THEN @[p] \cup {dst} ELSE @[p] \ {dst}]]
        /\ wait_offload' = (wait_offload \/ x.kind = "offload")
        /\ wait_sync' = (wait_sync \/ x.kind = "sync")
  /\ dmaq' = Tail(dmaq)
  /\ UNCHANGED <<user_buff_map, pinned, tlb, invq, wait_invldt, drv, ret, lock,
                 batch>>

card_write(x) ==
  /\ x \in tlb
  /\ fresh' = [fresh EXCEPT ![x.cpid][x.page] = {x.loc}]
  /\ dmaq' = [k \in DOMAIN dmaq |->
                IF dmaq[k].cpid = x.cpid THEN [dmaq[k] EXCEPT !.ok = @ \ {x.page}]
                ELSE dmaq[k]]
  /\ UNCHANGED <<user_buff_map, pinned, tlb, invq, wait_invldt, wait_offload,
                 wait_sync, drv, ret, lock, batch>>

-----------------------------------------------------------------------------
Init ==
  /\ user_buff_map = [c \in Cpids |-> [b \in Buckets |-> <<>>]]
  /\ pinned = [c \in Cpids |-> [p \in Pages |-> 0]]
  /\ tlb = {}
  /\ invq = <<>>
  /\ dmaq = <<>>
  /\ wait_invldt = FALSE
  /\ wait_offload = FALSE
  /\ wait_sync = FALSE
  /\ fresh = [c \in Cpids |-> [p \in Pages |-> {"host"}]]
  /\ drv = [t \in Threads |-> Idle]
  /\ ret = [t \in Threads |-> 0]
  /\ lock = [k \in {"offload", "sync"} |-> NULL]
  /\ batch = [written |-> 0, capacity |-> 0]

Next ==
  \/ \E t \in FaultThreads, c \in Cpids, s \in Pages,
       stream \in {HOST_ACCESS, CARD_ACCESS} :
       \E n \in 1 .. NPages - s : mmu_handler_gup(t, c, s, n, stream)
  \/ \E t \in Threads :
       \/ \E c \in Cpids, v \in Pages :
            \/ offload_user_gup(t, c, v)
            \/ sync_user_gup(t, c, v)
            \/ tlb_put_user_pages(t, c, v)
       \/ \E c \in Cpids : tlb_put_user_pages_cpid(t, c)
       \/ tlb_get_user_pages_add(t)
       \/ tlb_unmap_gup_wait(t)
       \/ mutex_lock_gup(t)
       \/ migrate_wait(t)
  \/ card_invalidate
  \/ card_dma_done
  \/ \E x \in tlb : card_write(x)

(* The card always processes what it was sent; a thread returns from      *)
(* get_user_pages_remote, is woken once its flag is set, and gets a mutex *)
(* its holder keeps releasing (the kernel mutex hands off to a starving   *)
(* waiter); the user and the card's accesses need not happen.             *)
Fairness ==
  /\ WF_vars(card_invalidate)
  /\ WF_vars(card_dma_done)
  /\ \A t \in Threads :
       /\ WF_vars(tlb_get_user_pages_add(t))
       /\ WF_vars(tlb_unmap_gup_wait(t))
       /\ SF_vars(mutex_lock_gup(t))
       /\ WF_vars(migrate_wait(t))

Spec == Init /\ [][Next]_vars /\ Fairness

-----------------------------------------------------------------------------
(***************************************************************************)
(* Properties.                                                             *)
(***************************************************************************)
TypeOK ==
  /\ user_buff_map \in [Cpids -> [Buckets -> Seq(Region)]]
  /\ pinned \in [Cpids -> [Pages -> Nat]]
  /\ tlb \subseteq Translation
  /\ invq \in Seq([cpid : Cpids, page : Pages, last : BOOLEAN])
  /\ dmaq \in Seq([kind : {"offload", "sync"}, cpid : Cpids,
                   pages : SUBSET Pages, ok : SUBSET Pages])
  /\ {wait_invldt, wait_offload, wait_sync} \subseteq BOOLEAN
  /\ fresh \in [Cpids -> [Pages -> SUBSET {"host", "card"}]]
  /\ drv \in [Threads -> [pc : {"idle", "pinned", "wait_invldt", "lock", "wait_dma"},
                           op : {"none", "fault", "offload", "sync", "release",
                                 "release_all"},
                           cpid : Cpids \cup {NULL}, r : Region \cup {NULL},
                           s : Pages, n : 0 .. NPages, host : BOOLEAN,
                           vaddr : Pages, bkt : 0 .. NBuckets]]
  /\ ret \in [Threads -> {0, 1, -ENOMEM}]
  /\ lock \in [{"offload", "sync"} -> Threads \cup {NULL}]

(* Region Lookup and Page Pinner (map_present's clipping, feeding           *)
(* tlb_get_user_pages): no two regions of one cpid share a page, whatever  *)
(* order the hash walk visits them in.                                     *)
NoOverlap ==
  \A c \in Cpids : \A i, j \in DOMAIN Entries(c) :
    i # j => RegionPages(Entries(c)[i]) \cap RegionPages(Entries(c)[j]) = {}

(* TLB Programmer and the unmap-before-change order of every caller: any   *)
(* translation the card may still use points into a live region of its    *)
(* cpid, at the copy that region's host flag names.  tlb_unmap_gup must    *)
(* have drained before a host flag flips or pages are put.                 *)
TlbCoherent ==
  \A t \in tlb : \E r \in Live(t.cpid) : t.page \in RegionPages(r) /\ t.loc = Loc(r)

(* Migration Engine and Fault Orchestrator: whenever no entry point is in  *)
(* progress, the copy each live region's host flag names holds the newest  *)
(* data of every page of it: no migration copied stale data over newer,    *)
(* and no card write was lost to a copy in flight.                         *)
DataIntegrity ==
  (\A t \in Threads : drv[t].pc = "idle") =>
    \A c \in Cpids : \A r \in Live(c) : \A p \in RegionPages(r) : Loc(r) \in fresh[c][p]

(* TLB Programmer and Migration Engine, while entry points are blocked as  *)
(* well as between them: every translation the card holds reaches a copy  *)
(* with the newest data of its page.  tlb_map_gup may only run after the    *)
(* copy of migrate_to_card_gup / migrate_to_host_gup has completed, and no  *)
(* translation may survive into a copy the card or a migration made stale. *)
CardSeesNewest ==
  \A x \in tlb : x.loc \in fresh[x.cpid][x.page]

(* Page Pinner and release: every page reference get_user_pages_remote    *)
(* took is held by exactly one region, in the table or in the hands of a   *)
(* thread about to hash_add it; failed pins and releases give back exactly *)
(* what they took.                                                         *)
PinBalance ==
  \A c \in Cpids : \A p \in Pages :
    pinned[c][p] =
      Cardinality({i \in DOMAIN Entries(c) : p \in RegionPages(Entries(c)[i])})
      + Cardinality({t \in Threads : drv[t].pc = "pinned" /\ drv[t].cpid = c
                                     /\ p \in RegionPages(drv[t].r)})

(* Every entry point that blocks on the card eventually returns.           *)
EntryPointsReturn == \A t \in Threads : drv[t].pc # "idle" ~> drv[t].pc = "idle"

(* mmu_handler_gup serves the fault it blocked for: once a thread is in a *)
(* fault on page p (pinning, unmapping or migrating the region), the card  *)
(* eventually holds a translation of p.  tlb_map_gup fires pages from the  *)
(* fault's start, not the region's, after the migration's copy; a handler  *)
(* that mapped other pages would leave the card faulting on p for ever.    *)
FaultResolved ==
  \A t \in Threads, c \in Cpids, p \in Pages :
    (drv[t].op = "fault" /\ drv[t].cpid = c /\ drv[t].s = p)
      ~> \E x \in tlb : x.cpid = c /\ x.page = p

(* tlb_put_user_pages_cpid: once it returns, cpid c has no region left.    *)
ReleaseAllEmpties ==
  [][\A t \in Threads, c \in Cpids :
       drv[t].op = "release_all" /\ drv[t].cpid = c /\ drv'[t].pc = "idle"
         => Live(c)' = {}]_vars

(* tlb_put_user_pages(c, v) releases only a region holding page v.         *)
ReleaseTargetsAddress ==
  \A t \in Threads : drv[t].op = "release" => drv[t].vaddr \in RegionPages(drv[t].r)

(* offload_user_gup and sync_user_gup report "not found" (1) only when no  *)
(* region of cpid c contains page v.                                       *)
UserMigrationFindsRegion ==
  [][\A t \in Threads, c \in Cpids, v \in Pages :
       (offload_user_gup(t, c, v) \/ sync_user_gup(t, c, v)) /\ ret'[t] = 1
         => ~\E r \in Live(c) : Covers(r, v)]_vars

(* tlb_map_gup writes no more map_array entries than it allocated.         *)
MapArrayInBounds == batch.written <= batch.capacity


-----------------------------------------------------------------------------
(* The driver implements RegionTable: the live regions of the hash table   *)
(* are its regions and the card's tlb its translations.                    *)
RT == INSTANCE RegionTable WITH regions <- [c \in Cpids |-> Live(c)], mapped <- tlb

(* Every step of the driver and the card is a step of RegionTable: regions *)
(* are pinned disjoint, mapped only at their copy, and flipped by          *)
(* migrate_gup or released by tlb_put_user_pages(_cpid) only after the     *)
(* card has processed every invalidation tlb_unmap_gup sent for them.      *)
RegionTableRefined == RT!Spec

=============================================================================
