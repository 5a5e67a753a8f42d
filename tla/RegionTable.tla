----------------------------- MODULE RegionTable -----------------------------
(***************************************************************************)
(* What the driver's memory management promises the card, independent of  *)
(* hash buckets, command queues and waits.  Each cpid owns a set of       *)
(* disjoint pinned regions, each resident on the host or on the card; the *)
(* card holds translations of pages.  A translation is only ever installed *)
(* for a page of a live region, pointing at the copy that region is       *)
(* resident in; a region changes residence or is released only when the   *)
(* card holds no translation of any page of it.  Translations disappear    *)
(* one page at a time, as the card processes invalidations.                *)
(***************************************************************************)
EXTENDS Integers

CONSTANTS Cpids, NPages

Pages == 0 .. NPages - 1
Region == [vaddr : Pages, n_pages : 1 .. NPages, host : BOOLEAN]
Loc(r) == IF r.host THEN "host" ELSE "card"
RegionPages(r) == r.vaddr .. r.vaddr + r.n_pages - 1

VARIABLES
  regions, \* [Cpids -> SUBSET Region]: the live regions of each cpid
  mapped   \* set of [cpid, page, loc]: translations the card may use

absvars == <<regions, mapped>>

(* No translation of cpid c points into region r.                          *)
Unmapped(c, r) == \A t \in mapped : t.cpid = c => t.page \notin RegionPages(r)

(* The card translates pages P of region r of cpid c to r's copy.          *)
MapPages(c, r, P) ==
  mapped' = {t \in mapped : t.cpid # c \/ t.page \notin P}
              \cup {[cpid |-> c, page |-> p, loc |-> Loc(r)] : p \in P}

Init ==
  /\ regions = [c \in Cpids |-> {}]
  /\ mapped = {}

(* A new region, disjoint from the live ones, possibly mapped at once.     *)
Pin(c, r) ==
  /\ \A o \in regions[c] : RegionPages(o) \cap RegionPages(r) = {}
  /\ regions' = [regions EXCEPT ![c] = @ \cup {r}]
  /\ \/ UNCHANGED mapped
     \/ \E P \in SUBSET RegionPages(r) : MapPages(c, r, P)

Map(c, r) ==
  /\ r \in regions[c]
  /\ \E P \in SUBSET RegionPages(r) : MapPages(c, r, P)
  /\ UNCHANGED regions

Invalidate(c, p) ==
  /\ mapped' = {t \in mapped : ~(t.cpid = c /\ t.page = p)}
  /\ UNCHANGED regions

Migrate(c, r) ==
  /\ r \in regions[c]
  /\ Unmapped(c, r)
  /\ regions' = [regions EXCEPT ![c] = (@ \ {r}) \cup {[r EXCEPT !.host = ~r.host]}]
  /\ UNCHANGED mapped

Release(c, r) ==
  /\ r \in regions[c]
  /\ Unmapped(c, r)
  /\ regions' = [regions EXCEPT ![c] = @ \ {r}]
  /\ UNCHANGED mapped

Next ==
  \E c \in Cpids :
    \/ \E r \in Region : Pin(c, r) \/ Map(c, r) \/ Migrate(c, r) \/ Release(c, r)
    \/ \E p \in Pages : Invalidate(c, p)

Spec == Init /\ [][Next]_absvars
=============================================================================
