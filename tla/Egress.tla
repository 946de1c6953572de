------------------------------- MODULE Egress -------------------------------
(***************************************************************************)
(* The host's egress firewall: two sets of addresses whose elements time   *)
(* out after an hour, built by apply and kept alive by refresh, which a    *)
(* timer runs every three minutes (infra/egress/nftables.sh).              *)
(*                                                                         *)
(* apply and refresh are units of their own and may overlap.  Addresses    *)
(* come and go with the answers of the name servers.  Time is counted in   *)
(* ticks, and an element carries the ticks it has left.                    *)
(***************************************************************************)
EXTENDS Naturals, Allowlist

CONSTANTS
  Addresses,   \* that ResolvedNames resolve to
  Nets,        \* the ranges AWS publishes for S3
  Timeout      \* of an element, in ticks

ASSUME EgressConstants == Timeout \in Nat \ {0} /\ Addresses \cap Nets = {}

VARIABLES
  table,     \* the table is loaded
  held,      \* per element: ticks left, 0 when it is not in its set
  cache,     \* the ranges last fetched
  apply,     \* the apply unit: off, or the table is deleted and the ruleset rendered
  refresh,   \* the refresh unit: how far it is, what it resolved, what it listed
  proven,    \* history: ticks for which an answer put by now is due to be held
  wiped      \* history: of these, what an apply or a boot has deleted and none has put since

egressVars == <<table, held, cache, apply, refresh, proven, wiped>>

Elements == Addresses \cup Nets
Off      == [at |-> "off", ips |-> {}, nets |-> {}, listed |-> {}, waited |-> 0]
Absent   == [x \in Elements |-> 0]

EgressInit ==
  /\ table = FALSE /\ held = Absent /\ cache = {}
  /\ apply = "off" /\ refresh = Off /\ proven = Absent /\ wiped = {}

-----------------------------------------------------------------------------
\* resolve_ipv4: whatever the servers answer, nothing if they do not.  A name
\* that answers with one address of many answers with another the next time.
Resolved == SUBSET Addresses

\* aws_s3_cidrs: what is published, or what was published last.
Fetched(nets) == IF nets = {} THEN cache ELSE nets

-----------------------------------------------------------------------------
(* apply: at boot, by hand, and after a deploy that recreated the network. *)

Due == {x \in Elements : proven[x] > 0}

\* The delete opens the firewall until the new table is loaded, and every answer
\* that the sets have gathered goes with it.
DeleteTable ==
  /\ apply = "off"
  /\ apply' = "render"
  /\ table' = FALSE /\ held' = Absent /\ wiped' = Due
  /\ UNCHANGED <<cache, refresh, proven>>

\* A load takes place as a whole.  With nothing resolved the sets are empty.
LoadTable ==
  /\ apply = "render"
  /\ apply' = "off"
  /\ \E ips \in Resolved, published \in {{}, Nets} :
       /\ cache' = Fetched(published)
       /\ table' = TRUE
       /\ LET elements == ips \cup Fetched(published) IN
          /\ held' = [x \in Elements |-> IF x \in elements THEN Timeout ELSE 0]
          /\ proven' = [x \in Elements |-> IF x \in elements THEN Timeout ELSE proven[x]]
          /\ wiped' = wiped \ elements
  /\ UNCHANGED refresh

\* The ruleset is refused, or there is no allowlist to render.
LoadFails ==
  /\ apply = "render"
  /\ apply' = "off"
  /\ UNCHANGED <<table, held, cache, refresh, proven, wiped>>

-----------------------------------------------------------------------------
(* refresh: resolve both, then each set in turn.                           *)

Resolve ==
  /\ refresh.at = "off"
  /\ \E ips \in Resolved, published \in {{}, Nets} :
       /\ cache' = Fetched(published)
       /\ refresh' = [Off EXCEPT !.at = "hosts", !.ips = ips, !.nets = Fetched(published)]
  /\ UNCHANGED <<table, held, apply, proven, wiped>>

At(set) == refresh.at = set

Wanted(set) == IF set = "hosts" THEN refresh.ips ELSE refresh.nets

Members(set) == IF set = "hosts" THEN Addresses ELSE Nets

Listing(set) == IF set = "hosts" THEN "hosts listed" ELSE "nets listed"

Finished(set) == IF set = "hosts" THEN [refresh EXCEPT !.at = "nets", !.listed = {}, !.waited = 0] ELSE Off

\* With nothing resolved there is nothing to refresh.  A set that cannot be read
\* fails the unit.
ListSet(set) ==
  /\ At(set)
  /\ refresh' = IF Wanted(set) = {} THEN Finished(set)
                ELSE IF table THEN [refresh EXCEPT !.at = Listing(set),
                                                   !.listed = {x \in Members(set) : held[x] > 0}]
                ELSE Off
  /\ UNCHANGED <<table, held, cache, apply, proven, wiped>>

Deleted(set) == Wanted(set) \cap refresh.listed

\* Mutant: elements are added, those that are there as well.
PutBatchMutant(set) ==
  /\ At(Listing(set))
  /\ IF table
     THEN /\ held' = [x \in Elements |-> IF x \in Wanted(set) /\ held[x] = 0 THEN Timeout ELSE held[x]]
          /\ proven' = [x \in Elements |-> IF x \in Wanted(set) THEN Timeout - refresh.waited ELSE proven[x]]
          /\ wiped' = wiped \ Wanted(set)
          /\ refresh' = Finished(set)
     ELSE UNCHANGED <<held, proven, wiped>> /\ refresh' = Off
  /\ UNCHANGED <<table, cache, apply>>

\* render_refresh_batch: one transaction deletes what was listed and adds all of
\* it.  A delete of what is gone, or a table that is, undoes it.  An add of what
\* has come in the meantime leaves its time as it is.
PutBatch(set) ==
  /\ At(Listing(set))
  /\ IF table /\ \A x \in Deleted(set) : held[x] > 0
     THEN /\ LET timed == {x \in Wanted(set) : x \in refresh.listed \/ held[x] = 0}
             IN held' = [x \in Elements |-> IF x \in timed THEN Timeout ELSE held[x]]
          /\ proven' = [x \in Elements |-> IF x \in Wanted(set) THEN Timeout - refresh.waited ELSE proven[x]]
          /\ wiped' = wiped \ Wanted(set)
          /\ refresh' = Finished(set)
     ELSE UNCHANGED <<held, proven, wiped>> /\ refresh' = Off
  /\ UNCHANGED <<table, cache, apply>>

-----------------------------------------------------------------------------
\* Elements age, in a table that is there.  (Between the listing and its batch
\* there is less than a tick, so one may end there and not two.)
Ages(f) == [x \in Elements |-> IF f[x] = 0 THEN 0 ELSE f[x] - 1]

Tick ==
  /\ refresh.waited = 0
  /\ held' = Ages(held) /\ proven' = Ages(proven)
  /\ wiped' = {x \in wiped : proven'[x] > 0}
  /\ refresh' = IF \E set \in {"hosts", "nets"} : At(Listing(set))
                THEN [refresh EXCEPT !.waited = 1] ELSE refresh
  /\ UNCHANGED <<table, cache, apply>>

\* The host boots: the table is gone, the cache is on disk.
Reboot ==
  /\ table' = FALSE /\ held' = Absent /\ wiped' = Due
  /\ apply' = "off" /\ refresh' = Off
  /\ UNCHANGED <<cache, proven>>

EgressNext ==
  \/ DeleteTable \/ LoadTable \/ LoadFails
  \/ Resolve
  \/ \E set \in {"hosts", "nets"} : ListSet(set) \/ PutBatch(set)
  \/ Tick \/ Reboot

-----------------------------------------------------------------------------
(* Properties.                                                             *)

\* A refresh loses nothing: what any unit has put in the last hour is in its set,
\* an address of a name that rotates, and one that never changes and is put again
\* and again, whatever runs beside it, expires or fails in between.  It is only
\* an apply or a boot that wipes an answer, until one of them or a refresh is
\* given it again.
SeenIsHeld == \A x \in Elements : proven[x] > 0 => (table /\ held[x] > 0) \/ x \in wiped
=============================================================================
