------------------------------ MODULE HostProofs ------------------------------
(***************************************************************************)
(* What the parts of the host keep to, for any number of addresses,        *)
(* segments, bases, probes, releases and deploys, any timeout and any      *)
(* environment: the firewall holds what it has seen and opens to what the  *)
(* allowlist allows, a base can be replayed up to whatever was shipped     *)
(* behind it, no migration is run twice, a deploy tells what it did,       *)
(* versions only go forward, the watch tells what begins and only that, no *)
(* span is lost unseen, and what the loaders accept the parts can run with.*)
(***************************************************************************)
EXTENDS Host, Routing, TLAPS, SequenceTheorems, FiniteSetTheorems

-----------------------------------------------------------------------------
(* The firewall.                                                           *)

Points == {"off", "hosts", "nets", "hosts listed", "nets listed"}

Refreshing == [at : Points, ips : SUBSET Addresses, nets : SUBSET Nets,
               listed : SUBSET Elements, waited : {0, 1}]

EgressType ==
  /\ table \in BOOLEAN
  /\ held \in [Elements -> Nat] /\ proven \in [Elements -> Nat]
  /\ cache \subseteq Nets
  /\ refresh \in Refreshing

\* Elements are in a table; what is due to be held and was not wiped is held
\* as long; what a listing did not show, and is there now, has come since and loses one tick at
\* most before its batch.
InTable   == /\ ~table => \A x \in Elements : held[x] = 0
             /\ apply = "render" => ~table
DueIsHeld == \A x \in Elements : x \in wiped \/ proven[x] <= held[x]
NewIsLate == \A set \in {"hosts", "nets"} : \A x \in Members(set) :
  refresh.at = Listing(set) /\ x \notin refresh.listed /\ held[x] > 0
    => held[x] >= Timeout - refresh.waited

EgressInv == EgressType /\ InTable /\ DueIsHeld /\ NewIsLate

\* The refresh unit's record, and what the steps make of it.
LEMMA RefreshFields ==
  ASSUME refresh \in Refreshing
  PROVE  /\ refresh.ips \subseteq Addresses /\ refresh.nets \subseteq Nets
         /\ refresh.listed \subseteq Elements /\ refresh.waited \in {0, 1}
  BY DEF Refreshing

LEMMA OffIsOff == Off \in Refreshing /\ Off.at = "off" /\ Off.waited = 0
  BY DEF Off, Refreshing, Points

LEMMA FinishedIsNext ==
  ASSUME refresh \in Refreshing, NEW set \in {"hosts", "nets"}
  PROVE  Finished(set) \in Refreshing /\ Finished(set).at \in {"nets", "off"}
<1>1. CASE set = "hosts"
  BY <1>1 DEF Finished, Refreshing, Points
<1>2. CASE set = "nets"
  BY <1>2, OffIsOff DEF Finished
<1> QED
  BY <1>1, <1>2

LEMMA ResolvedIsRefreshing ==
  ASSUME NEW ips \in SUBSET Addresses, NEW nets \in SUBSET Nets
  PROVE  LET q == [Off EXCEPT !.at = "hosts", !.ips = ips, !.nets = nets]
         IN  q \in Refreshing /\ q.at = "hosts"
  BY DEF Off, Refreshing, Points

LEMMA TickedIsRefreshing ==
  ASSUME NEW r \in Refreshing
  PROVE  LET q == [r EXCEPT !.waited = 1]
         IN  q \in Refreshing /\ q.at = r.at /\ q.listed = r.listed /\ q.waited = 1
  BY DEF Refreshing

\* Where nothing was listed there is nothing to be late for.
LEMMA NothingListed ==
  ASSUME refresh.at \in {"off", "hosts", "nets"}
  PROVE  NewIsLate
  BY DEF NewIsLate, Listing

LEMMA MembersAreElements ==
  /\ \A set : Members(set) \subseteq Elements
  /\ refresh \in Refreshing => \A set : Wanted(set) \subseteq Members(set)
  BY RefreshFields DEF Members, Elements, Wanted

LEMMA AbsentIsNone == Absent \in [Elements -> Nat] /\ \A x \in Elements : Absent[x] = 0
  BY DEF Absent

LEMMA EgressStarts == EgressInit => EgressInv
<1> SUFFICES ASSUME EgressInit PROVE EgressInv
  OBVIOUS
<1>1. refresh \in Refreshing /\ refresh.at = "off"
  BY OffIsOff DEF EgressInit
<1>2. EgressType
  BY <1>1, AbsentIsNone DEF EgressInit, EgressType
<1>3. InTable /\ DueIsHeld
  BY AbsentIsNone DEF EgressInit, InTable, DueIsHeld
<1> QED
  BY <1>1, <1>2, <1>3, NothingListed DEF EgressInv

LEMMA EgressApplies ==
  ASSUME EgressInv, DeleteTable \/ LoadTable \/ LoadFails \/ Reboot
  PROVE  EgressInv'
<1> USE EgressConstants DEF EgressInv
<1>1. CASE DeleteTable \/ Reboot
  <2>1. /\ table' = FALSE /\ held' = Absent /\ wiped' = Due /\ UNCHANGED <<cache, proven>>
        /\ refresh' \in {refresh, Off}
    BY <1>1 DEF DeleteTable, Reboot
  <2>2. refresh' \in Refreshing
    BY <2>1, OffIsOff DEF EgressType
  <2>3. EgressType'
    BY <2>1, <2>2, AbsentIsNone DEF EgressType
  <2>4. InTable' /\ DueIsHeld'
    BY <2>1, AbsentIsNone DEF InTable, DueIsHeld, Due, EgressType
  <2>5. NewIsLate'
    BY <2>1, AbsentIsNone, MembersAreElements DEF NewIsLate
  <2> QED
    BY <2>3, <2>4, <2>5
<1>2. CASE LoadTable
  <2>1. PICK ips \in SUBSET Addresses, published \in {{}, Nets} :
          /\ cache' = Fetched(published) /\ table' = TRUE
          /\ held' = [x \in Elements |-> IF x \in ips \cup Fetched(published) THEN Timeout ELSE 0]
          /\ proven' = [x \in Elements |-> IF x \in ips \cup Fetched(published) THEN Timeout ELSE proven[x]]
          /\ wiped' = wiped \ (ips \cup Fetched(published)) /\ UNCHANGED refresh
    BY <1>2 DEF LoadTable, Resolved
  <2>2. cache' \subseteq Nets
    BY <2>1 DEF EgressType, Fetched
  <2>3. held' \in [Elements -> Nat] /\ \A x \in Elements : held'[x] \in {0, Timeout}
    BY <2>1
  <2>4. EgressType' /\ InTable'
    BY <1>2, <2>1, <2>2, <2>3 DEF EgressType, InTable, LoadTable
  <2>6. DueIsHeld'
    <3>1. SUFFICES ASSUME NEW x \in Elements PROVE x \in wiped' \/ proven'[x] <= held'[x]
      BY DEF DueIsHeld
    <3>2. held[x] = 0 /\ proven[x] \in Nat /\ (x \in wiped \/ proven[x] <= held[x])
      BY <1>2 DEF LoadTable, InTable, DueIsHeld, EgressType
    <3> QED
      BY <2>1, <3>2
  <2>5. NewIsLate'
    <3>1. \A x \in Elements : held'[x] > 0 => held'[x] >= Timeout - refresh.waited
      BY <2>3, RefreshFields DEF EgressType
    <3> QED
      BY <2>1, <3>1, MembersAreElements DEF NewIsLate
  <2> QED
    BY <2>4, <2>5, <2>6
<1>3. CASE LoadFails
  BY <1>3 DEF LoadFails, EgressType, InTable, DueIsHeld, NewIsLate
<1> QED
  BY <1>1, <1>2, <1>3

\* One batch gives each address it names its whole time, or leaves it more than
\* was due.
LEMMA EgressPuts ==
  ASSUME EgressInv, NEW set \in {"hosts", "nets"}, PutBatch(set)
  PROVE  EgressInv'
<1> USE EgressConstants DEF EgressInv
<1>1. refresh.at = Listing(set) /\ UNCHANGED <<table, cache, apply>>
  BY DEF PutBatch, At
<1>2. refresh' \in {Finished(set), Off}
  BY DEF PutBatch
<1>3. NewIsLate' /\ refresh' \in Refreshing
  <2>1. refresh' \in Refreshing /\ refresh'.at \in {"nets", "off"}
    BY <1>2, FinishedIsNext, OffIsOff DEF EgressType
  <2> QED
    BY <2>1 DEF NewIsLate, Listing
<1>4. CASE UNCHANGED <<held, proven, wiped>>
  BY <1>1, <1>3, <1>4 DEF EgressType, InTable, DueIsHeld
<1>5. CASE ~UNCHANGED <<held, proven, wiped>>
  <2>1. /\ table
        /\ held' = [x \in Elements |-> IF x \in {y \in Wanted(set) : y \in refresh.listed \/ held[y] = 0}
                                       THEN Timeout ELSE held[x]]
        /\ proven' = [x \in Elements |-> IF x \in Wanted(set) THEN Timeout - refresh.waited
                                         ELSE proven[x]]
        /\ wiped' = wiped \ Wanted(set)
    BY <1>5 DEF PutBatch
  <2>2. Timeout - refresh.waited \in Nat /\ Timeout - refresh.waited <= Timeout
    BY RefreshFields DEF EgressType
  <2>3. held' \in [Elements -> Nat] /\ proven' \in [Elements -> Nat]
    BY <2>1, <2>2 DEF EgressType
  <2>4. DueIsHeld'
    <3>1. SUFFICES ASSUME NEW x \in Elements, x \notin wiped \/ x \in Wanted(set)
                   PROVE  proven'[x] <= held'[x]
      BY <2>1 DEF DueIsHeld
    <3>2. (x \in wiped \/ proven[x] <= held[x]) /\ held[x] \in Nat /\ proven[x] \in Nat
      BY DEF DueIsHeld, EgressType
    <3>3. x \in Wanted(set) /\ x \notin refresh.listed /\ held[x] # 0
            => held[x] >= Timeout - refresh.waited
      BY <1>1, <3>2, MembersAreElements DEF NewIsLate, EgressType
    <3>4. CASE x \notin Wanted(set)
      BY <2>1, <3>1, <3>2, <3>4
    <3>5. CASE x \in Wanted(set) /\ (x \in refresh.listed \/ held[x] = 0)
      BY <2>1, <2>2, <3>5
    <3>6. CASE x \in Wanted(set) /\ x \notin refresh.listed /\ held[x] # 0
      BY <2>1, <2>2, <3>3, <3>6
    <3> QED
      BY <3>4, <3>5, <3>6
  <2> QED
    BY <1>1, <1>3, <2>1, <2>3, <2>4 DEF EgressType, InTable
<1> QED
  BY <1>4, <1>5

LEMMA EgressRefreshes ==
  ASSUME EgressInv, Resolve \/ (\E set \in {"hosts", "nets"} : ListSet(set)) \/ Tick
  PROVE  EgressInv'
<1> USE EgressConstants DEF EgressInv
<1>1. CASE Resolve
  <2>1. PICK ips \in SUBSET Addresses, published \in {{}, Nets} :
          /\ cache' = Fetched(published)
          /\ refresh' = [Off EXCEPT !.at = "hosts", !.ips = ips, !.nets = Fetched(published)]
          /\ UNCHANGED <<table, held, apply, proven, wiped>>
    BY <1>1 DEF Resolve, Resolved
  <2>2. Fetched(published) \subseteq Nets
    BY <2>1 DEF Fetched, EgressType
  <2>3. refresh' \in Refreshing /\ refresh'.at = "hosts"
    BY <2>1, <2>2, ResolvedIsRefreshing
  <2>4. NewIsLate'
    BY <2>3 DEF NewIsLate, Listing
  <2> QED
    BY <2>1, <2>2, <2>3, <2>4 DEF EgressType, InTable, DueIsHeld
<1>2. ASSUME NEW set \in {"hosts", "nets"}, ListSet(set) PROVE EgressInv'
  <2>1. UNCHANGED <<table, held, cache, apply, proven, wiped>>
    BY <1>2 DEF ListSet
  <2>2. refresh' \in Refreshing /\ NewIsLate'
    <3>1. CASE refresh' \in {Finished(set), Off}
      <4>1. refresh' \in Refreshing /\ refresh'.at \in {"nets", "off"}
        BY <3>1, FinishedIsNext, OffIsOff DEF EgressType
      <4> QED
        BY <4>1 DEF NewIsLate, Listing
    <3>2. CASE refresh' = [refresh EXCEPT !.at = Listing(set),
                                          !.listed = {x \in Members(set) : held[x] > 0}]
      <4>1. Listing(set) \in Points /\ {x \in Members(set) : held[x] > 0} \in SUBSET Elements
        BY MembersAreElements DEF Listing, Points
      <4>2. /\ refresh' \in Refreshing /\ refresh'.at = Listing(set)
            /\ refresh'.listed = {x \in Members(set) : held[x] > 0}
        <5> DEFINE a == Listing(set)
                   l == {x \in Members(set) : held[x] > 0}
        <5>1. a \in Points /\ l \in SUBSET Elements /\ refresh \in Refreshing
              /\ refresh' = [refresh EXCEPT !.at = a, !.listed = l]
          BY <3>2, <4>1 DEF EgressType
        <5> HIDE DEF a, l
        <5>2. refresh' \in Refreshing /\ refresh'.at = a /\ refresh'.listed = l
          BY <5>1 DEF Refreshing
        <5> QED
          BY <5>2 DEF a, l
      <4>3. ASSUME NEW other \in {"hosts", "nets"}, other # set PROVE Listing(other) # Listing(set)
        <5>1. CASE set = "hosts" /\ other = "nets"
          BY <5>1 DEF Listing
        <5>2. CASE set = "nets" /\ other = "hosts"
          BY <5>2 DEF Listing
        <5> QED
          BY <4>3, <5>1, <5>2
      <4> QED
        BY <2>1, <4>2, <4>3 DEF NewIsLate
    <3> QED
      BY <1>2, <3>1, <3>2 DEF ListSet
  <2> QED
    BY <2>1, <2>2 DEF EgressType, InTable, DueIsHeld
<1>3. CASE Tick
  <2>1. /\ refresh.waited = 0 /\ UNCHANGED <<table, cache, apply>>
        /\ held' = Ages(held) /\ proven' = Ages(proven) /\ wiped' = {x \in wiped : proven'[x] > 0}
    BY <1>3 DEF Tick
  <2>2. \A f \in [Elements -> Nat] :
          Ages(f) \in [Elements -> Nat] /\ \A x \in Elements : Ages(f)[x] = IF f[x] = 0 THEN 0 ELSE f[x] - 1
    BY DEF Ages
  <2>3. /\ refresh' \in Refreshing /\ refresh'.at = refresh.at /\ refresh'.listed = refresh.listed
        /\ \A set \in {"hosts", "nets"} : refresh.at = Listing(set) => refresh'.waited = 1
    BY <1>3, TickedIsRefreshing DEF Tick, At, EgressType
  <2>4. EgressType' /\ InTable'
    BY <2>1, <2>2, <2>3 DEF EgressType, InTable
  <2>5. DueIsHeld'
    BY <2>1, <2>2 DEF EgressType, DueIsHeld
  <2>6. NewIsLate'
    <3>1. SUFFICES ASSUME NEW set \in {"hosts", "nets"}, NEW x \in Members(set),
                          refresh.at = Listing(set), x \notin refresh.listed, held'[x] > 0
                   PROVE  held'[x] >= Timeout - 1
      BY <2>3 DEF NewIsLate
    <3>2. x \in Elements /\ held[x] \in Nat /\ held'[x] = IF held[x] = 0 THEN 0 ELSE held[x] - 1
      BY <2>1, <2>2, MembersAreElements DEF EgressType
    <3>3. held[x] > 0 => held[x] >= Timeout
      BY <2>1, <3>1 DEF NewIsLate
    <3> QED
      BY <3>1, <3>2, <3>3
  <2> QED
    BY <2>4, <2>5, <2>6
<1> QED
  BY <1>1, <1>2, <1>3

LEMMA EgressSteps == EgressInv /\ [HostNext]_hostVars => EgressInv'
<1> SUFFICES ASSUME EgressInv, [HostNext]_hostVars PROVE EgressInv'
  OBVIOUS
<1>1. CASE UNCHANGED egressVars
  BY <1>1 DEF egressVars, EgressInv, EgressType, InTable, DueIsHeld, NewIsLate
<1>2. CASE EgressNext
  BY <1>2, EgressApplies, EgressPuts, EgressRefreshes DEF EgressNext
<1> QED
  BY <1>1, <1>2 DEF HostNext, hostVars

\* An address that any unit has put in the last hour is in its set, whatever runs
\* beside it, expires or fails in between, unless an apply or a boot has wiped it
\* and none has put it since.
THEOREM SeenIsHeldHolds == HostSpec => []SeenIsHeld
<1>1. HostInit => EgressInv
  BY EgressStarts DEF HostInit
<1>2. EgressInv => SeenIsHeld
  BY DEF EgressInv, EgressType, InTable, DueIsHeld, SeenIsHeld
<1> QED
  BY <1>1, <1>2, EgressSteps, PTL DEF HostSpec

-----------------------------------------------------------------------------
(* The backups.                                                            *)

Bases == [ends : Nat, parts : SUBSET Parts]

\* The slot is without a receiver, or where it has flushed to.
BackupType ==
  /\ wal \in 0 .. MaxSegments /\ slot \in Nat /\ since \in Nat
  /\ \/ slot \in {NoSlot, Unreserved} /\ since = NoSlot
     \/ since <= slot /\ slot <= wal
  /\ spool \subseteq Segments
  /\ s3 \in [Segments -> {"none", "whole", "cut"}]
  /\ bases \in Seq(Bases)

\* What is received and shipped is behind the slot.
SlotLeads ==
  /\ \A n \in spool : n <= slot /\ n <= wal
  /\ \A n \in Segments : s3[n] # "none" => n <= wal

\* The shipper puts the oldest segment, and removes what it has put.
Ships1 ==
  /\ shipper = [at |-> shipper.at, seg |-> shipper.seg]
  /\ shipper.at = "put" => shipper.seg \in spool /\ \A m \in spool : shipper.seg <= m
Ships2 == shipper.at = "remove" => shipper.seg \in Segments /\ s3[shipper.seg] # "none"

\* From where the receiver began nothing is missing, and what was shipped was in order.
Covered == \A n \in since + 1 .. wal : s3[n] # "none" \/ n \in spool \/ n > slot
InOrder == \A n \in Segments : \A m \in since + 1 .. n : s3[n] # "none" => s3[m] # "none"

BackupInv == BackupType /\ SlotLeads /\ Ships1 /\ Ships2 /\ Covered /\ InOrder

LEMMA BackupStarts == BackupInit => BackupInv
<1> USE BackupConstants DEF BackupInit, NoSlot, Segments
<1>1. BackupInit => BackupType /\ SlotLeads
  <2> SUFFICES ASSUME BackupInit PROVE BackupType /\ SlotLeads
    OBVIOUS
  <2>1. /\ wal \in 0 .. MaxSegments /\ slot \in Nat /\ since \in Nat
        /\ slot \in {NoSlot, Unreserved} /\ since = NoSlot
    OBVIOUS
  <2>2. s3 \in [Segments -> {"none", "whole", "cut"}] /\ \A n \in Segments : s3[n] = "none"
    OBVIOUS
  <2>3. spool = {} /\ bases \in Seq(Bases)
    OBVIOUS
  <2> QED
    BY ONLY <2>1, <2>2, <2>3 DEF BackupType, SlotLeads
<1>2. BackupInit => Ships1 /\ Ships2 /\ Covered /\ InOrder
  BY DEF ShipperDown, Ships1, Ships2, Covered, InOrder
<1> QED
  BY <1>1, <1>2 DEF BackupInv

\* A segment behind the receiver's first is one.
LEMMA Positions ==
  ASSUME BackupType
  PROVE  /\ wal \in Nat /\ wal <= MaxSegments /\ slot \in Nat /\ since \in Nat
         /\ Segments = 1 .. MaxSegments /\ MaxSegments \in Nat
         /\ \A n \in since + 1 .. wal : n \in Segments
         /\ slot <= MaxSegments => since <= slot /\ slot <= wal
<1> QED
  BY BackupConstants DEF BackupType, Segments, NoSlot, Unreserved

LEMMA BackupReceives ==
  ASSUME BackupInv, WriteWal \/ StartSidecar \/ Attach \/ Receive \/ PickSegment \/ StopSidecar
  PROVE  BackupInv'
<1> USE BackupConstants DEF BackupInv, NoSlot, Unreserved, Segments
<1>1. CASE WriteWal
  <2>1. wal' = wal + 1 /\ wal < MaxSegments /\ UNCHANGED <<slot, since, spool, s3, shipper, bases, stops>>
    BY <1>1 DEF WriteWal
  <2>2. BackupType'
    BY <2>1, Positions DEF BackupType
  <2>3. SlotLeads' /\ Ships1' /\ Ships2' /\ InOrder'
    BY <2>1, Positions DEF BackupType, SlotLeads, Ships1, Ships2, InOrder
  <2>4. Covered'
    <3>1. SUFFICES ASSUME NEW n \in since + 1 .. wal + 1
                   PROVE  s3[n] # "none" \/ n \in spool \/ n > slot
      BY <2>1 DEF Covered
    <3>2. since <= wal
      BY <2>1, <3>1, Positions
    <3>3. slot <= wal /\ slot \in Nat /\ wal \in Nat /\ since \in Nat
      BY <3>2, Positions DEF BackupType
    <3>4. CASE n = wal + 1
      BY <3>3, <3>4
    <3>5. CASE n \in since + 1 .. wal
      BY <3>5 DEF Covered
    <3> QED
      BY <3>1, <3>3, <3>4, <3>5
  <2> QED
    BY <2>2, <2>3, <2>4
<1>2. CASE StartSidecar
  <2>1. /\ slot' = IF slot = NoSlot THEN Unreserved ELSE slot
        /\ shipper' = ShipperIdle /\ UNCHANGED <<wal, since, spool, s3, bases, stops>>
    BY <1>2 DEF StartSidecar
  <2>2. BackupType' /\ SlotLeads' /\ InOrder'
    BY <2>1, Positions DEF BackupType, SlotLeads, InOrder
  <2>3. Ships1' /\ Ships2'
    BY <2>1 DEF ShipperIdle, Ships1, Ships2
  <2>4. Covered'
    BY <2>1, Positions DEF Covered, BackupType
  <2> QED
    BY <2>2, <2>3, <2>4
<1>3. CASE Attach
  <2>1. slot' = wal /\ since' = wal /\ UNCHANGED <<wal, spool, s3, shipper, bases, stops>>
    BY <1>3 DEF Attach
  <2>2. BackupType' /\ SlotLeads' /\ Ships1' /\ Ships2'
    BY <2>1, Positions DEF BackupType, SlotLeads, Ships1, Ships2
  <2>3. Covered' /\ InOrder'
    BY <2>1, Positions DEF Covered, InOrder, SlotLeads
  <2> QED
    BY <2>2, <2>3
<1>4. CASE Receive
  <2>1. /\ slot < wal /\ slot' = slot + 1 /\ spool' = spool \cup {slot + 1}
        /\ UNCHANGED <<wal, since, s3, shipper, bases, stops>>
    BY <1>4 DEF Receive
  <2>2. /\ slot \in Nat /\ wal \in Nat /\ wal <= MaxSegments /\ since \in Nat /\ since <= slot
        /\ slot + 1 \in Segments
    BY <2>1, Positions DEF BackupType
  <2>3. BackupType' /\ InOrder'
    BY <2>1, <2>2 DEF BackupType, InOrder
  <2>4. SlotLeads'
    BY <2>1, <2>2 DEF BackupType, SlotLeads
  <2>5. Ships1' /\ Ships2'
    <3>1. \A n \in spool : n \in Nat /\ n <= slot + 1
      BY <2>2, Positions DEF BackupType, SlotLeads
    <3>2. Ships1'
      BY <2>1, <2>2, <3>1 DEF Ships1
    <3> QED
      BY <2>1, <3>2 DEF Ships2
  <2>6. Covered'
    BY <2>1, <2>2, Positions DEF Covered
  <2> QED
    BY <2>3, <2>4, <2>5, <2>6
<1>5. CASE PickSegment
  <2>1. PICK n \in spool :
          /\ \A m \in spool : n <= m
          /\ shipper' = [at |-> IF s3[n] = "none" THEN "put" ELSE "remove", seg |-> n]
    BY <1>5 DEF PickSegment
  <2>2. UNCHANGED <<wal, slot, since, spool, s3, bases, stops>>
    BY <1>5 DEF PickSegment
  <2>3. Ships1' /\ Ships2'
    BY <2>1, <2>2 DEF Ships1, Ships2, BackupType
  <2> QED
    BY <2>2, <2>3 DEF BackupType, SlotLeads, Covered, InOrder
<1>6. CASE StopSidecar
  <2>1. shipper' = ShipperDown /\ UNCHANGED <<wal, slot, since, spool, s3, bases>>
    BY <1>6 DEF StopSidecar
  <2>2. Ships1' /\ Ships2'
    BY <2>1 DEF ShipperDown, Ships1, Ships2
  <2> QED
    BY <2>1, <2>2 DEF BackupType, SlotLeads, Covered, InOrder
<1> QED
  BY <1>1, <1>2, <1>3, <1>4, <1>5, <1>6

\* The oldest segment of the spool has everything before it shipped, back to the first.
LEMMA BackupShips ==
  ASSUME BackupInv, PutSegment \/ EncryptFails \/ RemoveSegment
  PROVE  BackupInv'
<1> USE BackupConstants DEF BackupInv
<1>1. CASE PutSegment \/ EncryptFails
  <2> DEFINE seg == shipper.seg
  <2>1. PICK o \in {"whole", "cut"} : s3' = [s3 EXCEPT ![seg] = o]
    BY <1>1 DEF PutSegment, EncryptFails
  <2>2. /\ shipper.at = "put" /\ UNCHANGED <<wal, slot, since, spool, bases>>
        /\ shipper' = [shipper EXCEPT !.at = "remove"] \/ shipper' = ShipperDown
    BY <1>1 DEF PutSegment, EncryptFails
  <2>3. /\ seg \in spool /\ seg \in Segments /\ seg <= slot /\ seg <= wal
        /\ \A m \in spool : seg <= m
        /\ s3'[seg] # "none" /\ \A n \in Segments : n # seg => s3'[n] = s3[n]
        /\ slot \in Nat /\ wal \in Nat
    BY <2>1, <2>2, Positions DEF Ships1, SlotLeads, BackupType
  <2>4. BackupType' /\ SlotLeads'
    BY <2>1, <2>2, <2>3 DEF BackupType, SlotLeads
  <2>5. Ships1' /\ Ships2'
    <3> DEFINE put == [at |-> "remove", seg |-> seg]
    <3>1. shipper' = put \/ shipper' = ShipperDown
      BY <2>2 DEF Ships1
    <3>2. /\ shipper' = [at |-> shipper'.at, seg |-> shipper'.seg]
          /\ shipper'.at # "put" /\ (shipper'.at = "remove" => shipper'.seg = seg)
      BY <3>1 DEF ShipperDown
    <3> QED
      BY <2>3, <3>2 DEF Ships1, Ships2
  <2>6. Covered'
    BY <2>2, <2>3, Positions DEF Covered
  <2>7. InOrder'
    <3>1. SUFFICES ASSUME NEW n \in Segments, NEW m \in since + 1 .. n, s3'[n] # "none"
                   PROVE  s3'[m] # "none"
      BY <2>2 DEF InOrder
    <3>2. m \in Segments /\ since \in Nat
      BY Positions
    <3>3. CASE n # seg
      BY <2>3, <3>1, <3>2, <3>3 DEF InOrder
    <3>4. CASE n = seg /\ m # seg
      <4>1. m < seg /\ m \in since + 1 .. wal /\ m \notin spool /\ ~(m > slot)
        BY <2>3, <3>2, <3>4, Positions
      <4> QED
        BY <2>3, <3>2, <3>4, <4>1 DEF Covered
    <3>5. CASE m = seg
      BY <2>3, <3>5
    <3> QED
      BY <3>3, <3>4, <3>5
  <2> QED
    BY <2>4, <2>5, <2>6, <2>7
<1>2. CASE RemoveSegment
  <2>1. /\ shipper.at = "remove" /\ spool' = spool \ {shipper.seg} /\ shipper' = ShipperIdle
        /\ UNCHANGED <<wal, slot, since, s3, bases, stops>>
    BY <1>2 DEF RemoveSegment
  <2>2. Ships1' /\ Ships2'
    BY <2>1 DEF ShipperIdle, Ships1, Ships2
  <2>3. BackupType' /\ SlotLeads' /\ InOrder'
    BY <2>1 DEF BackupType, SlotLeads, InOrder
  <2>4. Covered'
    BY <2>1 DEF Covered, Ships2
  <2> QED
    BY <2>2, <2>3, <2>4
<1> QED
  BY <1>1, <1>2

\* A base is taken and put without a look at the slot.
LEMMA BackupBases ==
  ASSUME BackupInv, DumpBase \/ PutBase
  PROVE  BackupInv'
<1> USE BackupConstants DEF BackupInv
<1>1. UNCHANGED <<wal, slot, since, spool, s3, shipper>>
  BY DEF DumpBase, PutBase
<1>2. CASE DumpBase
  <2>1. [ends |-> wal, parts |-> {}] \in Bases
    BY Positions DEF Bases
  <2>2. bases' \in Seq(Bases)
    BY <1>2, <2>1, AppendProperties DEF DumpBase, BackupType
  <2> QED
    BY <1>1, <2>2 DEF BackupType, SlotLeads, Ships1, Ships2, Covered, InOrder
<1>3. CASE PutBase
  <2> DEFINE l    == Len(bases)
             base == [bases[l] EXCEPT !.parts = bases[l].parts \cup {NextPart(bases[l].parts)}]
  <2>1. l \in DOMAIN bases /\ bases[l] \in Bases
    BY <1>3 DEF PutBase, BackupType
  <2>2. base \in Bases
    BY <2>1 DEF Bases, NextPart, Parts
  <2>3. bases' = [bases EXCEPT ![l] = base]
    BY <1>3 DEF PutBase
  <2> HIDE DEF base
  <2>4. bases' \in Seq(Bases)
    BY <2>1, <2>2, <2>3, ExceptSeq DEF BackupType
  <2> QED
    BY <1>1, <2>4 DEF BackupType, SlotLeads, Ships1, Ships2, Covered, InOrder
<1> QED
  BY <1>2, <1>3

LEMMA BackupSteps == BackupInv /\ [HostNext]_hostVars => BackupInv'
<1> SUFFICES ASSUME BackupInv, [HostNext]_hostVars PROVE BackupInv'
  OBVIOUS
<1>1. CASE UNCHANGED backupVars
  BY <1>1 DEF backupVars, BackupInv, BackupType, SlotLeads, Ships1, Ships2, Covered, InOrder
<1>2. CASE BackupNext
  BY <1>2, BackupReceives, BackupShips, BackupBases DEF BackupNext
<1> QED
  BY <1>1, <1>2 DEF HostNext, hostVars

\* Whenever the sidecar stops and starts, and whenever bases are taken, no segment
\* behind a base that ends where the receiver had come or later is missing, and a
\* restore of it that comes to its end has replayed everything that was shipped.
THEOREM NoWalGapHolds == HostSpec => []NoWalGap
<1>1. HostInit => BackupInv
  BY BackupStarts DEF HostInit
<1>2. BackupInv => NoWalGap
  <2> SUFFICES ASSUME BackupInv PROVE NoWalGap
    OBVIOUS
  <2> USE DEF BackupInv
  <2>1. ASSUME NEW i \in DOMAIN bases, Followed(i)
        PROVE  \A n : bases[i].ends + 1 .. n \subseteq since + 1 .. n
    <3>1. bases[i] \in Bases
      BY <2>1, ElementOfSeq DEF BackupType
    <3>2. bases[i].ends \in Nat /\ since <= bases[i].ends /\ since \in Nat
      BY <2>1, <3>1, Positions DEF Bases, Followed
    <3> QED
      BY <3>2
  <2>2. ASSUME ~RestoreDies, NEW i \in Found, Followed(i), NEW n \in Segments, s3[n] = "whole"
        PROVE  Replays(i, n)
    <3>1. SUFFICES ASSUME NEW k \in bases[i].ends + 1 .. n PROVE s3[k] = "whole"
      BY DEF Replays
    <3>2. k \in since + 1 .. n
      BY <2>1, <2>2 DEF Found
    <3>3. k \in Segments /\ s3[k] # "none"
      BY <2>2, <3>2, Positions DEF InOrder
    <3>4. s3[k] # "cut"
      BY <2>2, <3>3 DEF RestoreDies
    <3> QED
      BY <3>3, <3>4 DEF BackupType
  <2>3. \A i \in DOMAIN bases : Followed(i) =>
          \A n \in bases[i].ends + 1 .. wal : s3[n] # "none" \/ n \in spool \/ n > slot
    BY <2>1 DEF Covered
  <2> QED
    BY <2>2, <2>3 DEF NoWalGap
<1> QED
  BY <1>1, <1>2, BackupSteps, PTL DEF HostSpec

-----------------------------------------------------------------------------
(* The migrations of a deploy's gate, and of the launches it leaves.       *)

MigrationType ==
  /\ clash = FALSE
  /\ mig = [r \in Runners |-> mig[r]]
  /\ \A r \in Runners : mig[r] = [at |-> mig[r].at, todo |-> mig[r].todo]

\* Who has the lock has it alone, and nothing of what it has to do is done.
LockIsHeld == \A q, r \in Runners : mig[q].at = "apply" /\ mig[r].at = "apply" => q = r
TodoIsNew  == \A r \in Runners : mig[r].at = "apply" => mig[r].todo \cap applied = {}

MigrationInv == MigrationType /\ LockIsHeld /\ TodoIsNew /\ MigratedOnce

LEMMA MigrationStarts == DeployInit => MigrationInv
<1>1. DeployInit => MigrationType /\ LockIsHeld /\ TodoIsNew
  BY DEF DeployInit, MigrationType, LockIsHeld, TodoIsNew, NotMigrating
<1> QED
  BY <1>1 DEF DeployInit, MigrationInv, MigratedOnce

\* Whoever is not at work behind a step was not, or had the lock before it.
LEMMA MigrationKept ==
  ASSUME MigrationInv, UNCHANGED <<applied, clash>>,
         mig' = [r \in Runners |-> mig'[r]],
         \A r \in Runners : \/ mig'[r] = mig[r] \/ mig'[r] = NotMigrating
                            \/ mig'[r] = [mig[r] EXCEPT !.at = "wait"]
  PROVE  MigrationInv'
<1> USE DEF MigrationInv
<1>1. \A r \in Runners : /\ mig'[r] = [at |-> mig'[r].at, todo |-> mig'[r].todo]
                         /\ mig'[r].at = "apply" => mig'[r] = mig[r]
  BY DEF MigrationType, NotMigrating
<1>2. MigrationType' /\ MigratedOnce'
  BY <1>1 DEF MigrationType, MigratedOnce
<1>3. LockIsHeld' /\ TodoIsNew'
  BY <1>1 DEF LockIsHeld, TodoIsNew
<1> QED
  BY <1>2, <1>3

LEMMA MigrationRuns ==
  ASSUME MigrationInv, NEW r \in Runners, StartMigrating(r) \/ ReadApplied(r) \/ Migrate(r)
  PROVE  MigrationInv'
<1> USE DEF MigrationInv
<1>1. CASE StartMigrating(r)
  <2>1. mig' = [mig EXCEPT ![r].at = "wait"] /\ UNCHANGED <<applied, clash>>
    BY <1>1 DEF StartMigrating
  <2> QED
    BY <2>1, MigrationKept DEF MigrationType
<1>2. CASE ReadApplied(r)
  <2>1. /\ \A q \in Runners : mig[q].at # "apply"
        /\ mig' = [mig EXCEPT ![r] = [at |-> "apply", todo |-> Ships(r) \ applied]]
        /\ UNCHANGED <<applied, clash>>
    BY <1>2 DEF ReadApplied
  <2>2. MigrationType' /\ MigratedOnce'
    BY <2>1 DEF MigrationType, MigratedOnce
  <2>3. LockIsHeld' /\ TodoIsNew'
    BY <2>1 DEF MigrationType, LockIsHeld, TodoIsNew
  <2> QED
    BY <2>2, <2>3
<1>3. CASE Migrate(r)
  <2>1. mig[r].at = "apply" /\ mig[r].todo \cap applied = {}
    BY <1>3 DEF Migrate, TodoIsNew
  <2>2. CASE mig' = [mig EXCEPT ![r] = NotMigrating] /\ UNCHANGED <<applied, clash>>
    BY <2>2, MigrationKept DEF MigrationType
  <2>3. CASE \E file \in mig[r].todo : /\ applied' = applied \cup {file}
                                       /\ mig' = [mig EXCEPT ![r].todo = @ \ {file}]
                                       /\ UNCHANGED clash
    <3>1. PICK file \in mig[r].todo : /\ applied' = applied \cup {file}
                                      /\ mig' = [mig EXCEPT ![r].todo = @ \ {file}]
                                      /\ UNCHANGED clash
      BY <2>3
    <3>2. /\ \A q \in Runners : q # r => mig'[q] = mig[q] /\ mig[q].at # "apply"
          /\ mig'[r] = [at |-> "apply", todo |-> mig[r].todo \ {file}]
          /\ mig' = [q \in Runners |-> mig'[q]]
      <4>1. \A q \in Runners : q # r => mig'[q] = mig[q] /\ mig[q].at # "apply"
        BY <2>1, <3>1 DEF MigrationType, LockIsHeld
      <4>2. mig[r] = [at |-> "apply", todo |-> mig[r].todo]
        BY <2>1 DEF MigrationType
      <4>3. mig'[r] = [mig[r] EXCEPT !.todo = mig[r].todo \ {file}]
        BY <3>1 DEF MigrationType
      <4>4. mig'[r] = [at |-> "apply", todo |-> mig[r].todo \ {file}]
        BY <4>2, <4>3
      <4>5. mig' = [q \in Runners |-> mig'[q]]
        BY <3>1 DEF MigrationType
      <4> QED
        BY <4>1, <4>4, <4>5
    <3>3. MigrationType' /\ MigratedOnce'
      BY <3>1, <3>2 DEF MigrationType, MigratedOnce
    <3>4. LockIsHeld'
      BY <3>2 DEF LockIsHeld
    <3>5. TodoIsNew'
      BY <2>1, <3>1, <3>2 DEF TodoIsNew
    <3> QED
      BY <3>3, <3>4, <3>5
  <2> QED
    <3>1. CASE mig[r].todo = {}
      BY <1>3, <2>2, <3>1 DEF Migrate, MigrationEnds
    <3>2. CASE mig[r].todo # {}
      <4>1. PICK file \in mig[r].todo :
              IF flaw = [what |-> "migration", tag |-> file] \/ file \in applied
              THEN /\ MigrationEnds(r, FALSE)
                   /\ clash' = (clash \/ ~(flaw = [what |-> "migration", tag |-> file]))
                   /\ UNCHANGED applied
              ELSE /\ applied' = applied \cup {file}
                   /\ mig' = [mig EXCEPT ![r].todo = @ \ {file}]
                   /\ UNCHANGED <<box, run, clash>>
        BY <1>3, <3>2 DEF Migrate
      <4>2. file \notin applied
        BY <2>1
      <4>3. CASE flaw = [what |-> "migration", tag |-> file]
        <5>1. mig' = [mig EXCEPT ![r] = NotMigrating] /\ UNCHANGED applied
          BY <4>1, <4>3 DEF MigrationEnds
        <5>2. clash' = clash
          BY <4>1, <4>3, Zenon DEF MigrationType
        <5> QED
          BY <2>2, <5>1, <5>2
      <4>4. CASE flaw # [what |-> "migration", tag |-> file]
        BY <2>3, <4>1, <4>2, <4>4
      <4> QED
        BY <4>3, <4>4
    <3> QED
      BY <3>1, <3>2
<1> QED
  BY <1>1, <1>2, <1>3

LEMMA MigrationSettles ==
  ASSUME MigrationInv, UNCHANGED <<applied, clash>>, NEW boxes, mig' = Settled(boxes)
  PROVE  MigrationInv'
<1>1. mig' = mig \/ mig' = [mig EXCEPT !["launch"] = NotMigrating]
  BY DEF Settled
<1>2. /\ mig' = [r \in Runners |-> mig'[r]]
      /\ \A r \in Runners : mig'[r] = mig[r] \/ mig'[r] = NotMigrating
  BY <1>1 DEF MigrationInv, MigrationType
<1> QED
  BY <1>2, MigrationKept

LEMMA MigrationUntouched ==
  ASSUME MigrationInv, UNCHANGED <<mig, applied, clash>>
  PROVE  MigrationInv'
  BY DEF MigrationInv, MigrationType, LockIsHeld, TodoIsNew, MigratedOnce

LEMMA MigrationSteps == MigrationInv /\ [HostNext]_hostVars => MigrationInv'
<1> SUFFICES ASSUME MigrationInv, [HostNext]_hostVars PROVE MigrationInv'
  OBVIOUS
<1>1. CASE UNCHANGED deployVars
  BY <1>1, MigrationUntouched DEF deployVars
<1>2. CASE DeployNext
  <2>1. CASE \E r \in Runners : StartMigrating(r) \/ ReadApplied(r) \/ Migrate(r)
    BY <2>1, MigrationRuns
  <2>2. CASE \E d \in Deploys, t \in Releases : PublishRelease(d, t) \/ Dispatch(d, t)
    BY <2>2, MigrationUntouched DEF PublishRelease, Dispatch, Fires
  <2>3. CASE \E t \in Releases : PushTag(t) \/ BuildEnds(t)
    BY <2>3, MigrationUntouched DEF PushTag, BuildEnds, host
  <2>4. ASSUME NEW d \in Deploys, MaterializeEnv(d) \/ RecordPrior(d) \/ Pull(d)
        PROVE  MigrationInv'
    BY <2>4, MigrationUntouched DEF MaterializeEnv, RecordPrior, Pull, host
  <2>5. ASSUME NEW d \in Deploys, ReapplyEgress(d) \/ Gate(d) \/ GateTimesOut(d)
        PROVE  MigrationInv'
    BY <2>5, MigrationUntouched DEF ReapplyEgress, Gate, GateTimesOut, host
  <2>6. ASSUME NEW d \in Deploys, Swap(d) \/ ComposeDown(d)
        PROVE  MigrationInv'
    BY <2>6, MigrationSettles DEF Swap, ComposeDown, Ups
  <2>7. ASSUME NEW d \in Deploys, ComposeUp(d) \/ Rollback(d)
        PROVE  MigrationInv'
    BY <2>7, MigrationSettles, MigrationUntouched DEF ComposeUp, Rollback, Ups
  <2>8. CASE EzraConnects \/ BackofficeStarts \/ SocketMoves
    BY <2>8, MigrationUntouched DEF EzraConnects, BackofficeStarts, SocketMoves
  <2>9. CASE EzraRestarts \/ WhatsAppTurns \/ Reconcile
    BY <2>9, MigrationUntouched DEF EzraRestarts, WhatsAppTurns, Reconcile, host
  <2>10. ASSUME NEW s \in Services, EnvironmentRefused(s) PROVE MigrationInv'
    BY <2>10, MigrationUntouched DEF EnvironmentRefused
  <2> QED
    BY <1>2, <2>1, <2>2, <2>3, <2>4, <2>5, <2>6, <2>7, <2>8, <2>9, <2>10 DEF DeployNext
<1> QED
  BY <1>1, <1>2 DEF HostNext, hostVars

\* Whatever launches and deploys migrate beside one another, none is made to fail
\* by what another one has applied.
THEOREM MigratedOnceHolds == HostSpec => []MigratedOnce
<1>1. HostInit => MigrationInv
  BY MigrationStarts DEF HostInit
<1>2. MigrationInv => MigratedOnce
  BY DEF MigrationInv
<1> QED
  BY <1>1, <1>2, MigrationSteps, PTL DEF HostSpec
-----------------------------------------------------------------------------
(* What a deploy says of itself.                                           *)

Stages == {"env", "record", "pull", "migrate", "swap", "down", "up", "firewall", "gate", "failed"}

\* The containers and the deploys keep their fields.
BoxType ==
  /\ DOMAIN box = Services
  /\ \A s \in Services : DOMAIN box[s] = {"by", "tag", "env", "at", "restarts", "marked", "socket"}

RunType ==
  /\ DOMAIN run = Deploys
  /\ \A d \in Deploys :
       /\ DOMAIN run[d] = {"at", "tag", "prior", "connected", "before", "watched", "seen", "recreated", "told"}
       /\ run[d].at \in Stages \cup Ended \cup {"none"}

Owners(boxes) == {boxes[s].by : s \in Services}

\* How far a deploy is says what it has done to the host: the containers are the
\* recorded ones until it swaps, and its own, in the environment it wrote, behind
\* the swap; a container it has seen come up stays marked; a network it recreated is
\* pinned as its release wants it, and filtered unless it said otherwise.
OnItsWay(d) ==
  LET r == run[d] IN
  /\ r.at \in {"none", "env", "record"} => r.before = {}
  /\ r.at \in Stages => checkout = r.tag
  /\ r.at \in Stages \ {"env"} => disk = secret
  /\ r.at \in {"pull", "migrate"} => r.before = Owners(box)
  /\ r.at \in {"firewall", "gate", "failed"} => \A s \in Services : box[s].tag = r.tag /\ box[s].env = disk
  /\ r.at \notin {"gate", "failed"} => r.seen = {}
  /\ r.at = "gate" => \A s \in r.seen : s \in Services /\ box[s].marked
  /\ r.recreated => r.at \in {"up", "firewall", "gate", "failed"}
  /\ r.at \in {"firewall", "gate"} /\ r.recreated /\ r.tag \in Pins => bridge = "pinned"
  /\ r.at = "gate" /\ r.recreated /\ ~r.told => loaded

OneAtATime == \A d, e \in Deploys : run[d].at \in Stages /\ run[e].at \in Stages => d = e

GateMigrates == \A d \in Deploys : mig[d].at # "off" => run[d].at = "migrate"

DeployInv == BoxType /\ RunType /\ OneAtATime /\ GateMigrates /\ \A d \in Deploys : OnItsWay(d)

HonestStep == \A d \in Deploys : run'[d].at \in Ended /\ run[d].at \notin Ended => Honestly(d)

LEMMA DeployStarts == DeployInit => DeployInv
<1> SUFFICES ASSUME DeployInit PROVE DeployInv
  OBVIOUS
<1>1. /\ DOMAIN run = Deploys /\ DOMAIN box = Services
      /\ \A d \in Deploys : run[d] = NotRunning("none") /\ mig[d].at = "off"
  BY DEF DeployInit, NotMigrating, Runners
<1>2. BoxType
  BY <1>1 DEF DeployInit, BoxType, Made
<1>3. RunType /\ OneAtATime /\ GateMigrates
  BY <1>1 DEF RunType, OneAtATime, GateMigrates, NotRunning, Stages
<1>4. \A d \in Deploys : OnItsWay(d)
  BY <1>1 DEF OnItsWay, NotRunning, Stages
<1> QED
  BY <1>2, <1>3, <1>4 DEF DeployInv

\* A deploy that rests is where it is whatever happens to the host, and one that is
\* under way as long as the host keeps what it has done.
LEMMA RestsOn ==
  ASSUME NEW d, OnItsWay(d), run[d].at \notin Stages, run'[d] = run[d]
  PROVE  OnItsWay(d)'
  BY DEF OnItsWay, Stages

LEMMA WorksOn ==
  ASSUME NEW d, OnItsWay(d), run'[d] = run[d], UNCHANGED <<secret, disk, checkout, bridge, loaded>>,
         \A s \in Services : /\ box'[s].by = box[s].by /\ box'[s].tag = box[s].tag /\ box'[s].env = box[s].env
                             /\ box[s].marked => box'[s].marked
  PROVE  OnItsWay(d)'
<1>1. Owners(box') = Owners(box)
  BY DEF Owners
<1> QED
  BY <1>1 DEF OnItsWay

\* Steps of the containers, of WhatsApp and of who migrates.
LEMMA QuietSteps ==
  ASSUME DeployInv, BoxType', UNCHANGED <<run, secret, disk, checkout, bridge, loaded>>,
         \A s \in Services : /\ box'[s].by = box[s].by /\ box'[s].tag = box[s].tag /\ box'[s].env = box[s].env
                             /\ box[s].marked => box'[s].marked,
         \A d \in Deploys : mig'[d].at # "off" => mig[d].at # "off" \/ run[d].at = "migrate"
  PROVE  DeployInv' /\ HonestStep
<1>1. \A d \in Deploys : OnItsWay(d)'
  BY WorksOn DEF DeployInv
<1>2. RunType' /\ OneAtATime' /\ GateMigrates'
  BY DEF DeployInv, RunType, OneAtATime, GateMigrates
<1>3. HonestStep
  BY DEF HonestStep
<1> QED
  BY <1>1, <1>2, <1>3 DEF DeployInv

\* Steps of a deploy: the others rest.
LEMMA DeploySteps ==
  ASSUME DeployInv, BoxType', NEW d \in Deploys,
         \A e \in Deploys : e # d => run[e].at \notin Stages,
         NEW r, run' = [run EXCEPT ![d] = r],
         DOMAIN r = {"at", "tag", "prior", "connected", "before", "watched", "seen", "recreated", "told"},
         r.at \in Stages \cup Ended, OnItsWay(d)', r.at \in Ended => Honestly(d),
         \A e \in Deploys : mig'[e].at # "off" => run'[e].at = "migrate"
  PROVE  DeployInv' /\ HonestStep
<1>1. /\ DOMAIN run = Deploys
      /\ run'[d] = r /\ \A e \in Deploys : e # d => run'[e] = run[e]
  BY DEF DeployInv, RunType
<1>2. \A e \in Deploys : OnItsWay(e)'
  BY <1>1, RestsOn DEF DeployInv
<1>3. RunType'
  BY <1>1 DEF DeployInv, RunType
<1>4. OneAtATime' /\ GateMigrates'
  BY <1>1 DEF OneAtATime, GateMigrates
<1>5. HonestStep
  BY <1>1 DEF HonestStep
<1> QED
  BY <1>2, <1>3, <1>4, <1>5 DEF DeployInv

\* A deploy that is under way is alone, and migrates only at its gate.
LEMMA Alone ==
  ASSUME DeployInv, NEW d \in Deploys, run[d].at \in Stages
  PROVE  /\ \A e \in Deploys : e # d => run[e].at \notin Stages
         /\ \A e \in Deploys : mig[e].at # "off" => e = d /\ run[d].at = "migrate"
  BY DEF DeployInv, OneAtATime, GateMigrates, Stages

\* What a step writes of its deploy, and what it leaves.
LEMMA Entering ==
  ASSUME DeployInv, NEW d \in Deploys, NEW at
  PROVE  LET r == [run[d] EXCEPT !.at = at] IN
         /\ DOMAIN r = {"at", "tag", "prior", "connected", "before", "watched", "seen", "recreated", "told"}
         /\ r.at = at /\ r.tag = run[d].tag /\ r.before = run[d].before /\ r.seen = run[d].seen
         /\ r.recreated = run[d].recreated /\ r.told = run[d].told
  BY DEF DeployInv, RunType

LEMMA Moves ==
  ASSUME DeployInv, BoxType', NEW d \in Deploys, run[d].at \in Stages, NEW at \in Stages, at # "gate",
         Enters(d, at), OnItsWay(d)',
         \A e \in Deploys : mig'[e].at # "off" => at = "migrate" /\ e = d
  PROVE  DeployInv' /\ HonestStep
<1> DEFINE r == [run[d] EXCEPT !.at = at]
<1>1. run' = [run EXCEPT ![d] = r]
  BY DEF Enters, Stages, Ended
<1>2. /\ DOMAIN r = {"at", "tag", "prior", "connected", "before", "watched", "seen", "recreated", "told"}
      /\ r.at = at
  BY Entering
<1>3. r.at \notin Ended
  BY <1>2 DEF Stages, Ended
<1> HIDE DEF r
<1>4. run'[d] = r
  BY <1>1 DEF DeployInv, RunType
<1> QED
  BY <1>1, <1>2, <1>3, <1>4, Alone, DeploySteps

LEMMA Ends ==
  ASSUME DeployInv, BoxType', NEW d \in Deploys, run[d].at \in Stages, NEW at \in Ended,
         Enters(d, at), run'[d].at = at => Honestly(d),
         \A e \in Deploys : mig'[e].at = "off"
  PROVE  DeployInv' /\ HonestStep
<1> DEFINE r == NotRunning(at)
<1>1. run' = [run EXCEPT ![d] = r]
  BY DEF Enters
<1>2. /\ DOMAIN r = {"at", "tag", "prior", "connected", "before", "watched", "seen", "recreated", "told"}
      /\ r.at = at /\ r.seen = {} /\ r.recreated = FALSE
  BY DEF NotRunning
<1> HIDE DEF r
<1>3. run'[d] = r
  BY <1>1 DEF DeployInv, RunType
<1>4. OnItsWay(d)'
  BY <1>2, <1>3 DEF OnItsWay, Stages, Ended
<1> QED
  BY <1>1, <1>2, <1>3, <1>4, Alone, DeploySteps

LEMMA Starting ==
  ASSUME DeployInv, NEW d \in Deploys, NEW t, Fires(d, t)
  PROVE  DeployInv' /\ HonestStep
<1>1. \A e \in Deploys : run[e].at \notin Stages
  BY DEF Fires, Active, Stages, Ended
<1>2. \A e \in Deploys : mig[e].at = "off"
  BY <1>1 DEF DeployInv, GateMigrates, Stages
<1> DEFINE r == [run[d] EXCEPT !.at = "env", !.tag = t]
<1>3. run' = [run EXCEPT ![d] = r] /\ run[d].at = "none"
  BY DEF Fires
<1>4. /\ DOMAIN r = {"at", "tag", "prior", "connected", "before", "watched", "seen", "recreated", "told"}
      /\ r.at = "env" /\ r.tag = t /\ r.before = run[d].before /\ r.seen = run[d].seen
      /\ r.recreated = run[d].recreated
  BY DEF DeployInv, RunType
<1> HIDE DEF r
<1>5. run'[d] = r
  BY <1>3 DEF DeployInv, RunType
<1>6. run[d].before = {} /\ run[d].seen = {} /\ run[d].recreated # TRUE
  BY <1>3 DEF DeployInv, OnItsWay
<1>7. OnItsWay(d)'
  BY <1>4, <1>5, <1>6 DEF Fires, OnItsWay, Stages
<1>8. BoxType' /\ \A e \in Deploys : mig'[e].at = "off"
  BY <1>2 DEF Fires, DeployInv, BoxType
<1> QED
  BY <1>1, <1>3, <1>4, <1>7, <1>8, DeploySteps DEF Stages, Ended

LEMMA Preparing ==
  ASSUME DeployInv, NEW d \in Deploys, MaterializeEnv(d) \/ RecordPrior(d) \/ Pull(d)
  PROVE  DeployInv' /\ HonestStep
<1> USE DEF Stages, Ended
<1>1. BoxType' /\ UNCHANGED <<box, mig, checkout, secret, bridge, loaded>>
  BY DEF MaterializeEnv, RecordPrior, Pull, DeployInv, BoxType, world, host
<1>2. OnItsWay(d) /\ run[d].at \in Stages
  BY DEF MaterializeEnv, RecordPrior, Pull, DeployInv
<1>3. \A e \in Deploys : mig[e].at # "off" => run[d].at = "migrate"
  BY <1>2, Alone
<1>4. CASE MaterializeEnv(d)
  <2>1. \A e \in Deploys : mig'[e].at = "off"
    BY <1>1, <1>3, <1>4 DEF MaterializeEnv
  <2>2. CASE disk' = secret /\ Enters(d, "record")
    <3>1. run'[d] = [run[d] EXCEPT !.at = "record"]
      BY <2>2 DEF Enters, DeployInv, RunType
    <3>2. OnItsWay(d)'
      BY <1>1, <1>2, <1>4, <2>2, <3>1, Entering DEF OnItsWay, MaterializeEnv
    <3> QED
      BY <1>1, <1>2, <2>1, <2>2, <3>2, Moves
  <2>3. CASE Enters(d, "aborted")
    <3>1. Honestly(d) \/ run'[d].at # "aborted"
      BY <1>2, <1>4 DEF MaterializeEnv, OnItsWay, Honestly
    <3> QED
      BY <1>1, <1>2, <2>1, <2>3, <3>1, Ends
  <2> QED
    BY <1>4, <2>2, <2>3 DEF MaterializeEnv
<1>5. CASE RecordPrior(d)
  <2> DEFINE r == [run[d] EXCEPT !.at = "pull", !.prior = box["ezra"].tag,
                                 !.connected = box["ezra"].socket = "open",
                                 !.before = {box[s].by : s \in Services}]
  <2>1. run' = [run EXCEPT ![d] = r] /\ run[d].at = "record" /\ UNCHANGED disk
    BY <1>5 DEF RecordPrior, host
  <2>2. /\ DOMAIN r = {"at", "tag", "prior", "connected", "before", "watched", "seen", "recreated", "told"}
        /\ r.at = "pull" /\ r.tag = run[d].tag /\ r.before = Owners(box) /\ r.seen = run[d].seen
        /\ r.recreated = run[d].recreated
    BY DEF DeployInv, RunType, Owners
  <2> HIDE DEF r
  <2>3. run'[d] = r
    BY <2>1 DEF DeployInv, RunType
  <2>4. Owners(box') = Owners(box)
    BY <1>1 DEF Owners
  <2>5. OnItsWay(d)'
    BY <1>1, <1>2, <2>1, <2>2, <2>3, <2>4 DEF OnItsWay
  <2>6. \A e \in Deploys : mig'[e].at = "off"
    BY <1>1, <1>3, <2>1
  <2> QED
    BY <1>1, <1>2, <2>1, <2>2, <2>5, <2>6, Alone, DeploySteps
<1>6. CASE Pull(d)
  <2>1. (\A e \in Deploys : mig'[e].at = "off") /\ UNCHANGED disk /\ run[d].at = "pull"
    BY <1>1, <1>3, <1>6 DEF Pull, host
  <2>2. Owners(box') = Owners(box) /\ run[d].before = Owners(box)
    BY <1>1, <1>2, <2>1 DEF Owners, OnItsWay
  <2>3. ASSUME NEW at \in {"down", "migrate"}, Enters(d, at) PROVE DeployInv' /\ HonestStep
    <3>1. run'[d] = [run[d] EXCEPT !.at = at]
      BY <2>3 DEF Enters, DeployInv, RunType
    <3>2. OnItsWay(d)'
      BY <1>1, <1>2, <2>1, <2>2, <3>1, Entering DEF OnItsWay
    <3> QED
      BY <1>1, <1>2, <2>1, <2>3, <3>2, Moves
  <2>4. CASE Enters(d, "aborted")
    <3>1. Honestly(d) \/ run'[d].at # "aborted"
      BY <2>2 DEF Honestly, Owners
    <3> QED
      BY <1>1, <1>2, <2>1, <2>4, <3>1, Ends
  <2> QED
    BY <1>6, <2>3, <2>4 DEF Pull
<1> QED
  BY <1>4, <1>5, <1>6

\* What compose makes of the containers.
LEMMA UppedIsType ==
  ASSUME BoxType, NEW services, NEW t, NEW who
  PROVE  /\ DOMAIN Upped(services, t, who) = Services
         /\ \A s \in Services :
              /\ DOMAIN Upped(services, t, who)[s] = {"by", "tag", "env", "at", "restarts", "marked", "socket"}
              /\ s \in services => /\ Upped(services, t, who)[s].tag = t
                                   /\ Upped(services, t, who)[s].env = disk
  BY DEF Upped, BoxType, Made

LEMMA NoneMigrates ==
  ASSUME DeployInv, NEW d \in Deploys, run[d].at \in Stages, run[d].at # "migrate",
         NEW boxes, mig' = Settled(boxes) \/ UNCHANGED mig, MigrationInv
  PROVE  \A e \in Deploys : mig'[e].at = "off"
<1>1. \A e \in Deploys : mig[e].at = "off"
  BY Alone
<1>2. DOMAIN mig = Runners
  BY DEF MigrationInv, MigrationType
<1>3. mig' = mig \/ mig' = [mig EXCEPT !["launch"] = NotMigrating]
  BY DEF Settled
<1> QED
  BY <1>1, <1>2, <1>3 DEF NotMigrating, Runners

LEMMA GateMigrating ==
  ASSUME DeployInv, MigrationInv, NEW d \in Deploys, StartMigrating(d) \/ ReadApplied(d) \/ Migrate(d)
  PROVE  DeployInv' /\ HonestStep
<1>1. d # "launch" /\ d \in Runners /\ DOMAIN mig = Runners
  BY DeployConstants DEF Runners, MigrationInv, MigrationType
<1>2. UNCHANGED <<secret, disk, checkout, bridge, loaded>>
  BY DEF StartMigrating, ReadApplied, Migrate, world
<1>3. CASE UNCHANGED run
  <2>1. UNCHANGED box /\ \A e \in Deploys : mig'[e].at # "off" => mig[e].at # "off" \/ run[e].at = "migrate"
    <3>1. CASE StartMigrating(d)
      BY <1>1, <3>1 DEF StartMigrating, Runners
    <3>2. CASE ReadApplied(d)
      BY <1>1, <3>2 DEF ReadApplied, Runners
    <3>3. CASE Migrate(d)
      <4>1. mig[d].at # "off" /\ UNCHANGED box
        BY <1>1, <3>3 DEF Migrate, MigrationEnds
      <4>2. \A e \in Deploys : e # d => mig'[e] = mig[e]
        BY <1>1, <3>3 DEF Migrate, MigrationEnds, Runners
      <4> QED
        BY <4>1, <4>2
    <3> QED
      BY <3>1, <3>2, <3>3
  <2>2. BoxType'
    BY <2>1 DEF DeployInv, BoxType
  <2> QED
    BY <1>2, <1>3, <2>1, <2>2, QuietSteps
<1>4. CASE Migrate(d) /\ \E ok \in BOOLEAN : MigrationEnds(d, ok)
  <2>1. PICK ok \in BOOLEAN : MigrationEnds(d, ok)
    BY <1>4
  <2>2. /\ mig' = [mig EXCEPT ![d] = NotMigrating] /\ UNCHANGED box
        /\ Enters(d, IF ok THEN "swap" ELSE "aborted")
    BY <1>1, <2>1 DEF MigrationEnds
  <2>3. run[d].at = "migrate" /\ OnItsWay(d)
    BY <1>4 DEF Migrate, DeployInv, GateMigrates
  <2>4. run[d].at \in Stages
    BY <2>3 DEF Stages
  <2>5. \A e \in Deploys : mig'[e].at = "off"
    BY <1>1, <2>2, <2>4, Alone DEF NotMigrating, Runners
  <2>6. BoxType'
    BY <2>2 DEF DeployInv, BoxType
  <2>7. CASE Enters(d, "swap")
    <3>1. run'[d] = [run[d] EXCEPT !.at = "swap"]
      BY <2>7 DEF Enters, DeployInv, RunType, Ended
    <3>2. OnItsWay(d)'
      BY <1>2, <2>2, <2>3, <3>1, Entering DEF OnItsWay, Stages
    <3> QED
      BY <2>4, <2>5, <2>6, <2>7, <3>2, Moves DEF Stages
  <2>8. CASE Enters(d, "aborted")
    <3>1. Honestly(d) \/ run'[d].at # "aborted"
      BY <2>2, <2>3 DEF Honestly, Owners, OnItsWay
    <3> QED
      BY <2>4, <2>5, <2>6, <2>8, <3>1, Ends DEF Ended
  <2> QED
    BY <2>2, <2>7, <2>8
<1> QED
  BY <1>3, <1>4 DEF StartMigrating, ReadApplied, Migrate

LEMMA Swapping ==
  ASSUME DeployInv, MigrationInv, NEW d \in Deploys, Swap(d) \/ ComposeDown(d)
  PROVE  DeployInv' /\ HonestStep
<1> USE DEF Stages, Ended
<1>1. OnItsWay(d) /\ run[d].at \in {"swap", "down"} /\ UNCHANGED <<secret, disk, checkout, loaded>>
  BY DEF Swap, ComposeDown, DeployInv, world
<1>2. \A e \in Deploys : mig'[e].at = "off"
  BY <1>1, NoneMigrates DEF Swap, ComposeDown, Ups
<1>3. run[d].seen = {} /\ run[d].recreated # TRUE
  BY <1>1 DEF OnItsWay
<1>4. CASE \E boxes : /\ boxes = Upped(Services, run[d].tag, <<d, "swap">>)
                      /\ Ups(boxes) /\ Watches(d, boxes) /\ UNCHANGED bridge
  <2>1. PICK boxes : /\ boxes = Upped(Services, run[d].tag, <<d, "swap">>)
                     /\ Ups(boxes) /\ Watches(d, boxes)
    BY <1>4
  <2>2. BoxType' /\ \A s \in Services : box'[s].tag = run[d].tag /\ box'[s].env = disk
    BY <2>1, UppedIsType DEF Ups, BoxType, DeployInv
  <2> DEFINE r == [run[d] EXCEPT !.at = "gate", !.watched = {boxes[s].by : s \in Services}]
  <2>3. run' = [run EXCEPT ![d] = r]
    BY <2>1 DEF Watches
  <2>4. /\ DOMAIN r = {"at", "tag", "prior", "connected", "before", "watched", "seen", "recreated", "told"}
        /\ r.at = "gate" /\ r.tag = run[d].tag /\ r.seen = run[d].seen /\ r.recreated = run[d].recreated
    BY DEF DeployInv, RunType
  <2> HIDE DEF r
  <2>5. run'[d] = r
    BY <2>3 DEF DeployInv, RunType
  <2>6. OnItsWay(d)'
    BY <1>1, <1>3, <2>2, <2>4, <2>5 DEF OnItsWay
  <2> QED
    BY <1>1, <1>2, <2>2, <2>3, <2>4, <2>6, Alone, DeploySteps
<1>5. ASSUME NEW some, Ups(Upped(some, run[d].tag, <<d, "swap">>)), Enters(d, "down")
      PROVE  DeployInv' /\ HonestStep
  <2>1. BoxType'
    BY <1>5, UppedIsType DEF Ups, BoxType, DeployInv
  <2>2. run'[d] = [run[d] EXCEPT !.at = "down"]
    BY <1>5 DEF Enters, DeployInv, RunType
  <2>3. OnItsWay(d)'
    BY <1>1, <1>3, <2>2, Entering DEF OnItsWay
  <2> QED
    BY <1>1, <1>2, <1>5, <2>1, <2>3, Moves
<1>6. CASE ComposeDown(d)
  <2> DEFINE r == [run[d] EXCEPT !.at = "up", !.recreated = TRUE]
  <2>1. run' = [run EXCEPT ![d] = r]
    BY <1>6 DEF ComposeDown
  <2>2. /\ DOMAIN r = {"at", "tag", "prior", "connected", "before", "watched", "seen", "recreated", "told"}
        /\ r.at = "up" /\ r.tag = run[d].tag /\ r.seen = run[d].seen
    BY DEF DeployInv, RunType
  <2> HIDE DEF r
  <2>3. run'[d] = r
    BY <2>1 DEF DeployInv, RunType
  <2>4. BoxType'
    BY <1>6 DEF ComposeDown, Ups, Gone, BoxType
  <2>5. OnItsWay(d)'
    BY <1>1, <1>3, <2>2, <2>3 DEF OnItsWay
  <2> QED
    BY <1>1, <1>2, <2>1, <2>2, <2>4, <2>5, Alone, DeploySteps
<1> QED
  BY <1>4, <1>5, <1>6 DEF Swap

LEMMA ComingUp ==
  ASSUME DeployInv, MigrationInv, NEW d \in Deploys, ComposeUp(d) \/ ReapplyEgress(d)
  PROVE  DeployInv' /\ HonestStep
<1> USE DEF Stages, Ended
<1>1. OnItsWay(d) /\ run[d].at \in {"up", "firewall"} /\ UNCHANGED <<secret, disk, checkout>>
  BY DEF ComposeUp, ReapplyEgress, DeployInv, world
<1>2. \A e \in Deploys : mig'[e].at = "off"
  BY <1>1, NoneMigrates DEF ComposeUp, ReapplyEgress, Ups
<1>3. run[d].seen = {}
  BY <1>1 DEF OnItsWay
<1>4. BoxType'
  <2>1. box' = box \/ box' = Upped(Services, run[d].tag, <<d, "recreate">>)
    BY DEF ComposeUp, ReapplyEgress, Ups
  <2>2. CASE box' = box
    BY <2>2 DEF DeployInv, BoxType
  <2>3. CASE box' = Upped(Services, run[d].tag, <<d, "recreate">>)
    BY <2>3, UppedIsType DEF DeployInv, BoxType
  <2> QED
    BY <2>1, <2>2, <2>3
<1>5. CASE ComposeUp(d) /\ Enters(d, "firewall")
  <2>1. /\ box' = Upped(Services, run[d].tag, <<d, "recreate">>) /\ UNCHANGED loaded
        /\ bridge' = (IF checkout \in Pins THEN "pinned" ELSE "auto")
    <3>1. run'[d].at = "firewall"
      BY <1>5, Entering DEF Enters, DeployInv, RunType
    <3>2. ~Enters(d, "died")
      <4>1. Enters(d, "died") => run'[d] = NotRunning("died")
        BY DEF Enters, DeployInv, RunType
      <4>2. NotRunning("died").at = "died"
        BY DEF NotRunning
      <4> QED
        BY <3>1, <4>1, <4>2
    <3> QED
      BY <1>5, <3>2 DEF ComposeUp, Ups
  <2>2. \A s \in Services : box'[s].tag = run[d].tag /\ box'[s].env = disk
    BY <2>1, UppedIsType DEF DeployInv
  <2>3. run'[d] = [run[d] EXCEPT !.at = "firewall"]
    BY <1>5 DEF Enters, DeployInv, RunType
  <2>4. OnItsWay(d)'
    BY <1>1, <1>3, <2>1, <2>2, <2>3, Entering DEF OnItsWay
  <2> QED
    BY <1>1, <1>2, <1>4, <1>5, <2>4, Moves
<1>6. CASE Enters(d, "died")
  <2>1. run'[d].at = "died" => Honestly(d)
    BY DEF Honestly
  <2> QED
    BY <1>1, <1>2, <1>4, <1>6, <2>1, Ends
<1>7. CASE ReapplyEgress(d)
  <2>1. PICK ok \in BOOLEAN :
          /\ ok => loaded'
          /\ run' = [run EXCEPT ![d] = [@ EXCEPT !.at = "gate", !.told = ~ok,
                                                 !.watched = {box[s].by : s \in Services}]]
    BY <1>7 DEF ReapplyEgress
  <2> DEFINE r == [run[d] EXCEPT !.at = "gate", !.told = ~ok, !.watched = {box[s].by : s \in Services}]
  <2>2. run' = [run EXCEPT ![d] = r]
    BY <2>1
  <2>3. /\ DOMAIN r = {"at", "tag", "prior", "connected", "before", "watched", "seen", "recreated", "told"}
        /\ r.at = "gate" /\ r.tag = run[d].tag /\ r.seen = run[d].seen /\ r.recreated = run[d].recreated
        /\ r.told = ~ok
    BY DEF DeployInv, RunType
  <2> HIDE DEF r
  <2>4. run'[d] = r
    BY <2>2 DEF DeployInv, RunType
  <2>5. run[d].at = "firewall" /\ UNCHANGED <<box, bridge>>
    BY <1>7 DEF ReapplyEgress
  <2>6. ~r.told => loaded'
    BY <2>1, <2>3
  <2>7. OnItsWay(d)'
    BY <1>1, <1>3, <2>3, <2>4, <2>5, <2>6 DEF OnItsWay
  <2> QED
    BY <1>1, <1>2, <1>4, <2>2, <2>3, <2>7, Alone, DeploySteps
<1> QED
  BY <1>5, <1>6, <1>7 DEF ComposeUp

LEMMA Gating ==
  ASSUME DeployInv, MigrationInv, NEW d \in Deploys, Gate(d) \/ GateTimesOut(d)
  PROVE  DeployInv' /\ HonestStep
<1> USE DEF Stages, Ended
<1>1. /\ OnItsWay(d) /\ run[d].at = "gate" /\ run[d].at \in Stages
      /\ UNCHANGED <<secret, disk, checkout, bridge, loaded, box, mig>>
  BY DEF Gate, GateTimesOut, DeployInv, world, host
<1>2. BoxType' /\ \A e \in Deploys : mig'[e].at = "off"
  BY <1>1, NoneMigrates DEF DeployInv, BoxType
<1> DEFINE seen == run[d].seen \cup {s \in Watched(d) : box[s].marked}
<1>3. \A s \in seen : s \in Services /\ box[s].marked
  BY <1>1 DEF OnItsWay, Watched
<1>4. CASE Enters(d, "failed")
  <2>1. run'[d] = [run[d] EXCEPT !.at = "failed"]
    BY <1>4 DEF Enters, DeployInv, RunType
  <2>2. OnItsWay(d)'
    BY <1>1, <2>1, Entering DEF OnItsWay
  <2> QED
    BY <1>1, <1>2, <1>4, <2>2, Moves
<1>5. CASE seen = Services /\ Enters(d, "healthy")
  <2>1. Tags(box') = {run[d].tag}
    BY <1>1 DEF OnItsWay, Tags, Services
  <2>2. \A s \in Services : box'[s].marked /\ box'[s].env = secret
    BY <1>1, <1>3, <1>5 DEF OnItsWay
  <2>3. run[d].recreated /\ ~run[d].told /\ run[d].tag \in Pins => loaded' /\ bridge' = "pinned"
    BY <1>1 DEF OnItsWay
  <2>4. run'[d].at = "healthy" => Honestly(d)
    BY <2>1, <2>2, <2>3 DEF Honestly
  <2> QED
    BY <1>1, <1>2, <1>5, <2>4, Ends
<1>6. CASE run' = [run EXCEPT ![d] = [@ EXCEPT !.seen = seen]]
  <2> HIDE DEF seen
  <2> DEFINE r == [run[d] EXCEPT !.seen = seen]
  <2>1. run' = [run EXCEPT ![d] = r]
    BY <1>6
  <2>2. /\ DOMAIN r = {"at", "tag", "prior", "connected", "before", "watched", "seen", "recreated", "told"}
        /\ r.at = "gate" /\ r.tag = run[d].tag /\ r.seen = seen /\ r.recreated = run[d].recreated
        /\ r.told = run[d].told
    BY <1>1 DEF DeployInv, RunType
  <2> HIDE DEF r
  <2>3. run'[d] = r
    BY <2>1 DEF DeployInv, RunType
  <2>4. OnItsWay(d)'
    BY <1>1, <1>3, <2>2, <2>3 DEF OnItsWay
  <2> QED
    BY <1>1, <1>2, <2>1, <2>2, <2>4, Alone, DeploySteps
<1> QED
  BY <1>4, <1>5, <1>6 DEF Gate, GateTimesOut

LEMMA RollingBack ==
  ASSUME DeployInv, MigrationInv, NEW d \in Deploys, Rollback(d)
  PROVE  DeployInv' /\ HonestStep
<1>1. OnItsWay(d) /\ run[d].at = "failed" /\ run[d].at \in Stages
  BY DEF Rollback, DeployInv, Stages
<1>2. \A e \in Deploys : mig'[e].at = "off"
  BY <1>1, NoneMigrates DEF Rollback, Ups
<1>3. BoxType'
  <2>1. box' = box \/ box' = Upped(Services, run[d].prior, <<d, "rollback">>)
    BY DEF Rollback, Ups
  <2>2. CASE box' = box
    BY <2>2 DEF DeployInv, BoxType
  <2>3. CASE box' = Upped(Services, run[d].prior, <<d, "rollback">>)
    BY <2>3, UppedIsType DEF DeployInv, BoxType
  <2> QED
    BY <2>1, <2>2, <2>3
<1>4. CASE Suspect(d) /\ Ups(Upped(Services, run[d].prior, <<d, "rollback">>)) /\ Enters(d, "rolled back")
  <2>1. Tags(box') = {run[d].prior}
    <3>1. box' = Upped(Services, run[d].prior, <<d, "rollback">>)
      BY <1>4 DEF Ups
    <3>2. \A s \in Services : box'[s].tag = run[d].prior
      BY <3>1, UppedIsType DEF DeployInv
    <3> QED
      BY <3>2 DEF Tags, Services
  <2>2. run[d].connected /\ run[d].prior # run[d].tag
    BY <1>4 DEF Suspect
  <2>3. run'[d].at = "rolled back" => Honestly(d)
    BY <2>1, <2>2 DEF Honestly
  <2> QED
    BY <1>1, <1>2, <1>3, <1>4, <2>3, Ends DEF Ended
<1>5. CASE Enters(d, "died")
  <2>1. run'[d].at = "died" => Honestly(d)
    BY DEF Honestly
  <2> QED
    BY <1>1, <1>2, <1>3, <1>5, <2>1, Ends DEF Ended
<1>6. CASE UNCHANGED box /\ Enters(d, "kept")
  <2>1. Tags(box') = {run[d].tag}
    BY <1>1, <1>6 DEF OnItsWay, Tags, Services
  <2>2. run'[d].at = "kept" => Honestly(d)
    BY <2>1 DEF Honestly
  <2> QED
    BY <1>1, <1>2, <1>3, <1>6, <2>2, Ends DEF Ended
<1> QED
  BY <1>4, <1>5, <1>6 DEF Rollback

\* The containers' own steps: each changes one container, and none who made it.
LEMMA ContainerKept ==
  ASSUME BoxType, NEW c \in Services, NEW at,
         \/ box' = [box EXCEPT ![c].at = at]
         \/ box' = [box EXCEPT ![c].at = at, ![c].marked = TRUE]
         \/ box' = [box EXCEPT ![c].at = at, ![c].marked = TRUE, ![c].socket = "open"]
         \/ box' = [box EXCEPT ![c].at = at, ![c].socket = "connecting"]
         \/ \E socket : box' = [box EXCEPT ![c].socket = socket]
         \/ \E restarts : box' = [box EXCEPT ![c].at = at, ![c].restarts = restarts]
  PROVE  /\ BoxType'
         /\ \A s \in Services : /\ box'[s].by = box[s].by /\ box'[s].tag = box[s].tag /\ box'[s].env = box[s].env
                                /\ box[s].marked => box'[s].marked
<1> USE DEF BoxType
<1>1. CASE box' = [box EXCEPT ![c].at = at]
  BY <1>1
<1>2. CASE box' = [box EXCEPT ![c].at = at, ![c].marked = TRUE]
  BY <1>2
<1>3. CASE box' = [box EXCEPT ![c].at = at, ![c].marked = TRUE, ![c].socket = "open"]
  BY <1>3
<1>4. CASE \E socket : box' = [box EXCEPT ![c].socket = socket]
  <2>1. PICK socket : box' = [box EXCEPT ![c].socket = socket]
    BY <1>4
  <2> QED
    BY <2>1
<1>5. CASE \E restarts : box' = [box EXCEPT ![c].at = at, ![c].restarts = restarts]
  <2>1. PICK restarts : box' = [box EXCEPT ![c].at = at, ![c].restarts = restarts]
    BY <1>5
  <2> QED
    BY <2>1
<1>6. CASE box' = [box EXCEPT ![c].at = at, ![c].socket = "connecting"]
  BY <1>6
<1> QED
  BY <1>1, <1>2, <1>3, <1>4, <1>5, <1>6

LEMMA ContainersMove ==
  ASSUME DeployInv, UNCHANGED <<mig, run, secret, disk, checkout, bridge, loaded>>,
         \/ EzraConnects \/ BackofficeStarts \/ EzraRestarts \/ SocketMoves
         \/ \E s \in Services : EnvironmentRefused(s)
  PROVE  DeployInv' /\ HonestStep
<1>1. \E c \in Services : \E at :
         \/ box' = [box EXCEPT ![c].at = at]
         \/ box' = [box EXCEPT ![c].at = at, ![c].marked = TRUE]
         \/ box' = [box EXCEPT ![c].at = at, ![c].marked = TRUE, ![c].socket = "open"]
         \/ \E socket : box' = [box EXCEPT ![c].socket = socket]
         \/ \E restarts : box' = [box EXCEPT ![c].at = at, ![c].restarts = restarts]
  <2>1. "ezra" \in Services /\ "backoffice" \in Services
    BY DEF Services
  <2>2. CASE EzraConnects
    BY <2>1, <2>2 DEF EzraConnects
  <2>3. CASE BackofficeStarts
    BY <2>1, <2>3 DEF BackofficeStarts
  <2>4. CASE EzraRestarts
    BY <2>1, <2>4 DEF EzraRestarts
  <2>5. CASE SocketMoves
    BY <2>1, <2>5 DEF SocketMoves
  <2>6. CASE \E s \in Services : EnvironmentRefused(s)
    BY <2>6 DEF EnvironmentRefused
  <2> QED
    BY <2>2, <2>3, <2>4, <2>5, <2>6
<1>2. /\ BoxType'
      /\ \A s \in Services : /\ box'[s].by = box[s].by /\ box'[s].tag = box[s].tag /\ box'[s].env = box[s].env
                             /\ box[s].marked => box'[s].marked
  BY <1>1, ContainerKept DEF DeployInv
<1> QED
  BY <1>2, QuietSteps

LEMMA LaunchMigrating ==
  ASSUME DeployInv, MigrationInv,
         StartMigrating("launch") \/ ReadApplied("launch") \/ Migrate("launch")
  PROVE  DeployInv' /\ HonestStep
<1>1. "launch" \notin Deploys /\ "launch" \in Runners /\ DOMAIN mig = Runners
  BY DeployConstants DEF Runners, MigrationInv, MigrationType
<1>2. UNCHANGED <<run, secret, disk, checkout, bridge, loaded>>
  BY DEF StartMigrating, ReadApplied, Migrate, MigrationEnds, world
<1>3. \A e \in Deploys : mig'[e] = mig[e]
  BY <1>1 DEF StartMigrating, ReadApplied, Migrate, MigrationEnds, Runners
<1>4. \/ box' = box \/ \E at : box' = [box EXCEPT !["ezra"].at = at]
      \/ box' = [box EXCEPT !["ezra"].at = "connect", !["ezra"].socket = "connecting"]
  BY DEF StartMigrating, ReadApplied, Migrate, MigrationEnds
<1>5. /\ BoxType'
      /\ \A s \in Services : /\ box'[s].by = box[s].by /\ box'[s].tag = box[s].tag /\ box'[s].env = box[s].env
                             /\ box[s].marked => box'[s].marked
  <2>1. CASE box' = box
    BY <2>1 DEF DeployInv, BoxType
  <2>2. CASE \E at : box' = [box EXCEPT !["ezra"].at = at]
    BY <2>2, ContainerKept DEF DeployInv, Services
  <2>3. CASE box' = [box EXCEPT !["ezra"].at = "connect", !["ezra"].socket = "connecting"]
    BY <2>3, ContainerKept DEF DeployInv, Services
  <2> QED
    BY <1>4, <2>1, <2>2, <2>3
<1> QED
  BY <1>2, <1>3, <1>5, QuietSteps

\* The operator reconciles behind the deploys.
LEMMA Reconciling ==
  ASSUME DeployInv, Reconcile
  PROVE  DeployInv' /\ HonestStep
<1>1. \A d \in Deploys : run[d].at \notin Stages
  BY DEF Reconcile, Active, Stages, Ended
<1>2. UNCHANGED <<run, box, mig>>
  BY DEF Reconcile
<1>3. \A d \in Deploys : OnItsWay(d)'
  BY <1>1, <1>2, RestsOn DEF DeployInv
<1>4. BoxType' /\ RunType' /\ OneAtATime' /\ GateMigrates'
  BY <1>2 DEF DeployInv, BoxType, RunType, OneAtATime, GateMigrates
<1>5. HonestStep
  BY <1>2 DEF HonestStep
<1> QED
  BY <1>3, <1>4, <1>5 DEF DeployInv

LEMMA NothingMoves ==
  ASSUME DeployInv, UNCHANGED <<run, box, mig, secret, disk, checkout, bridge, loaded>>
  PROVE  DeployInv' /\ HonestStep
<1>1. BoxType'
  BY DEF DeployInv, BoxType
<1> QED
  BY <1>1, QuietSteps

LEMMA HostSteps == DeployInv /\ MigrationInv /\ [HostNext]_hostVars => DeployInv' /\ HonestStep
<1> SUFFICES ASSUME DeployInv, MigrationInv, [HostNext]_hostVars PROVE DeployInv' /\ HonestStep
  OBVIOUS
<1>1. CASE UNCHANGED deployVars
  BY <1>1, NothingMoves DEF deployVars
<1>2. CASE DeployNext
  <2>1. CASE \E r \in Runners : StartMigrating(r) \/ ReadApplied(r) \/ Migrate(r)
    BY <2>1, GateMigrating, LaunchMigrating DEF Runners
  <2>2. CASE \E d \in Deploys, t \in Releases : PublishRelease(d, t) \/ Dispatch(d, t)
    BY <2>2, Starting DEF PublishRelease, Dispatch
  <2>3. CASE WhatsAppTurns \/ \E t \in Releases : PushTag(t) \/ BuildEnds(t)
    BY <2>3, NothingMoves DEF WhatsAppTurns, PushTag, BuildEnds, host
  <2>4. ASSUME NEW d \in Deploys, MaterializeEnv(d) \/ RecordPrior(d) \/ Pull(d)
        PROVE  DeployInv' /\ HonestStep
    BY <2>4, Preparing
  <2>5. ASSUME NEW d \in Deploys, Swap(d) \/ ComposeDown(d)
        PROVE  DeployInv' /\ HonestStep
    BY <2>5, Swapping
  <2>6. ASSUME NEW d \in Deploys, ComposeUp(d) \/ ReapplyEgress(d)
        PROVE  DeployInv' /\ HonestStep
    BY <2>6, ComingUp
  <2>7. ASSUME NEW d \in Deploys, Gate(d) \/ GateTimesOut(d)
        PROVE  DeployInv' /\ HonestStep
    BY <2>7, Gating
  <2>8. ASSUME NEW d \in Deploys, Rollback(d) PROVE DeployInv' /\ HonestStep
    BY <2>8, RollingBack
  <2>9. CASE EzraConnects \/ BackofficeStarts \/ EzraRestarts \/ SocketMoves
    BY <2>9, ContainersMove DEF EzraConnects, BackofficeStarts, EzraRestarts, SocketMoves, world
  <2>10. CASE \E s \in Services : EnvironmentRefused(s)
    BY <2>10, ContainersMove DEF EnvironmentRefused, world
  <2>11. CASE Reconcile
    BY <2>11, Reconciling
  <2> QED
    BY <1>2, <2>1, <2>2, <2>3, <2>4, <2>5, <2>6, <2>7, <2>8, <2>9, <2>10, <2>11 DEF DeployNext
<1> QED
  BY <1>1, <1>2 DEF HostNext, hostVars

\* Whatever a deploy ends with, what it says of itself is what is on the host.
THEOREM DeployIsHonestHolds == HostSpec => DeployIsHonest
<1>1. HostInit => DeployInv /\ MigrationInv
  BY DeployStarts, MigrationStarts DEF HostInit
<1>2. DeployInv /\ MigrationInv /\ [HostNext]_hostVars
        => [\A d \in Deploys : run'[d].at \in Ended /\ run[d].at \notin Ended => Honestly(d)]_deployVars
  BY HostSteps DEF HonestStep
<1> QED
  BY <1>1, <1>2, HostSteps, MigrationSteps, PTL DEF HostSpec, DeployIsHonest

-----------------------------------------------------------------------------
(* The announced version.                                                  *)

Kinds  == {"probe-failed", "current", "stale", "no-upgrade", "adopted"}
Events == [kind : Kinds, v : Nat, from : Nat, missed : BOOLEAN]

VersionType ==
  /\ active \in Nat /\ upstream \in Nat /\ active <= upstream
  /\ 1 <= active /\ upstream <= Newest
  /\ log \in Seq(Events)

ProbeType ==
  /\ probe = [p \in Probes |-> probe[p]]
  /\ \A p \in Probes : /\ probe[p] = [for |-> probe[p].for, seen |-> probe[p].seen, missed |-> probe[p].missed]
                       /\ probe[p].seen \in Nat /\ probe[p].missed \in BOOLEAN

\* What a probe has seen was published when it looked, so only an adoption
\* since then can be ahead of it.
SeenIsRecent == \A p \in Probes :
  probe[p].for # "none" /\ probe[p].seen \notin {Unread, Failed} =>
    probe[p].seen <= upstream /\ (active <= probe[p].seen \/ probe[p].missed)

VersionInv == VersionType /\ ProbeType /\ SeenIsRecent /\ VersionsAdvance

LEMMA VersionStarts == OpsInit => VersionInv
<1> SUFFICES ASSUME OpsInit PROVE VersionInv
  OBVIOUS
<1>1. /\ active = 1 /\ upstream \in 1 .. Newest /\ log = <<>> /\ Newest \in Nat
      /\ probe = [p \in Probes |-> Idle]
  BY OpsConstants DEF OpsInit
<1>2. VersionType /\ VersionsAdvance
  BY <1>1 DEF VersionType, VersionsAdvance
<1>3. ProbeType /\ SeenIsRecent
  BY <1>1 DEF ProbeType, SeenIsRecent, Idle
<1> QED
  BY <1>2, <1>3 DEF VersionInv

LEMMA VersionUntouched ==
  ASSUME VersionInv, UNCHANGED <<active, upstream, probe, log>>
  PROVE  VersionInv'
  BY DEF VersionInv, VersionType, ProbeType, SeenIsRecent, VersionsAdvance

LEMMA VersionProbes ==
  ASSUME VersionInv, NEW p \in Probes, Check(p) \/ Refused(p) \/ Fetch(p)
  PROVE  VersionInv'
<1> USE DEF VersionInv
<1>1. UNCHANGED <<active, upstream, log>>
  BY DEF Check, Refused, Fetch
<1>2. VersionType' /\ VersionsAdvance'
  BY <1>1 DEF VersionType, VersionsAdvance
<1>3. Newest \in Nat
  BY OpsConstants
<1>4. CASE Check(p) \/ Refused(p)
  <2>1. PICK what : probe' = [probe EXCEPT ![p] = [for |-> what, seen |-> Unread, missed |-> FALSE]]
    BY <1>4 DEF Check, Refused, Begin
  <2>2. ProbeType'
    <3> DEFINE new == [for |-> what, seen |-> Unread, missed |-> FALSE]
    <3>1. /\ new = [for |-> new.for, seen |-> new.seen, missed |-> new.missed]
          /\ new.seen \in Nat /\ new.missed \in BOOLEAN
      BY <1>3 DEF Unread
    <3>2. probe' = [probe EXCEPT ![p] = new]
      BY <2>1
    <3> HIDE DEF new
    <3> QED
      BY <3>1, <3>2 DEF ProbeType
  <2>3. SeenIsRecent'
    BY <1>1, <2>1 DEF ProbeType, SeenIsRecent
  <2> QED
    BY <1>2, <2>2, <2>3
<1>5. CASE Fetch(p)
  <2>1. PICK v \in {upstream, Failed} : probe' = [probe EXCEPT ![p].seen = v]
    BY <1>5 DEF Fetch
  <2>2. v \in Nat /\ (v # Failed => v <= upstream /\ active <= v)
    BY DEF VersionType, Failed
  <2>3. /\ probe' = [q \in Probes |-> probe'[q]]
        /\ \A q \in Probes : q # p => probe'[q] = probe[q]
    BY <2>1 DEF ProbeType
  <2>4. probe'[p] = [for |-> probe[p].for, seen |-> v, missed |-> probe[p].missed]
    BY <2>1 DEF ProbeType
  <2>5. ProbeType'
    BY <2>2, <2>3, <2>4 DEF ProbeType
  <2>6. SeenIsRecent'
    BY <1>1, <2>2, <2>3, <2>4 DEF SeenIsRecent
  <2> QED
    BY <1>2, <2>5, <2>6
<1> QED
  BY <1>4, <1>5

\* An answer that is in: what it is taken for, and what that says of the version.
LEMMA EventIsHonest ==
  ASSUME VersionInv, NEW p \in Probes, probe[p].for # "none", probe[p].seen # Unread
  PROVE  /\ Event(probe[p]) \in Events
         /\ Event(probe[p]).from = active /\ Event(probe[p]).v = probe[p].seen
         /\ Event(probe[p]).kind \in {"adopted", "stale"} =>
              /\ Event(probe[p]).v <= upstream
              /\ Event(probe[p]).v > Event(probe[p]).from \/ Event(probe[p]).missed
<1> DEFINE e == Event(probe[p])
<1>1. probe[p].seen \in Nat /\ probe[p].missed \in BOOLEAN /\ active \in Nat /\ upstream \in Nat
  BY DEF VersionInv, ProbeType, VersionType
<1>2. /\ e.kind \in Kinds /\ e.v = probe[p].seen /\ e.from = active /\ e.missed = probe[p].missed
      /\ e = [kind |-> e.kind, v |-> e.v, from |-> e.from, missed |-> e.missed]
  BY DEF Event, Kinds
<1>3. e.kind \in {"adopted", "stale"} => probe[p].seen # Failed /\ probe[p].seen # active
  BY DEF Event
<1> HIDE DEF e
<1>4. e \in Events
  BY <1>1, <1>2 DEF Events
<1>5. e.kind \in {"adopted", "stale"} => e.v <= upstream /\ (e.v > e.from \/ e.missed)
  BY <1>1, <1>2, <1>3 DEF VersionInv, SeenIsRecent
<1> QED
  BY <1>2, <1>4, <1>5 DEF e

LEMMA ProbeFields ==
  ASSUME NEW r, NEW f, NEW n, NEW b \in BOOLEAN, r = [for |-> f, seen |-> n, missed |-> b], n \in Nat
  PROVE  /\ r = [for |-> r.for, seen |-> r.seen, missed |-> r.missed]
         /\ r.seen \in Nat /\ r.missed \in BOOLEAN
  OBVIOUS

LEMMA VersionReports ==
  ASSUME VersionInv, NEW p \in Probes, Report(p)
  PROVE  VersionInv'
<1> USE DEF VersionInv
<1> DEFINE e == Event(probe[p])
<1>1. /\ e \in Events /\ e.from = active /\ e.v = probe[p].seen
      /\ e.kind \in {"adopted", "stale"} => e.v <= upstream /\ (e.v > e.from \/ e.missed)
  BY EventIsHonest DEF Report
<1>2. /\ active' = IF e.kind = "adopted" THEN e.v ELSE active
      /\ probe' = [q \in Probes |->
                     IF q = p THEN Idle
                     ELSE [probe[q] EXCEPT !.missed =
                             @ \/ (e.kind = "adopted" /\ probe[q].for # "none")]]
      /\ log' = Append(log, e) /\ upstream' = upstream
  BY DEF Report
<1>3. e.v \in Nat /\ e.v = probe[p].seen /\ probe[p].seen # Unread
  BY <1>1 DEF ProbeType, Report
<1>4. e.kind = "adopted" => e.v # Failed
  BY DEF Event
<1> HIDE DEF e
<1>5. VersionType'
  BY <1>1, <1>2, <1>3, <1>4 DEF VersionType, Failed
<1>6. ASSUME NEW q \in Probes, q # p
      PROVE  /\ probe'[q] = [for |-> probe[q].for, seen |-> probe[q].seen,
                             missed |-> probe[q].missed \/ (e.kind = "adopted" /\ probe[q].for # "none")]
  BY <1>2, <1>6 DEF ProbeType
<1>7. probe'[p] = [for |-> "none", seen |-> 0, missed |-> FALSE] /\ DOMAIN probe' = Probes
  BY <1>2 DEF Idle
<1>8. ProbeType'
  <2>1. probe' = [q \in Probes |-> probe'[q]]
    BY <1>2
  <2>2. ASSUME NEW q \in Probes
        PROVE  /\ probe'[q] = [for |-> probe'[q].for, seen |-> probe'[q].seen, missed |-> probe'[q].missed]
               /\ probe'[q].seen \in Nat /\ probe'[q].missed \in BOOLEAN
    <3>1. CASE q = p
      BY <1>7, <3>1, ProbeFields
    <3>2. CASE q # p
      <4> DEFINE b == probe[q].missed \/ (e.kind = "adopted" /\ probe[q].for # "none")
      <4>1. b \in BOOLEAN /\ probe[q].seen \in Nat
        BY DEF ProbeType
      <4>2. probe'[q] = [for |-> probe[q].for, seen |-> probe[q].seen, missed |-> b]
        BY <1>6, <3>2
      <4> HIDE DEF b
      <4> QED
        BY <4>1, <4>2, ProbeFields
    <3> QED
      BY <3>1, <3>2
  <2> QED
    BY <2>1, <2>2 DEF ProbeType
<1>9. SeenIsRecent'
  <2>1. SUFFICES ASSUME NEW q \in Probes, probe'[q].for # "none", probe'[q].seen \notin {Unread, Failed}
                 PROVE  probe'[q].seen <= upstream /\ (active' <= probe'[q].seen \/ probe'[q].missed)
    BY <1>2 DEF SeenIsRecent
  <2>2. /\ q # p /\ probe'[q].seen = probe[q].seen /\ probe'[q].for = probe[q].for
        /\ probe'[q].missed = (probe[q].missed \/ (e.kind = "adopted" /\ probe[q].for # "none"))
    BY <1>6, <1>7, <2>1
  <2>3. probe[q].seen <= upstream /\ (active <= probe[q].seen \/ probe[q].missed)
    BY <2>1, <2>2 DEF SeenIsRecent
  <2>4. CASE e.kind = "adopted"
    BY <2>1, <2>2, <2>3, <2>4
  <2>5. CASE e.kind # "adopted"
    BY <1>2, <2>2, <2>3, <2>5
  <2> QED
    BY <2>4, <2>5
<1>10. VersionsAdvance'
  <2>1. /\ Len(log) \in Nat /\ DOMAIN log = 1 .. Len(log) /\ DOMAIN log' = 1 .. Len(log) + 1
        /\ log'[Len(log) + 1] = e /\ \A i \in DOMAIN log : log'[i] = log[i]
    BY <1>1, <1>2, AppendProperties DEF VersionType
  <2>2. \A i \in DOMAIN log' : i \in DOMAIN log \/ i = Len(log) + 1
    BY <2>1
  <2> QED
    BY <1>1, <2>1, <2>2 DEF VersionsAdvance
<1> QED
  BY <1>5, <1>8, <1>9, <1>10

LEMMA VersionSteps == VersionInv /\ [HostNext]_hostVars => VersionInv'
<1> SUFFICES ASSUME VersionInv, [HostNext]_hostVars PROVE VersionInv'
  OBVIOUS
<1>1. CASE UNCHANGED opsVars
  BY <1>1, VersionUntouched DEF opsVars, watch
<1>2. CASE OpsNext
  <2>1. CASE Publish
    <3>1. /\ upstream < Newest /\ upstream' = upstream + 1
          /\ UNCHANGED <<active, probe, log>>
      BY <2>1 DEF Publish
    <3>2. VersionType' /\ ProbeType' /\ VersionsAdvance'
      BY <3>1, OpsConstants DEF VersionInv, VersionType, ProbeType, VersionsAdvance
    <3>3. SeenIsRecent'
      BY <3>1 DEF VersionInv, VersionType, ProbeType, SeenIsRecent
    <3> QED
      BY <3>2, <3>3 DEF VersionInv
  <2>2. CASE \E t \in Traces : Emit(t)
    BY <2>2, VersionUntouched DEF Emit, watch
  <2>3. CASE \E b \in wire : BatchLands(b) \/ BatchFails(b)
    BY <2>3, VersionUntouched DEF BatchLands, BatchFails, watch
  <2>4. CASE Up \/ Stop \/ Flush \/ Flushed \/ Exit
    BY <2>4, VersionUntouched DEF Up, Stop, Flush, Flushed, Exit, watch
  <2> QED
    BY <1>2, <2>1, <2>2, <2>3, <2>4, VersionProbes, VersionReports DEF OpsNext
<1> QED
  BY <1>1, <1>2 DEF HostNext, hostVars

\* However many probes are under way, what is adopted or told as newer is newer
\* than what is announced, unless another probe adopted while it was out.
THEOREM VersionsAdvanceHolds == HostSpec => []VersionsAdvance
<1>1. HostInit => VersionInv
  BY VersionStarts DEF HostInit
<1>2. VersionInv => VersionsAdvance
  BY DEF VersionInv
<1> QED
  BY <1>1, <1>2, VersionSteps, PTL DEF HostSpec

-----------------------------------------------------------------------------
(* What the watch tells.                                                   *)

\* Latest and Edge, of any sequence of events.
Before(s, i, kinds) == {j \in 1 .. i - 1 : s[j].kind \in kinds}
LastOf(s, B) == IF B = {} THEN [kind |-> "none", v |-> Never]
                ELSE s[CHOOSE j \in B : \A k \in B : k <= j]
LatestIn(s, i, kinds) == LastOf(s, Before(s, i, kinds))

Standing == {"stale", "current"}

\* The failures in a row that a sequence ends with.
EndsIn(s, n) ==
  /\ n \in Nat /\ n <= Len(s)
  /\ \A j \in Len(s) - n + 1 .. Len(s) : s[j].kind = "probe-failed"
  /\ n = Len(s) \/ s[Len(s) - n].kind # "probe-failed"

EdgeIn(s, i) ==
  CASE s[i].kind = "probe-failed" ->
         /\ i >= Blind
         /\ \A j \in i - Blind + 1 .. i : s[j].kind = "probe-failed"
         /\ i = Blind \/ s[i - Blind].kind # "probe-failed"
    [] s[i].kind = "stale" ->
         ~(LatestIn(s, i, Standing).kind = "stale" /\ LatestIn(s, i, Standing).v = s[i].v)
    [] s[i].kind = "no-upgrade" -> LatestIn(s, i, {"no-upgrade"}).v # s[i].v
    [] OTHER -> s[i].kind = "adopted"

HasLast(s, kinds) == \A i \in 1 .. Len(s) + 1 :
  Before(s, i, kinds) = {} \/ \E j \in Before(s, i, kinds) : \A k \in Before(s, i, kinds) : k <= j

\* What the watch remembers of its log is enough to tell the edges by: the
\* length of the streak, and the last answers of either kind.
WatchInv ==
  /\ log \in Seq(Events) /\ HasLast(log, Standing) /\ HasLast(log, {"no-upgrade"})
  /\ \A i \in DOMAIN log : log[i].kind = "stale" => log[i].v # Never
  /\ EndsIn(log, failures)
  /\ notified.blind <=> failures >= Blind
  /\ LET d == LatestIn(log, Len(log) + 1, Standing) IN
       notified.stale = IF d.kind = "stale" THEN d.v ELSE Never
  /\ notified.noUpgrade = LatestIn(log, Len(log) + 1, {"no-upgrade"}).v
  /\ told = {i \in DOMAIN log : EdgeIn(log, i)}

LEMMA EdgesAreIn == TellsEdges <=> told = {i \in DOMAIN log : EdgeIn(log, i)}
  BY DEF TellsEdges, Edge, EdgeIn, Latest, LatestIn, LastOf, Before, Standing


LEMMA BehindIsSame ==
  ASSUME NEW s \in Seq(Events), NEW e \in Events, NEW kinds, NEW i \in 1 .. Len(s) + 1
  PROVE  Before(Append(s, e), i, kinds) = Before(s, i, kinds)
<1>1. Len(s) \in Nat /\ \A j \in 1 .. Len(s) : Append(s, e)[j] = s[j]
  BY AppendProperties
<1> QED
  BY <1>1 DEF Before

\* Another event changes nothing of what came before it.
LEMMA LatestBehind ==
  ASSUME NEW s \in Seq(Events), NEW e \in Events, NEW kinds, NEW i \in 1 .. Len(s) + 1,
         HasLast(s, kinds)
  PROVE  LatestIn(Append(s, e), i, kinds) = LatestIn(s, i, kinds)
<1> DEFINE t == Append(s, e)
<1>1. Len(s) \in Nat /\ \A j \in 1 .. Len(s) : t[j] = s[j]
  BY AppendProperties
<1>2. Before(t, i, kinds) = Before(s, i, kinds)
  BY BehindIsSame
<1> HIDE DEF t
<1>3. CASE Before(s, i, kinds) = {}
  BY <1>2, <1>3 DEF LatestIn, LastOf, t
<1>4. CASE Before(s, i, kinds) # {}
  <2> DEFINE B == Before(s, i, kinds)
             last == CHOOSE j \in B : \A k \in B : k <= j
  <2>1. LatestIn(t, i, kinds) = t[last] /\ LatestIn(s, i, kinds) = s[last]
    BY <1>2, <1>4 DEF LatestIn, LastOf
  <2>2. \E j \in B : \A k \in B : k <= j
    BY <1>4 DEF HasLast
  <2>3. last \in B
    <3> HIDE DEF B
    <3> QED
      BY <2>2
  <2>4. last \in 1 .. Len(s)
    BY <1>1, <2>3 DEF Before
  <2> HIDE DEF last
  <2> QED
    BY <1>1, <2>1, <2>4 DEF t
<1> QED
  BY <1>3, <1>4

LEMMA LatestIsNew ==
  ASSUME NEW s \in Seq(Events), NEW e \in Events, NEW kinds, HasLast(s, kinds)
  PROVE  /\ HasLast(Append(s, e), kinds)
         /\ LatestIn(Append(s, e), Len(s) + 2, kinds) =
              IF e.kind \in kinds THEN e ELSE LatestIn(s, Len(s) + 1, kinds)
<1> DEFINE t == Append(s, e)
           n == Len(s) + 1
           B == Before(t, n + 1, kinds)
           last == CHOOSE j \in B : \A k \in B : k <= j
<1>1. /\ Len(s) \in Nat /\ n \in Nat /\ Len(t) = n /\ t[n] = e
      /\ \A j \in 1 .. Len(s) : t[j] = s[j]
  BY AppendProperties
<1>2. \A i \in 1 .. n : Before(t, i, kinds) = Before(s, i, kinds)
  BY BehindIsSame
<1> HIDE DEF t
<1>3. e.kind \in kinds => n \in B /\ \A k \in B : k <= n
  BY <1>1 DEF Before
<1>4. e.kind \notin kinds => B = Before(s, n, kinds)
  <2>1. e.kind \notin kinds => B = Before(t, n, kinds)
    BY <1>1 DEF Before
  <2> QED
    BY <1>1, <1>2, <2>1
<1>5. HasLast(t, kinds)
  <2>1. ASSUME NEW i \in 1 .. Len(t) + 1
        PROVE  Before(t, i, kinds) = {}
               \/ \E j \in Before(t, i, kinds) : \A k \in Before(t, i, kinds) : k <= j
    <3>1. CASE i \in 1 .. n
      BY <1>2, <3>1 DEF HasLast
    <3>2. CASE i = n + 1 /\ e.kind \in kinds
      BY <1>3, <3>2
    <3>3. CASE i = n + 1 /\ e.kind \notin kinds
      BY <1>1, <1>4, <3>3 DEF HasLast
    <3> QED
      BY <1>1, <2>1, <3>1, <3>2, <3>3
  <2> QED
    BY <2>1 DEF HasLast
<1>6. CASE e.kind \in kinds
  <2>1. last = n
    <3>1. \A j \in B : (\A k \in B : k <= j) => j = n
      BY <1>1, <1>3, <1>6 DEF Before
    <3> HIDE DEF B
    <3> QED
      BY <1>3, <1>6, <3>1
  <2>2. LatestIn(t, n + 1, kinds) = t[last]
    BY <1>3, <1>6 DEF LatestIn, LastOf
  <2> HIDE DEF last
  <2> QED
    BY <1>1, <1>5, <1>6, <2>1, <2>2 DEF t
<1>7. CASE e.kind \notin kinds
  <2>1. LatestIn(t, n + 1, kinds) = LatestIn(t, n, kinds)
    <3>1. B = Before(t, n, kinds)
      BY <1>1, <1>2, <1>4, <1>7
    <3> QED
      BY <3>1 DEF LatestIn
  <2>2. LatestIn(t, n, kinds) = LatestIn(s, n, kinds)
    BY <1>1, LatestBehind DEF t
  <2> QED
    BY <1>1, <1>5, <1>7, <2>1, <2>2 DEF t
<1> QED
  BY <1>6, <1>7

LEMMA EdgeBehind ==
  ASSUME NEW s \in Seq(Events), NEW e \in Events, NEW i \in DOMAIN s,
         HasLast(s, Standing), HasLast(s, {"no-upgrade"})
  PROVE  EdgeIn(Append(s, e), i) <=> EdgeIn(s, i)
<1> DEFINE t == Append(s, e)
<1>1. /\ Len(s) \in Nat /\ i \in 1 .. Len(s) /\ \A j \in 1 .. Len(s) : t[j] = s[j]
  BY AppendProperties
<1>2. \A kinds \in {Standing, {"no-upgrade"}} : LatestIn(t, i, kinds) = LatestIn(s, i, kinds)
  BY <1>1, LatestBehind
<1> HIDE DEF t
<1>3. t[i] = s[i] /\ Blind \in Nat \ {0}
  BY <1>1, OpsConstants
<1>4. i >= Blind => /\ \A j \in i - Blind + 1 .. i : t[j] = s[j]
                    /\ i # Blind => t[i - Blind] = s[i - Blind]
  BY <1>1, <1>3
<1>5. EdgeIn(t, i) <=> EdgeIn(s, i)
  BY <1>2, <1>3, <1>4 DEF EdgeIn
<1> QED
  BY <1>5 DEF t

\* A streak becomes an edge at its Blind-th failure and never again.
LEMMA StreakIsEdge ==
  ASSUME NEW s \in Seq(Events), NEW e \in Events, NEW n, EndsIn(s, n)
  PROVE  /\ EndsIn(Append(s, e), IF e.kind = "probe-failed" THEN n + 1 ELSE 0)
         /\ e.kind = "probe-failed" => (EdgeIn(Append(s, e), Len(s) + 1) <=> n + 1 = Blind)
<1> DEFINE t == Append(s, e)
<1>1. /\ Len(s) \in Nat /\ Len(t) = Len(s) + 1 /\ t[Len(s) + 1] = e
      /\ \A j \in 1 .. Len(s) : t[j] = s[j]
  BY AppendProperties
<1>2. Blind \in Nat \ {0} /\ n \in Nat /\ n <= Len(s)
  BY OpsConstants DEF EndsIn
<1> HIDE DEF t
<1>3. EndsIn(t, IF e.kind = "probe-failed" THEN n + 1 ELSE 0)
  BY <1>1, <1>2 DEF EndsIn
<1>4. ASSUME e.kind = "probe-failed" PROVE EdgeIn(t, Len(s) + 1) <=> n + 1 = Blind
  <2> DEFINE i == Len(s) + 1
  <2>1. EdgeIn(t, i) <=> /\ i >= Blind
                         /\ \A j \in i - Blind + 1 .. i : t[j].kind = "probe-failed"
                         /\ i = Blind \/ t[i - Blind].kind # "probe-failed"
    BY <1>1, <1>4 DEF EdgeIn
  <2>2. CASE n + 1 = Blind
    <3>1. /\ i >= Blind /\ i - Blind + 1 = Len(s) - n + 1 /\ (i = Blind <=> n = Len(s))
          /\ i - Blind = Len(s) - n
      BY <1>1, <1>2, <2>2
    <3>2. \A j \in i - Blind + 1 .. i : j \in Len(s) - n + 1 .. Len(s) \/ j = i
      BY <1>1, <3>1
    <3>3. \A j \in Len(s) - n + 1 .. Len(s) : t[j].kind = "probe-failed"
      BY <1>1, <1>2 DEF EndsIn
    <3>4. \A j \in i - Blind + 1 .. i : t[j].kind = "probe-failed"
      BY <1>1, <1>4, <3>2, <3>3
    <3>5. n # Len(s) => t[i - Blind].kind # "probe-failed"
      <4>1. n # Len(s) => Len(s) - n \in 1 .. Len(s) /\ s[Len(s) - n].kind # "probe-failed"
        BY <1>1, <1>2 DEF EndsIn
      <4> QED
        BY <1>1, <3>1, <4>1
    <3>6. i = Blind \/ t[i - Blind].kind # "probe-failed"
      BY <3>1, <3>5
    <3>7. i >= Blind
      BY <3>1
    <3>8. EdgeIn(t, i)
      BY <2>1, <3>4, <3>6, <3>7
    <3> QED
      BY <2>2, <3>8
  <2>3. CASE n + 1 > Blind
    <3>1. i - Blind \in Len(s) - n + 1 .. Len(s)
      BY <1>1, <1>2, <2>3
    <3>2. t[i - Blind].kind = "probe-failed" /\ i # Blind
      <4>1. i - Blind \in 1 .. Len(s)
        BY <1>1, <1>2, <3>1
      <4>2. s[i - Blind].kind = "probe-failed"
        BY <3>1 DEF EndsIn
      <4>3. t[i - Blind] = s[i - Blind] /\ i - Blind # 0
        BY <1>1, <4>1
      <4>4. i # Blind
        BY <1>1, <1>2, <4>1
      <4> QED
        BY <4>2, <4>3, <4>4
    <3> QED
      BY <1>1, <1>2, <2>1, <2>3, <3>2
  <2>4. CASE n + 1 < Blind
    <3>1. i >= Blind => /\ n # Len(s) /\ Len(s) - n \in i - Blind + 1 .. i
                        /\ Len(s) - n \in 1 .. Len(s)
      BY <1>1, <1>2, <2>4
    <3>2. i >= Blind => t[Len(s) - n].kind # "probe-failed"
      BY <1>1, <3>1 DEF EndsIn
    <3> QED
      BY <1>2, <2>1, <2>4, <3>1, <3>2
  <2> QED
    BY <1>1, <1>2, <2>2, <2>3, <2>4
<1> QED
  BY <1>3, <1>4 DEF t
LEMMA WatchStarts == OpsInit => WatchInv
<1> SUFFICES ASSUME OpsInit PROVE WatchInv
  OBVIOUS
<1>1. /\ log = <<>> /\ Len(log) = 0 /\ failures = 0 /\ told = {} /\ DOMAIN log = {}
      /\ notified = [blind |-> FALSE, stale |-> Never, noUpgrade |-> Never]
      /\ Blind \in Nat \ {0}
  BY OpsConstants DEF OpsInit
<1>2. \A kinds : Before(log, 1, kinds) = {}
  BY DEF Before
<1>3. \A kinds : HasLast(log, kinds) /\ LatestIn(log, 1, kinds) = [kind |-> "none", v |-> Never]
  BY <1>1, <1>2 DEF HasLast, LatestIn, LastOf
<1>4. EndsIn(log, failures)
  BY <1>1 DEF EndsIn
<1> QED
  BY <1>1, <1>3, <1>4 DEF WatchInv

LEMMA WatchReports ==
  ASSUME VersionInv, WatchInv, NEW p \in Probes, Report(p)
  PROVE  WatchInv'
<1> DEFINE e == Event(probe[p])
           n == Len(log) + 1
<1>1. /\ e \in Events /\ e.v = probe[p].seen
      /\ e.kind \in {"adopted", "stale"} => e.v # Never
  BY EventIsHonest DEF Report, Event, Failed, Never
<1>2. /\ failures' = Streak(e) /\ notified' = After(e) /\ log' = Append(log, e)
      /\ told' = IF Alerts(e) THEN told \cup {Len(log')} ELSE told
  BY DEF Report
<1> HIDE DEF e
<1> USE DEF WatchInv
<1>3. /\ n \in Nat /\ Len(log') = n /\ log' \in Seq(Events) /\ log'[n] = e
      /\ DOMAIN log' = DOMAIN log \cup {n} /\ n \notin DOMAIN log
      /\ \A i \in DOMAIN log : log'[i] = log[i]
  BY <1>1, <1>2, AppendProperties
<1>4. \A kinds \in {Standing, {"no-upgrade"}} :
        /\ HasLast(log', kinds)
        /\ LatestIn(log', n, kinds) = LatestIn(log, n, kinds)
        /\ LatestIn(log', n + 1, kinds) = IF e.kind \in kinds THEN e ELSE LatestIn(log, n, kinds)
  <2>1. ASSUME NEW kinds, HasLast(log, kinds)
        PROVE  /\ HasLast(log', kinds)
               /\ LatestIn(log', n, kinds) = LatestIn(log, n, kinds)
               /\ LatestIn(log', Len(log) + 2, kinds) = IF e.kind \in kinds THEN e ELSE LatestIn(log, n, kinds)
    <3>1. n \in 1 .. Len(log) + 1
      BY <1>3
    <3>2. LatestIn(Append(log, e), n, kinds) = LatestIn(log, n, kinds)
      BY <1>1, <2>1, <3>1, LatestBehind
    <3> QED
      BY <1>1, <1>2, <2>1, <3>2, LatestIsNew
  <2>2. n + 1 = Len(log) + 2
    BY <1>3
  <2> QED
    BY <2>1, <2>2
<1>5. /\ EndsIn(log', failures')
      /\ e.kind = "probe-failed" => (EdgeIn(log', n) <=> failures + 1 = Blind)
  BY <1>1, <1>2, StreakIsEdge DEF Streak
<1>6. /\ Blind \in Nat \ {0} /\ failures \in Nat
  BY OpsConstants DEF EndsIn
<1>7. notified'.blind <=> failures' >= Blind
  <2>1. notified'.blind <=> (e.kind = "probe-failed" /\ (notified.blind \/ failures + 1 >= Blind))
    BY <1>2 DEF After
  <2> QED
    BY <1>2, <1>6, <2>1 DEF Streak
<1>8. LET d == LatestIn(log', n + 1, Standing) IN
        notified'.stale = IF d.kind = "stale" THEN d.v ELSE Never
  <2>1. notified'.stale = IF e.kind = "stale" THEN e.v
                          ELSE IF e.kind = "current" THEN Never ELSE notified.stale
    BY <1>2 DEF After
  <2> QED
    BY <1>4, <2>1 DEF Standing
<1>9. notified'.noUpgrade = LatestIn(log', n + 1, {"no-upgrade"}).v
  <2>1. notified'.noUpgrade = IF e.kind = "no-upgrade" THEN e.v ELSE notified.noUpgrade
    BY <1>2 DEF After
  <2> QED
    BY <1>4, <2>1
<1>10. Alerts(e) <=> EdgeIn(log', n)
  <2>1. e.kind \in Kinds
    BY <1>1 DEF Events
  <2>2. CASE e.kind = "probe-failed"
    BY <1>5, <1>6, <2>2 DEF Alerts
  <2>3. CASE e.kind = "stale"
    <3>1. EdgeIn(log', n) <=> ~(/\ LatestIn(log, n, Standing).kind = "stale"
                                /\ LatestIn(log, n, Standing).v = e.v)
      BY <1>3, <1>4, <2>3 DEF EdgeIn
    <3>2. notified.stale = IF LatestIn(log, n, Standing).kind = "stale"
                           THEN LatestIn(log, n, Standing).v ELSE Never
      OBVIOUS
    <3> QED
      BY <1>1, <2>3, <3>1, <3>2 DEF Alerts
  <2>4. CASE e.kind = "no-upgrade"
    <3>1. EdgeIn(log', n) <=> LatestIn(log, n, {"no-upgrade"}).v # e.v
      BY <1>3, <1>4, <2>4 DEF EdgeIn
    <3> QED
      BY <2>4, <3>1 DEF Alerts
  <2>5. CASE e.kind \in {"adopted", "current"}
    BY <1>3, <2>5 DEF Alerts, EdgeIn
  <2> QED
    BY <2>1, <2>2, <2>3, <2>4, <2>5 DEF Kinds
<1>11. told' = {i \in DOMAIN log' : EdgeIn(log', i)}
  <2>1. \A i \in DOMAIN log : EdgeIn(log', i) <=> EdgeIn(log, i)
    BY <1>1, <1>2, EdgeBehind
  <2>2. told' = IF EdgeIn(log', n) THEN told \cup {n} ELSE told
    BY <1>2, <1>3, <1>10
  <2>3. told = {i \in DOMAIN log : EdgeIn(log, i)}
    OBVIOUS
  <2> HIDE DEF WatchInv, n
  <2> QED
    BY <1>3, <2>1, <2>2, <2>3
<1>12. \A i \in DOMAIN log' : log'[i].kind = "stale" => log'[i].v # Never
  BY <1>1, <1>3
<1> QED
  BY <1>3, <1>4, <1>5, <1>7, <1>8, <1>9, <1>11, <1>12

LEMMA WatchSteps == VersionInv /\ WatchInv /\ [HostNext]_hostVars => WatchInv'
<1> SUFFICES ASSUME VersionInv, WatchInv, [HostNext]_hostVars PROVE WatchInv'
  OBVIOUS
<1>1. CASE UNCHANGED <<log, failures, notified, told>>
  BY <1>1 DEF WatchInv
<1>2. CASE UNCHANGED opsVars
  BY <1>1, <1>2 DEF opsVars, watch
<1>3. CASE OpsNext
  <2>1. CASE \E p \in Probes : Check(p) \/ Refused(p) \/ Fetch(p)
    BY <1>1, <2>1 DEF Check, Refused, Fetch
  <2>2. CASE Publish
    BY <1>1, <2>2 DEF Publish
  <2>3. CASE \E t \in Traces : Emit(t)
    BY <1>1, <2>3 DEF Emit, watch
  <2>4. CASE \E b \in wire : BatchLands(b) \/ BatchFails(b)
    BY <1>1, <2>4 DEF BatchLands, BatchFails, watch
  <2>5. CASE Up \/ Stop \/ Flush \/ Flushed \/ Exit
    BY <1>1, <2>5 DEF Up, Stop, Flush, Flushed, Exit, watch
  <2> QED
    BY <1>3, <2>1, <2>2, <2>3, <2>4, <2>5, WatchReports DEF OpsNext
<1> QED
  BY <1>2, <1>3 DEF HostNext, hostVars

\* The watch tells each condition when it begins and not again while it stands,
\* in whatever order checks and fall-forwards report (wa-version-watch.ts).
THEOREM TellsEdgesHolds == HostSpec => []TellsEdges
<1>1. HostInit => VersionInv /\ WatchInv
  BY VersionStarts, WatchStarts DEF HostInit
<1>2. WatchInv => TellsEdges
  BY EdgesAreIn DEF WatchInv
<1> QED
  BY <1>1, <1>2, VersionSteps, WatchSteps, PTL DEF HostSpec

-----------------------------------------------------------------------------
(* The trace sink.                                                         *)

TraceEvents == Traces \X Nat

Distinct(s, t) == ToSet(s) \cap ToSet(t) = {}

Held(W) == UNION {ToSet(b) : b \in W}
Sent == Held(wire)
OutOfBuffer == Sent \cup ToSet(arrived) \cup lost

\* A trace event is in one place: the buffer, a batch, or what came of a batch.
SinkType ==
  /\ buffer \in Seq(TraceEvents) /\ arrived \in Seq(TraceEvents)
  /\ wire \subseteq Seq(TraceEvents) \ {<<>>}
  /\ announced \subseteq Traces /\ lost \subseteq TraceEvents
  /\ IsFiniteSet(spans)
  /\ spans \subseteq {s \in TraceEvents : s[2] \in 1 .. Cardinality(spans)}

OncePlaced ==
  /\ IsInjective(buffer) /\ IsInjective(arrived) /\ \A b \in wire : IsInjective(b)
  /\ ToSet(buffer) \cap OutOfBuffer = {}
  /\ \A b \in wire : ToSet(b) \cap (ToSet(arrived) \cup lost) = {}
  /\ \A b, c \in wire : b # c => Distinct(b, c)

\* What is placed was emitted or announces a trace, and the announcement of a
\* trace is never behind its spans.
Placed ==
  /\ ToSet(buffer) \cup OutOfBuffer = spans \cup {Create(t) : t \in announced}
  /\ \A s \in spans : s[1] \in announced
  /\ \A s \in OutOfBuffer : Create(s[1]) \in OutOfBuffer

SinkInv ==
  /\ SinkType /\ OncePlaced /\ Placed
  /\ phase \in {"flushing", "flushed", "exited"} => ToSet(buffer) \cap spans \subseteq late

LEMMA Joined ==
  ASSUME NEW S, NEW s \in Seq(S), NEW t \in Seq(S)
  PROVE  /\ s \o t \in Seq(S) /\ ToSet(s \o t) = ToSet(s) \cup ToSet(t)
         /\ IsInjective(s) /\ IsInjective(t) /\ Distinct(s, t) => IsInjective(s \o t)
<1> DEFINE u == s \o t
<1>1. /\ u \in Seq(S) /\ Len(u) = Len(s) + Len(t) /\ Len(s) \in Nat /\ Len(t) \in Nat
      /\ \A i \in 1 .. Len(s) : u[i] = s[i]
      /\ \A i \in Len(s) + 1 .. Len(u) : u[i] = t[i - Len(s)]
      /\ DOMAIN u = 1 .. Len(u) /\ DOMAIN s = 1 .. Len(s) /\ DOMAIN t = 1 .. Len(t)
  BY ConcatProperties
<1> HIDE DEF u
<1>2. ToSet(u) \subseteq ToSet(s) \cup ToSet(t)
  <2>1. ASSUME NEW i \in DOMAIN u PROVE u[i] \in ToSet(s) \cup ToSet(t)
    <3>1. CASE i \in 1 .. Len(s)
      BY <1>1, <3>1 DEF ToSet
    <3>2. CASE i \in Len(s) + 1 .. Len(u)
      <4>1. i - Len(s) \in DOMAIN t
        BY <1>1, <3>2
      <4> QED
        BY <1>1, <3>2, <4>1 DEF ToSet
    <3> QED
      BY <1>1, <3>1, <3>2
  <2> QED
    BY <2>1 DEF ToSet
<1>3. ToSet(s) \subseteq ToSet(u)
  BY <1>1 DEF ToSet
<1>4. ToSet(t) \subseteq ToSet(u)
  <2>1. ASSUME NEW i \in DOMAIN t PROVE t[i] \in ToSet(u)
    <3>1. i + Len(s) \in Len(s) + 1 .. Len(u) /\ i + Len(s) - Len(s) = i /\ i + Len(s) \in DOMAIN u
      BY <1>1
    <3>2. u[i + Len(s)] = t[i]
      BY <1>1, <3>1
    <3> QED
      BY <3>1, <3>2 DEF ToSet
  <2> QED
    BY <2>1 DEF ToSet
<1>5. ASSUME IsInjective(s), IsInjective(t), Distinct(s, t) PROVE IsInjective(u)
  <2>1. ASSUME NEW i \in DOMAIN u, NEW j \in DOMAIN u, u[i] = u[j] PROVE i = j
    <3>1. CASE i \in 1 .. Len(s) /\ j \in 1 .. Len(s)
      BY <1>1, <1>5, <2>1, <3>1 DEF IsInjective
    <3>2. CASE i \in Len(s) + 1 .. Len(u) /\ j \in Len(s) + 1 .. Len(u)
      <4>1. i - Len(s) \in DOMAIN t /\ j - Len(s) \in DOMAIN t
        BY <1>1, <3>2
      <4>2. i - Len(s) = j - Len(s)
        BY <1>1, <1>5, <2>1, <3>2, <4>1 DEF IsInjective
      <4> QED
        BY <1>1, <3>2, <4>2
    <3>3. ASSUME NEW k \in 1 .. Len(s), NEW m \in Len(s) + 1 .. Len(u) PROVE u[k] # u[m]
      <4>1. u[k] \in ToSet(s)
        BY <1>1 DEF ToSet
      <4>2. m - Len(s) \in DOMAIN t
        BY <1>1
      <4>3. u[m] \in ToSet(t)
        BY <1>1, <4>2 DEF ToSet
      <4> QED
        BY <1>5, <4>1, <4>3 DEF Distinct
    <3> QED
      BY <1>1, <2>1, <3>1, <3>2, <3>3
  <2> QED
    BY <2>1 DEF IsInjective
<1> QED
  BY <1>1, <1>2, <1>3, <1>4, <1>5 DEF u

LEMMA OneAlone ==
  ASSUME NEW S, NEW x \in S
  PROVE  <<x>> \in Seq(S) /\ ToSet(<<x>>) = {x} /\ IsInjective(<<x>>)
  BY DEF ToSet, IsInjective

LEMMA NoneAtAll ==
  ASSUME NEW S PROVE <<>> \in Seq(S) /\ ToSet(<<>>) = {} /\ IsInjective(<<>>)
  BY DEF ToSet, IsInjective
LEMMA HeldInBatches ==
  ASSUME NEW W, NEW x
  PROVE  x \in Held(W) <=> \E c \in W : x \in ToSet(c)
<1>1. ASSUME NEW c \in W, x \in ToSet(c) PROVE x \in Held(W)
  <2>1. ToSet(c) \in {ToSet(d) : d \in W}
    OBVIOUS
  <2> QED
    BY <1>1, <2>1 DEF Held
<1>2. ASSUME x \in Held(W) PROVE \E c \in W : x \in ToSet(c)
  <2>1. PICK S \in {ToSet(d) : d \in W} : x \in S
    BY <1>2 DEF Held
  <2> QED
    BY <2>1
<1> QED
  BY <1>1, <1>2

LEMMA BatchesApart ==
  ASSUME NEW W, NEW b \in W PROVE Held(W) = Held(W \ {b}) \cup ToSet(b)
  BY HeldInBatches

LEMMA SentInBatches == \A b \in wire : ToSet(b) \subseteq Sent
  BY HeldInBatches DEF Sent

LEMMA SinkStarts == OpsInit => SinkInv
<1> SUFFICES ASSUME OpsInit PROVE SinkInv
  OBVIOUS
<1>1. /\ buffer = <<>> /\ arrived = <<>> /\ wire = {} /\ lost = {} /\ announced = {} /\ spans = {}
      /\ phase = "starting"
  BY DEF OpsInit
<1>2. ToSet(buffer) = {} /\ IsInjective(buffer) /\ buffer \in Seq(TraceEvents) /\ OutOfBuffer = {}
  BY <1>1, NoneAtAll DEF OutOfBuffer, Sent, Held
<1>3. SinkType
  BY <1>1, <1>2, FS_EmptySet DEF SinkType
<1>4. OncePlaced /\ Placed
  BY <1>1, <1>2 DEF OncePlaced, Placed
<1> QED
  BY <1>1, <1>3, <1>4 DEF SinkInv

\* A batch goes on the wire, the buffer is empty.
LEMMA BatchLeaves ==
  ASSUME SinkInv, NEW q \in Seq(TraceEvents), q # <<>>, IsInjective(q), ToSet(q) \cap OutOfBuffer = {},
         wire' = wire \cup {q}, buffer' = <<>>, UNCHANGED <<arrived, lost>>
  PROVE  /\ wire' \subseteq Seq(TraceEvents) \ {<<>>} /\ buffer' \in Seq(TraceEvents)
         /\ ToSet(buffer') = {} /\ OutOfBuffer' = OutOfBuffer \cup ToSet(q) /\ OncePlaced'
<1>1. ToSet(buffer') = {} /\ IsInjective(buffer') /\ buffer' \in Seq(TraceEvents)
  BY NoneAtAll
<1>2. OutOfBuffer' = OutOfBuffer \cup ToSet(q)
  <2>1. Held(wire \cup {q}) = Held(wire) \cup ToSet(q)
    BY HeldInBatches
  <2> QED
    BY <2>1 DEF OutOfBuffer, Sent
<1>3. wire' \subseteq Seq(TraceEvents) \ {<<>>}
  BY DEF SinkInv, SinkType
<1>4. OncePlaced'
  <2>1. \A b \in wire : Distinct(b, q) /\ Distinct(q, b)
    <3>1. \A b \in wire : ToSet(b) \subseteq OutOfBuffer
      BY SentInBatches DEF OutOfBuffer
    <3> QED
      BY <3>1 DEF Distinct
  <2>2. ToSet(q) \cap (ToSet(arrived) \cup lost) = {}
    BY DEF OutOfBuffer
  <2>3. \A b, c \in wire' : b # c => Distinct(b, c)
    BY <2>1 DEF SinkInv, OncePlaced
  <2> QED
    BY <1>1, <2>2, <2>3 DEF SinkInv, OncePlaced
<1> QED
  BY <1>1, <1>2, <1>3, <1>4

LEMMA SinkEmits == ASSUME SinkInv, NEW t \in Traces, Emit(t) PROVE SinkInv'
<1> DEFINE s == <<t, Cardinality(spans) + 1>>
           news == IF t \in announced THEN <<>> ELSE <<Create(t)>>
           head == buffer \o news
           q == head \o <<s>>
<1>1. /\ phase # "exited" /\ spans' = spans \cup {s} /\ announced' = announced \cup {t}
      /\ late' = IF phase \in {"flushing", "flushed"} THEN late \cup {s} ELSE late
      /\ \/ buffer' = <<>> /\ wire' = wire \cup {q}
         \/ buffer' = q /\ UNCHANGED wire
      /\ UNCHANGED <<phase, arrived, lost>>
  <2>1. s[1] = t
    OBVIOUS
  <2>2. Enqueued(s) = q
    BY <2>1 DEF Enqueued
  <2> HIDE DEF q, s
  <2> QED
    BY <2>2 DEF Emit, s
<1>2. Cardinality(spans) \in Nat /\ Cardinality(spans \cup {s}) = Cardinality(spans) + 1 /\ IsFiniteSet(spans')
  <2>1. s \notin spans /\ IsFiniteSet(spans)
    <3>1. Cardinality(spans) \in Nat
      BY FS_CardinalityType DEF SinkInv, SinkType
    <3> QED
      BY <3>1 DEF SinkInv, SinkType
  <2> HIDE DEF s
  <2> QED
    BY <1>1, <2>1, FS_AddElement, FS_CardinalityType
<1>3. /\ s \in TraceEvents /\ Create(t) \in TraceEvents /\ s[1] = t /\ Create(t)[1] = t
      /\ s # Create(t) /\ s \notin spans /\ Create(t) \notin spans'
      /\ \A u \in Traces : s # Create(u)
      /\ t \notin announced => \A u \in announced : Create(t) # Create(u)
  BY <1>1, <1>2 DEF TraceEvents, Create, SinkInv, SinkType
<1>4. /\ s \notin ToSet(buffer) \cup OutOfBuffer
      /\ t \notin announced => Create(t) \notin ToSet(buffer) \cup OutOfBuffer
  BY <1>1, <1>3 DEF SinkInv, SinkType, Placed
<1>5. /\ news \in Seq(TraceEvents) /\ IsInjective(news)
      /\ ToSet(news) = IF t \in announced THEN {} ELSE {Create(t)}
  <2>1. CASE t \in announced
    BY <2>1, NoneAtAll
  <2>2. CASE t \notin announced
    BY <1>3, <2>2, OneAlone
  <2> QED
    BY <2>1, <2>2
<1> HIDE DEF s, news
<1>6. /\ head \in Seq(TraceEvents) /\ IsInjective(head)
      /\ ToSet(head) = ToSet(buffer) \cup ToSet(news)
  BY <1>4, <1>5, Joined DEF SinkInv, SinkType, OncePlaced, Distinct
<1> HIDE DEF head
<1>7. q \in Seq(TraceEvents) /\ IsInjective(q) /\ ToSet(q) = ToSet(buffer) \cup ToSet(news) \cup {s}
  <2>1. <<s>> \in Seq(TraceEvents) /\ IsInjective(<<s>>) /\ ToSet(<<s>>) = {s}
    BY <1>3, OneAlone
  <2>2. Distinct(head, <<s>>)
    BY <1>3, <1>4, <1>5, <1>6, <2>1 DEF Distinct
  <2> QED
    BY <1>6, <2>1, <2>2, Joined
<1>8. q # <<>> /\ ToSet(q) \cap OutOfBuffer = {}
  <2>1. ToSet(<<>>) = {}
    BY NoneAtAll
  <2>2. ToSet(q) \cap OutOfBuffer = {}
    BY <1>4, <1>5, <1>7 DEF SinkInv, OncePlaced
  <2> HIDE DEF q
  <2> QED
    BY <1>7, <2>1, <2>2
<1> HIDE DEF q
<1>9. /\ announced' \subseteq Traces /\ lost' \subseteq TraceEvents /\ arrived' \in Seq(TraceEvents)
      /\ spans' \subseteq {x \in TraceEvents : x[2] \in 1 .. Cardinality(spans')}
  <2>1. Cardinality(spans') = Cardinality(spans) + 1 /\ s[2] = Cardinality(spans) + 1
    BY <1>1, <1>2 DEF s
  <2> QED
    BY <1>1, <1>2, <1>3, <2>1 DEF SinkInv, SinkType
<1>10. \A x \in ToSet(q) \cup OutOfBuffer : Create(x[1]) \in ToSet(q) \cup OutOfBuffer
  <2>1. ToSet(q) \cup OutOfBuffer = spans' \cup {Create(u) : u \in announced'}
    BY <1>1, <1>5, <1>7 DEF SinkInv, Placed
  <2>2. \A x \in spans' : x[1] \in announced'
    BY <1>1, <1>3 DEF SinkInv, Placed
  <2>3. \A u : Create(u)[1] = u
    BY DEF Create
  <2> QED
    BY <2>1, <2>2, <2>3
<1>11. CASE buffer' = <<>> /\ wire' = wire \cup {q}
  <2>1. /\ wire' \subseteq Seq(TraceEvents) \ {<<>>} /\ buffer' \in Seq(TraceEvents)
        /\ ToSet(buffer') = {} /\ OutOfBuffer' = OutOfBuffer \cup ToSet(q) /\ OncePlaced'
    BY <1>1, <1>7, <1>8, <1>11, BatchLeaves
  <2>2. Placed'
    BY <1>1, <1>3, <1>5, <1>7, <1>10, <2>1 DEF SinkInv, Placed
  <2> QED
    BY <1>2, <1>9, <2>1, <2>2 DEF SinkInv, SinkType
<1>12. CASE buffer' = q /\ UNCHANGED wire
  <2>1. OutOfBuffer' = OutOfBuffer
    BY <1>1, <1>12 DEF OutOfBuffer, Sent, Held
  <2>2. OncePlaced'
    BY <1>1, <1>7, <1>8, <1>12, <2>1 DEF SinkInv, OncePlaced
  <2>3. Placed'
    BY <1>1, <1>3, <1>5, <1>7, <1>12, <2>1 DEF SinkInv, Placed
  <2>4. SinkType'
    BY <1>2, <1>7, <1>9, <1>12 DEF SinkInv, SinkType
  <2>5. phase' \in {"flushing", "flushed", "exited"} => ToSet(buffer') \cap spans' \subseteq late'
    BY <1>1, <1>3, <1>5, <1>7, <1>12 DEF SinkInv
  <2> QED
    BY <2>2, <2>3, <2>4, <2>5 DEF SinkInv
<1> QED
  BY <1>1, <1>11, <1>12

\* What becomes of a batch.
LEMMA BatchEnds ==
  ASSUME SinkInv, NEW b \in wire, NEW taken \in Seq(TraceEvents),
         IsInjective(taken), ToSet(taken) \subseteq ToSet(b),
         wire' = wire \ {b}, arrived' = arrived \o taken,
         lost' \in {lost, lost \cup ToSet(b)}, ToSet(b) \subseteq ToSet(taken) \cup lost',
         UNCHANGED <<phase, buffer, announced, spans, late>>
  PROVE  SinkInv'
<1>1. /\ b \in Seq(TraceEvents) /\ arrived \in Seq(TraceEvents)
      /\ ToSet(b) \cap ToSet(arrived) = {} /\ IsInjective(arrived)
  BY DEF SinkInv, SinkType, OncePlaced
<1>2. /\ arrived' \in Seq(TraceEvents) /\ IsInjective(arrived')
      /\ ToSet(arrived') = ToSet(arrived) \cup ToSet(taken)
  BY <1>1, Joined DEF Distinct
<1>3. OutOfBuffer' = OutOfBuffer
  <2>1. Sent = Sent' \cup ToSet(b)
    BY BatchesApart DEF Sent
  <2> QED
    BY <1>2, <2>1 DEF OutOfBuffer
<1>4. ToSet(b) \subseteq TraceEvents
  BY <1>1 DEF ToSet
<1>5. SinkType'
  BY <1>2, <1>4 DEF SinkInv, SinkType
<1>6. OncePlaced'
  <2>1. \A c \in wire' : c \in wire /\ ToSet(c) \cap ToSet(b) = {} /\ ToSet(c) \cap (ToSet(arrived) \cup lost) = {}
    BY DEF SinkInv, OncePlaced, Distinct
  <2>2. \A c \in wire' : ToSet(c) \cap (ToSet(arrived') \cup lost') = {}
    BY <1>2, <2>1
  <2> QED
    BY <1>2, <1>3, <2>1, <2>2 DEF SinkInv, OncePlaced
<1>7. Placed'
  BY <1>3 DEF SinkInv, Placed
<1> QED
  BY <1>5, <1>6, <1>7 DEF SinkInv

LEMMA SinkHears == ASSUME SinkInv, NEW b \in wire, BatchLands(b) \/ BatchFails(b) PROVE SinkInv'
<1>1. b \in Seq(TraceEvents) /\ b # <<>> /\ IsInjective(b) /\ Len(b) \in Nat /\ DOMAIN b = 1 .. Len(b)
  BY DEF SinkInv, SinkType, OncePlaced
<1>2. UNCHANGED <<phase, buffer, announced, spans, late>>
  BY DEF BatchLands, BatchFails
<1>3. CASE BatchLands(b)
  BY <1>1, <1>2, <1>3, BatchEnds DEF BatchLands
<1>4. CASE BatchFails(b)
  <2>1. PICK taken \in {<<>>, <<Head(b)>>, b} : arrived' = arrived \o taken
    BY <1>4 DEF BatchFails
  <2>2. wire' = wire \ {b} /\ lost' = lost \cup ToSet(b)
    BY <1>4 DEF BatchFails
  <2>3. Head(b) \in TraceEvents /\ Head(b) \in ToSet(b)
    <3>1. Head(b) = b[1] /\ 1 \in DOMAIN b
      BY <1>1
    <3> QED
      BY <1>1, <3>1 DEF ToSet
  <2>4. taken \in Seq(TraceEvents) /\ IsInjective(taken) /\ ToSet(taken) \subseteq ToSet(b)
    <3>1. CASE taken = <<>>
      BY <3>1, NoneAtAll
    <3>2. CASE taken = <<Head(b)>>
      BY <2>3, <3>2, OneAlone
    <3> QED
      BY <1>1, <2>1, <3>1, <3>2
  <2> QED
    BY <1>2, <2>1, <2>2, <2>4, BatchEnds
<1> QED
  BY <1>3, <1>4

LEMMA SinkStops == ASSUME SinkInv, Up \/ Stop \/ Flush \/ Flushed \/ Exit PROVE SinkInv'
<1>1. CASE Flush
  <2>1. /\ phase' = "flushing" /\ buffer' = <<>>
        /\ wire' = IF buffer = <<>> THEN wire ELSE wire \cup {buffer}
        /\ UNCHANGED <<announced, spans, late, arrived, lost>>
    BY <1>1 DEF Flush
  <2>2. /\ wire' \subseteq Seq(TraceEvents) \ {<<>>} /\ buffer' \in Seq(TraceEvents)
        /\ ToSet(buffer') = {} /\ OutOfBuffer' = OutOfBuffer \cup ToSet(buffer) /\ OncePlaced'
    <3>1. CASE buffer = <<>>
      <4>1. ToSet(buffer) = {} /\ OutOfBuffer' = OutOfBuffer
        BY <2>1, <3>1, NoneAtAll DEF OutOfBuffer, Sent, Held
      <4> QED
        BY <2>1, <3>1, <4>1 DEF SinkInv, SinkType, OncePlaced
    <3>2. CASE buffer # <<>>
      BY <2>1, <3>2, BatchLeaves DEF SinkInv, SinkType, OncePlaced
    <3> QED
      BY <3>1, <3>2
  <2>3. Placed'
    <3>1. \A x \in ToSet(buffer) \cup OutOfBuffer : Create(x[1]) \in ToSet(buffer) \cup OutOfBuffer
      <4>1. \A u : Create(u)[1] = u
        BY DEF Create
      <4> QED
        BY <4>1 DEF SinkInv, Placed
    <3> QED
      BY <2>1, <2>2, <3>1 DEF SinkInv, Placed
  <2>4. SinkType'
    BY <2>1, <2>2 DEF SinkInv, SinkType
  <2> QED
    BY <2>2, <2>3, <2>4 DEF SinkInv
<1>2. CASE Up \/ Stop \/ Flushed \/ Exit
  <2>1. /\ UNCHANGED <<buffer, wire, announced, spans, late, arrived, lost>>
        /\ phase' \in {"flushing", "flushed", "exited"} => phase \in {"flushing", "flushed", "exited"}
    BY <1>2 DEF Up, Stop, Flushed, Exit, sink
  <2> QED
    BY <2>1 DEF SinkInv, SinkType, OncePlaced, Placed, OutOfBuffer, Sent, Held
<1> QED
  BY <1>1, <1>2

LEMMA SinkUntouched ==
  ASSUME SinkInv, UNCHANGED <<phase, sink>> PROVE SinkInv'
  BY DEF SinkInv, SinkType, OncePlaced, Placed, OutOfBuffer, Sent, Held, sink

LEMMA SinkSteps == SinkInv /\ [HostNext]_hostVars => SinkInv'
<1> SUFFICES ASSUME SinkInv, [HostNext]_hostVars PROVE SinkInv'
  OBVIOUS
<1>1. CASE UNCHANGED opsVars
  BY <1>1, SinkUntouched DEF opsVars
<1>2. CASE OpsNext
  <2>1. CASE \E p \in Probes : Check(p) \/ Refused(p) \/ Fetch(p) \/ Report(p)
    BY <2>1, SinkUntouched DEF Check, Refused, Fetch, Report
  <2>2. CASE Publish
    BY <2>2, SinkUntouched DEF Publish
  <2> QED
    BY <1>2, <2>1, <2>2, SinkEmits, SinkHears, SinkStops DEF OpsNext
<1> QED
  BY <1>1, <1>2 DEF HostNext, hostVars

\* No span is sent twice or dropped unseen, a trace is announced no later than
\* its spans, and a stop leaves behind only what came after its flush
\* (langfuse-sink.ts emit and flush, main.ts shutdown).
THEOREM TracesWholeHolds == HostSpec => []TracesWhole
<1>1. HostInit => SinkInv
  BY SinkStarts DEF HostInit
<1>2. SinkInv => TracesWhole
  <2> SUFFICES ASSUME SinkInv PROVE TracesWhole
    OBVIOUS
  <2>1. IsInjective(arrived) /\ IsInjective(buffer)
    BY DEF SinkInv, OncePlaced
  <2>2. ToSet(buffer) \cap OutOfBuffer = {} /\ spans \subseteq ToSet(buffer) \cup OutOfBuffer
    BY DEF SinkInv, OncePlaced, Placed
  <2>3. \A s \in ToSet(arrived) : Create(s[1]) \in OutOfBuffer
    BY DEF SinkInv, Placed, OutOfBuffer
  <2>4. phase \in {"flushing", "flushed", "exited"} => ToSet(buffer) \cap spans \subseteq late
    BY DEF SinkInv
  <2> QED
    BY <2>1, <2>2, <2>3, <2>4 DEF TracesWhole, OutOfBuffer, Sent, Held
<1> QED
  BY <1>1, <1>2, SinkSteps, PTL DEF HostSpec

-----------------------------------------------------------------------------
(* The environment and the firewall's names.                               *)

\* A schema that asks for less finds less wrong, and reads the same.
LEMMA NarrowerSchema ==
  ASSUME NEW env, NEW few, NEW many, few \subseteq many, Issues(env, many) = {}
  PROVE  /\ Issues(env, few) = {}
         /\ \A v \in few : Parsed(env, few)[v] = Parsed(env, many)[v]
  BY DEF Issues, Parsed

LEMMA SchemasOverlap ==
  /\ {"WA_SESSION_DIR", "WA_CLIENT_VERSION", "ALERT_CHANNEL_TOKEN", "ALERT_CHANNEL_CHAT_ID",
      "DEADMAN_PING_URL"} \subseteq ProductionSchema
  /\ {"WA_SESSION_DIR"} \subseteq ProductionSchema
  /\ {"DATABASE_URL"} \subseteq ProductionSchema
  /\ EnvSchema \subseteq ProductionSchema
<1>1. {"WA_SESSION_DIR", "WA_CLIENT_VERSION"} \subseteq DOMAIN Defaults
  BY DEF Defaults
<1>2. {"WA_SESSION_DIR", "WA_CLIENT_VERSION"} \cap ConsoleSchema = {}
  BY DEF ConsoleSchema
<1> QED
  BY <1>1, <1>2 DEF ProductionSchema, EnvSchema, Required

LEMMA ProductionPicks ==
  ASSUME NEW env, LoadProductionConfig(env).issues = {}
  PROVE  /\ Issues(env, ProductionSchema) = {}
         /\ LoadConfig(env).issues = {}
         /\ \A v \in ProductionSchema : LoadProductionConfig(env).config[v] = Parsed(env, ProductionSchema)[v]
  BY DEF LoadProductionConfig, Both, Pick, Parsed

\* What the process starts with is enough for the transport runner, for pairing and
\* for the migrations, and they read the same in it: no tool works on another
\* session, socket version or database than the process does.
THEOREM ToolsReadTheSame ==
  ASSUME NEW env, LoadProductionConfig(env).issues = {},
         NEW tool \in {LoadTransportOpsConfig(env), LoadWaSessionDir(env), LoadDatabaseUrl(env)}
  PROVE  /\ tool.issues = {}
         /\ \A v \in DOMAIN tool.config : tool.config[v] = LoadProductionConfig(env).config[v]
<1>1. ASSUME NEW few, few \subseteq ProductionSchema, tool = Pick(env, few)
      PROVE  /\ tool.issues = {}
             /\ \A v \in DOMAIN tool.config : tool.config[v] = LoadProductionConfig(env).config[v]
  <2>1. Issues(env, few) = {} /\ \A v \in few : Parsed(env, few)[v] = Parsed(env, ProductionSchema)[v]
    BY <1>1, ProductionPicks, NarrowerSchema
  <2>2. DOMAIN Parsed(env, few) = few
    BY DEF Parsed
  <2> QED
    BY <1>1, <2>1, <2>2, ProductionPicks DEF Pick
<1> QED
  BY <1>1, SchemasOverlap DEF LoadTransportOpsConfig, LoadWaSessionDir, LoadDatabaseUrl

\* A configuration that routes turns has the router's key, and whatever tiers it
\* enables the standard one is among them: there is always a model to fall back to.
THEOREM RoutingCanRun ==
  ASSUME NEW env, LoadConfig(env).issues = {}
  PROVE  LET config == LoadConfig(env).config IN
         /\ config["TURN_ROUTING"] # {"off"} => config["TYPESAFE_API_KEY"] # Undefined
         /\ "standard" \in config["TURN_ROUTING_TIERS"]
         /\ "TURN_ROUTING" \notin DOMAIN env => config["TURN_ROUTING"] = {"off"}
<1> DEFINE parsed == Parsed(env, EnvSchema)
<1>1. /\ Issues(env, EnvSchema) = {} /\ LoadConfig(env).config = parsed
      /\ parsed["TURN_ROUTING"] # {"off"} => parsed["TYPESAFE_API_KEY"] # Undefined
  BY DEF LoadConfig, Pick
<1>2. "TURN_ROUTING_TIERS" \in DOMAIN Defaults /\ Defaults["TURN_ROUTING_TIERS"] = {"standard", "deep"}
  BY DEF Defaults
<1>3. "TURN_ROUTING" \in DOMAIN Defaults /\ Defaults["TURN_ROUTING"] = {"off"}
  BY DEF Defaults
<1>4. {"TURN_ROUTING_TIERS", "TURN_ROUTING"} \subseteq EnvSchema
  BY <1>2, <1>3 DEF EnvSchema, ConsoleSchema
<1>5. "standard" \in parsed["TURN_ROUTING_TIERS"]
  <2>1. CASE "TURN_ROUTING_TIERS" \in DOMAIN env
    <3>1. Accepts("TURN_ROUTING_TIERS", env["TURN_ROUTING_TIERS"])
      BY <1>1, <1>4, <2>1 DEF Issues
    <3>2. "standard" \in Items(env["TURN_ROUTING_TIERS"])
      BY <3>1 DEF Accepts, Lists, Efforts, Formatted
    <3>3. Meaning("TURN_ROUTING_TIERS", env["TURN_ROUTING_TIERS"]) = Items(env["TURN_ROUTING_TIERS"])
      BY DEF Meaning, Lists, Efforts
    <3> QED
      BY <1>4, <2>1, <3>2, <3>3 DEF Parsed
  <2> QED
    BY <1>2, <1>4, <2>1 DEF Parsed
<1>6. "TURN_ROUTING" \notin DOMAIN env => parsed["TURN_ROUTING"] = {"off"}
  BY <1>3, <1>4 DEF Parsed
<1> QED
  BY <1>1, <1>5, <1>6

\* main, which has loaded its configuration, never ends for want of the router's key.
THEOREM RouterIsWired ==
  ASSUME NEW env, LoadProductionConfig(env).issues = {}
  PROVE  ~WiringThrows(LoadProductionConfig(env).config)
<1> DEFINE parsed == Parsed(env, EnvSchema)
<1>1. /\ Issues(env, EnvSchema) = {}
      /\ parsed["TURN_ROUTING"] # {"off"} => parsed["TYPESAFE_API_KEY"] # Undefined
  BY ProductionPicks DEF LoadConfig, Pick
<1>2. "TURN_ROUTING" \in DOMAIN Defaults
  BY DEF Defaults
<1>3. {"TURN_ROUTING", "TYPESAFE_API_KEY"} \subseteq EnvSchema /\ EnvSchema \subseteq ProductionSchema
  BY <1>2 DEF EnvSchema, ConsoleSchema, ProductionSchema
<1>4. \A v \in EnvSchema : parsed[v] = LoadProductionConfig(env).config[v]
  <2>1. \A v \in EnvSchema : Parsed(env, EnvSchema)[v] = Parsed(env, ProductionSchema)[v]
    BY <1>3 DEF Parsed
  <2> QED
    BY <1>3, <2>1, ProductionPicks
<1> QED
  BY <1>1, <1>3, <1>4 DEF WiringThrows, WiresRouter

\* Jev is shown labels: no line of a transcript carries the number of its sender.
THEOREM JevSeesLabels ==
  ASSUME NEW config, NEW messages
  PROVE  \A i \in DOMAIN RouteMessages(config, messages) :
           RouteMessages(config, messages)[i].from \in {"husband", "wife", "member", "assistant"}
<1> DEFINE shown == SelectSeq(messages, Shown)
<1>1. ASSUME NEW sender PROVE LabelFor(config, sender) \in {"husband", "wife", "member"}
  BY DEF LabelFor
<1>2. ASSUME NEW shown0, NEW i \in DOMAIN shown0
      PROVE  [j \in DOMAIN shown0 |->
               [from |-> IF shown0[j].role = "user" THEN LabelFor(config, shown0[j].sender) ELSE "assistant",
                text |-> shown0[j].text]][i].from \in {"husband", "wife", "member", "assistant"}
  BY <1>1, <1>2
<1>3. DOMAIN RouteMessages(config, messages) = DOMAIN shown
  BY DEF RouteMessages
<1> QED
  BY <1>2, <1>3 DEF RouteMessages

\* The back office never falls back to what the process connects with: without an
\* address of its own and a token it does not start, and an environment that differs
\* in DATABASE_URL alone gives it the same configuration.
THEOREM ConsoleFailsClosed ==
  ASSUME NEW env, NEW other, LoadBackofficeConfig(env).issues = {},
         DOMAIN other \ {"DATABASE_URL"} = DOMAIN env \ {"DATABASE_URL"},
         \A v \in DOMAIN env \ {"DATABASE_URL"} : other[v] = env[v]
  PROVE  /\ {"BACKOFFICE_DATABASE_URL", "BACKOFFICE_TOKEN"} \subseteq DOMAIN env
         /\ env["BACKOFFICE_DATABASE_URL"] # {}
         /\ LoadBackofficeConfig(env).config["BACKOFFICE_DATABASE_URL"] = env["BACKOFFICE_DATABASE_URL"]
         /\ LoadBackofficeConfig(other) = LoadBackofficeConfig(env)
<1>1. ASSUME NEW schema, "DATABASE_URL" \notin schema
      PROVE  Pick(other, schema) = Pick(env, schema)
  <2>1. \A v \in schema : (v \in DOMAIN other <=> v \in DOMAIN env) /\ (v \in DOMAIN env => other[v] = env[v])
    BY <1>1
  <2>2. Issues(other, schema) = Issues(env, schema)
    BY <2>1 DEF Issues
  <2>3. Parsed(other, schema) = Parsed(env, schema)
    BY <2>1 DEF Parsed
  <2> QED
    BY <2>2, <2>3 DEF Pick
<1>2. LoadBackofficeConfig(other) = LoadBackofficeConfig(env)
  BY <1>1 DEF LoadBackofficeConfig, ConsoleSchema
<1>3. Issues(env, ConsoleSchema) = {}
  BY DEF LoadBackofficeConfig, Both, Pick
<1>4. {"BACKOFFICE_DATABASE_URL", "BACKOFFICE_TOKEN"} \cap DOMAIN Defaults = {}
  BY DEF Defaults
<1>5. {"BACKOFFICE_DATABASE_URL", "BACKOFFICE_TOKEN"} \subseteq DOMAIN env
  BY <1>3, <1>4 DEF Issues, ConsoleSchema
<1>6. Accepts("BACKOFFICE_DATABASE_URL", env["BACKOFFICE_DATABASE_URL"])
  BY <1>3, <1>5 DEF Issues, ConsoleSchema
<1>7. env["BACKOFFICE_DATABASE_URL"] # {}
  BY <1>6 DEF Accepts, Lists, Efforts, Formatted
<1>8. Meaning("BACKOFFICE_DATABASE_URL", env["BACKOFFICE_DATABASE_URL"]) = env["BACKOFFICE_DATABASE_URL"]
  BY DEF Meaning, Lists, Efforts
<1>9. LoadBackofficeConfig(env).config["BACKOFFICE_DATABASE_URL"] = Parsed(env, ConsoleSchema)["BACKOFFICE_DATABASE_URL"]
  BY DEF LoadBackofficeConfig, Both, Pick, Parsed, ConsoleSchema
<1>10. Parsed(env, ConsoleSchema)["BACKOFFICE_DATABASE_URL"] = env["BACKOFFICE_DATABASE_URL"]
  BY <1>5, <1>8 DEF Parsed, ConsoleSchema
<1> QED
  BY <1>2, <1>5, <1>7, <1>9, <1>10

LEMMA LabelsInFront ==
  ASSUME NEW Label, NEW front \in Seq(Label), front # <<>>, NEW base \in Seq(Label)
  PROVE  EndsUnder(front \o base, base)
<1> DEFINE name == front \o base
           cut  == SubSeq(name, Len(front) + 1, Len(name))
<1>1. name \in Seq(Label) /\ Len(name) = Len(front) + Len(base) /\ Len(front) > 0
  OBVIOUS
<1>2. \A i \in 1 .. Len(base) : name[Len(front) + i] = base[i]
  OBVIOUS
<1>3. cut \in Seq(Label) /\ Len(cut) = Len(base)
  BY <1>1
<1>4. \A i \in 1 .. Len(base) : cut[i] = base[i]
  BY <1>1, <1>2
<1>5. cut = base
  BY <1>3, <1>4, SeqEqual
<1> HIDE DEF cut, name
<1> QED
  <2>1. EndsUnder(name, base) <=> Len(name) > Len(base) /\ SubSeq(name, Len(name) - Len(base) + 1, Len(name)) = base
    BY DEF EndsUnder
  <2>2. Len(base) \in Nat /\ Len(front) \in Nat
    OBVIOUS
  <2>3. Len(name) - Len(base) + 1 = Len(front) + 1
    BY <1>1, <2>2
  <2>4. SubSeq(name, Len(name) - Len(base) + 1, Len(name)) = cut
    BY <2>3 DEF cut
  <2> QED
    BY <1>1, <1>5, <2>1, <2>2, <2>4 DEF name

\* A name is allowed where it is a host of the list or has whole labels in front of
\* one whose subdomains are allowed: notwhatsapp.net is not under whatsapp.net.
THEOREM AllowedByLabels ==
  ASSUME NEW Label, NEW list, \A d \in list : d.host \in Seq(Label), NEW name \in Seq(Label)
  PROVE  IsHostAllowed(name, list) <=>
           \E d \in list : \/ name = d.host
                           \/ d.subdomains /\ \E front \in Seq(Label) : front # <<>> /\ name = front \o d.host
<1>1. ASSUME NEW base \in Seq(Label)
      PROVE  EndsUnder(name, base) <=> \E front \in Seq(Label) : front # <<>> /\ name = front \o base
  <2>1. ASSUME EndsUnder(name, base)
        PROVE  \E front \in Seq(Label) : front # <<>> /\ name = front \o base
    <3> DEFINE cut == Len(name) - Len(base)
               front == SubSeq(name, 1, cut)
    <3>1. cut \in 1 .. Len(name) /\ SubSeq(name, cut + 1, Len(name)) = base
      BY <1>1, <2>1 DEF EndsUnder
    <3>2. front \in Seq(Label) /\ Len(front) = cut
      BY <3>1
    <3>3. \A i \in 1 .. Len(base) : base[i] = name[cut + i]
      BY <1>1, <3>1
    <3>4. Len(front \o base) = Len(name)
      BY <1>1, <3>1, <3>2
    <3>5. \A i \in 1 .. Len(name) : (front \o base)[i] = name[i]
      BY <1>1, <3>1, <3>2, <3>3
    <3>6. name = front \o base
      <4>1. front \o base \in Seq(Label)
        BY <1>1, <3>2
      <4> QED
        BY <3>4, <3>5, <4>1, SeqEqual
    <3> HIDE DEF front
    <3>7. front # <<>>
      BY ONLY <3>1, <3>2
    <3> QED
      BY <3>2, <3>6, <3>7
  <2>2. ASSUME NEW front \in Seq(Label), front # <<>>, name = front \o base
        PROVE  EndsUnder(name, base)
    BY <1>1, <2>2, LabelsInFront
  <2> QED
    BY <2>1, <2>2
<1> QED
  BY <1>1 DEF IsHostAllowed

\* The firewall opens to no name that the list does not allow.
THEOREM ResolvedIsAllowed == \A name \in ResolvedNames : IsHostAllowed(name, EgressAllowlist)
<1>1. \A name \in RenderArtifact(EgressAllowlist) : IsHostAllowed(name, EgressAllowlist)
  BY DEF RenderArtifact, IsHostAllowed
<1> DEFINE net == Under(<<"whatsapp", "net">>, "whatsapp")
           com == Under(<<"whatsapp", "com">>, "whatsapp")
           langfuse == Under(<<"cloud", "langfuse", "com">>, "tracing")
<1>2. net \in EgressAllowlist /\ com \in EgressAllowlist /\ langfuse \in EgressAllowlist
  BY DEF EgressAllowlist
<1>3. /\ EndsUnder(<<"g", "whatsapp", "net">>, net.host) /\ EndsUnder(<<"mmg", "whatsapp", "net">>, net.host)
      /\ EndsUnder(<<"web", "whatsapp", "com">>, com.host)
      /\ EndsUnder(<<"us", "cloud", "langfuse", "com">>, langfuse.host)
  <2> DEFINE Label == {"g", "mmg", "web", "us", "whatsapp", "net", "com", "cloud", "langfuse"}
  <2>1. /\ net.host = <<"whatsapp", "net">> /\ com.host = <<"whatsapp", "com">>
        /\ langfuse.host = <<"cloud", "langfuse", "com">>
    BY DEF Under
  <2>2. ASSUME NEW a \in Label, NEW b \in Label, NEW c \in Label, NEW d \in Label
        PROVE  EndsUnder(<<a, b, c>>, <<b, c>>) /\ EndsUnder(<<a, b, c, d>>, <<b, c, d>>)
    <3>1. <<a>> \in Seq(Label) /\ <<b, c>> \in Seq(Label) /\ <<b, c, d>> \in Seq(Label)
      OBVIOUS
    <3>2. <<a>> \o <<b, c>> = <<a, b, c>> /\ <<a>> \o <<b, c, d>> = <<a, b, c, d>>
      <4> HIDE DEF Label, net, com, langfuse
      <4>1. /\ Len(<<a>> \o <<b, c>>) = 3 /\ (<<a>> \o <<b, c>>)[1] = a
            /\ (<<a>> \o <<b, c>>)[2] = b /\ (<<a>> \o <<b, c>>)[3] = c
        BY <3>1, ConcatProperties
      <4>2. /\ Len(<<a>> \o <<b, c, d>>) = 4 /\ (<<a>> \o <<b, c, d>>)[1] = a
            /\ (<<a>> \o <<b, c, d>>)[2] = b /\ (<<a>> \o <<b, c, d>>)[3] = c
            /\ (<<a>> \o <<b, c, d>>)[4] = d
        BY <3>1, ConcatProperties
      <4>3. <<a>> \o <<b, c>> \in Seq(Label) /\ <<a>> \o <<b, c, d>> \in Seq(Label)
        BY <3>1
      <4>4. <<a, b, c>> \in Seq(Label) /\ <<a, b, c, d>> \in Seq(Label)
        OBVIOUS
      <4>5. \A i \in 1 .. 3 : (<<a>> \o <<b, c>>)[i] = <<a, b, c>>[i]
        BY <4>1
      <4>6. \A i \in 1 .. 4 : (<<a>> \o <<b, c, d>>)[i] = <<a, b, c, d>>[i]
        BY <4>2
      <4>7. Len(<<a, b, c>>) = 3 /\ Len(<<a, b, c, d>>) = 4
        OBVIOUS
      <4>8. <<a>> \o <<b, c>> = <<a, b, c>>
        BY ONLY <4>1, <4>3, <4>4, <4>5, <4>7, SeqEqual
      <4>9. <<a>> \o <<b, c, d>> = <<a, b, c, d>>
        BY ONLY <4>2, <4>3, <4>4, <4>6, <4>7, SeqEqual
      <4> QED
        BY ONLY <4>8, <4>9
    <3>3. <<a>> # <<>>
      OBVIOUS
    <3> QED
      BY <3>1, <3>2, <3>3, LabelsInFront
  <2>3. EndsUnder(<<"g", "whatsapp", "net">>, <<"whatsapp", "net">>)
    BY <2>2
  <2>4. EndsUnder(<<"mmg", "whatsapp", "net">>, <<"whatsapp", "net">>)
    BY <2>2
  <2>5. EndsUnder(<<"web", "whatsapp", "com">>, <<"whatsapp", "com">>)
    BY <2>2
  <2>6. EndsUnder(<<"us", "cloud", "langfuse", "com">>, <<"cloud", "langfuse", "com">>)
    BY <2>2
  <2> HIDE DEF net, com, langfuse
  <2> QED
    BY ONLY <2>1, <2>3, <2>4, <2>5, <2>6
<1>4. net.subdomains /\ com.subdomains /\ langfuse.subdomains
  BY DEF Under
<1> HIDE DEF net, com, langfuse
<1>5. \A name \in Extra : IsHostAllowed(name, EgressAllowlist)
  BY <1>2, <1>3, <1>4 DEF Extra, IsHostAllowed
<1> QED
  BY <1>1, <1>5 DEF ResolvedNames
=============================================================================
