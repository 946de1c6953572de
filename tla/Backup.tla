------------------------------- MODULE Backup -------------------------------
(***************************************************************************)
(* Point-in-time backups: base backups, and the WAL that the sidecar       *)
(* receives through a replication slot, encrypts and ships to S3           *)
(* (infra/backup).                                                         *)
(*                                                                         *)
(* WAL is counted in segments, a position is the last one that is          *)
(* complete.  The sidecar is two processes, the receiver and the shipper,  *)
(* in one container, which the host restarts when it stops.  The spool is  *)
(* a volume.                                                               *)
(***************************************************************************)
EXTENDS Naturals, Sequences

CONSTANTS
  MaxSegments,   \* bound on the WAL
  MaxBases,      \* bound on base backups
  MaxStops       \* bound on stops of the sidecar

ASSUME BackupConstants == MaxSegments \in Nat /\ MaxBases \in Nat /\ MaxStops \in Nat

\* A slot that is created reserves nothing until a receiver has come to it.
NoSlot     == MaxSegments + 1
Unreserved == MaxSegments + 2

VARIABLES
  wal,       \* the position of the primary
  slot,      \* what the receiver has flushed; the primary keeps what is behind it
  since,     \* history: the position at which the receiver first came to the slot
  spool,     \* segments received and not shipped
  s3,        \* shipped objects: whole or cut short
  shipper,   \* down, or what the shipper is about to do with which segment
  bases,     \* base backups: where each ends and what of it is in S3
  stops

backupVars == <<wal, slot, since, spool, s3, shipper, bases, stops>>

Segments == 1 .. MaxSegments
ShipperIdle == [at |-> "loop", seg |-> 0]
ShipperDown == [at |-> "down", seg |-> 0]

BackupInit ==
  /\ wal = 0 /\ slot = NoSlot /\ since = NoSlot /\ spool = {}
  /\ s3 = [n \in Segments |-> "none"]
  /\ shipper = ShipperDown /\ bases = <<>> /\ stops = 0

\* The primary completes a segment.
WriteWal ==
  /\ wal < MaxSegments
  /\ wal' = wal + 1
  /\ UNCHANGED <<slot, since, spool, s3, shipper, bases, stops>>

\* Mutant: the spool is the container's own.
StartSidecarMutant ==
  /\ shipper.at = "down"
  /\ slot' = IF slot = NoSlot THEN Unreserved ELSE slot
  /\ shipper' = ShipperIdle
  /\ spool' = {}
  /\ UNCHANGED <<wal, since, s3, bases, stops>>

\* receivewal_loop: ensure_slot, then the receiver is started and shipping begins.
StartSidecar ==
  /\ shipper.at = "down"
  /\ slot' = IF slot = NoSlot THEN Unreserved ELSE slot
  /\ shipper' = ShipperIdle
  /\ UNCHANGED <<wal, since, spool, s3, bases, stops>>

\* pg_receivewal comes to a slot that nobody has used: it begins where the primary
\* is, and from here on the slot reserves what it has not flushed.
Attach ==
  /\ shipper.at # "down" /\ slot = Unreserved
  /\ slot' = wal /\ since' = wal
  /\ UNCHANGED <<wal, spool, s3, shipper, bases, stops>>

\* pg_receivewal has a segment complete, flushes it and says so to the primary.
Receive ==
  /\ shipper.at # "down"
  /\ slot < wal
  /\ slot' = slot + 1
  /\ spool' = spool \cup {slot'}
  /\ UNCHANGED <<wal, since, s3, shipper, bases, stops>>

\* ship_completed takes the segments in order; one that S3 has is done with.
PickSegment ==
  /\ shipper.at = "loop"
  /\ \E n \in spool :
       /\ \A m \in spool : n <= m
       /\ shipper' = [at |-> IF s3[n] = "none" THEN "put" ELSE "remove", seg |-> n]
  /\ UNCHANGED <<wal, slot, since, spool, s3, bases, stops>>

\* encrypt | aws s3 cp: an object appears when all of it is there.
PutSegment ==
  /\ shipper.at = "put"
  /\ s3' = [s3 EXCEPT ![shipper.seg] = "whole"]
  /\ shipper' = [shipper EXCEPT !.at = "remove"]
  /\ UNCHANGED <<wal, slot, since, spool, bases, stops>>

\* age stops half-way, or at once: aws takes the end of its input for the end
\* of the object.  The pipe fails, and with it the script.
EncryptFails ==
  /\ shipper.at = "put" /\ stops < MaxStops
  /\ stops' = stops + 1
  /\ s3' = [s3 EXCEPT ![shipper.seg] = "cut"]
  /\ shipper' = ShipperDown
  /\ UNCHANGED <<wal, slot, since, spool, bases>>

RemoveSegment ==
  /\ shipper.at = "remove"
  /\ spool' = spool \ {shipper.seg}
  /\ shipper' = ShipperIdle
  /\ UNCHANGED <<wal, slot, since, s3, bases, stops>>

\* An upload fails (set -e), the receiver ends, a deploy recreates the sidecar.
StopSidecar ==
  /\ shipper.at # "down" /\ stops < MaxStops
  /\ stops' = stops + 1
  /\ shipper' = ShipperDown
  /\ UNCHANGED <<wal, slot, since, spool, s3, bases>>

\* backup.sh base, which the host's timer runs in a container of its own and
\* which looks at neither slot nor receiver: base.tar.gz, pg_wal.tar.gz, MANIFEST,
\* in this order.
Parts == {"base", "wal", "manifest"}

DumpBase ==
  /\ Len(bases) < MaxBases
  /\ bases' = Append(bases, [ends |-> wal, parts |-> {}])
  /\ UNCHANGED <<wal, slot, since, spool, s3, shipper, stops>>

NextPart(parts) == IF parts = {} THEN "base" ELSE IF parts = {"base"} THEN "wal" ELSE "manifest"

\* (A base backup may stop at any point, and leaves what it has put.)
PutBase ==
  /\ bases # <<>> /\ bases[Len(bases)].parts # Parts
  /\ bases' = [bases EXCEPT ![Len(bases)].parts = @ \cup {NextPart(@)}]
  /\ UNCHANGED <<wal, slot, since, spool, s3, shipper, stops>>

BackupNext ==
  \/ WriteWal
  \/ StartSidecar \/ Attach \/ Receive \/ PickSegment \/ PutSegment \/ EncryptFails \/ RemoveSegment
  \/ StopSidecar
  \/ DumpBase \/ PutBase

-----------------------------------------------------------------------------
(* What restore.sh makes of what is in S3.                                 *)

\* Whatever has a prefix under base/ counts, whole or not (latest_base_ts).
Found == {i \in DOMAIN bases : bases[i].parts # {}}
IsLatest(i) == i \in Found /\ \A j \in Found : j <= i

\* freshness.sh goes by the same listing: with nothing there the check fails at once.
NothingToRestore == Found = {}

\* Every object is fetched and decrypted before the database starts, and one
\* failure ends the script: a missing part of the newest base, or a segment cut
\* short anywhere.
RestoreDies ==
  \/ NothingToRestore
  \/ \E i \in Found : IsLatest(i) /\ ~({"base", "wal"} \subseteq bases[i].parts)
  \/ \E n \in Segments : s3[n] = "cut"

\* A base replays its own WAL, then restore_command serves segments one by one
\* until it is asked for one that is not there; recovery then promotes.
Replays(i, n) == \A k \in bases[i].ends + 1 .. n : s3[k] = "whole"

-----------------------------------------------------------------------------
(* Properties.                                                             *)

\* A base that ends where the receiver had come, or later.
Followed(i) == since <= bases[i].ends

\* No gap: behind every base that the receiver was there for each segment is in
\* S3, in the spool, or still on the primary, whenever the sidecar stops and
\* starts; so a restore reaches it now or once it is shipped.  An object cut short
\* by the encryption is the exception: what the next start takes for shipped
\* (s3_exists) is then no segment.  And no segment is shipped for nothing: a
\* restore of such a base that comes to its end has replayed every one of them.
\* (Of a base taken before, with the slot there or not, the segments up to the
\* receiver's first are lost, as restore.sh warns.)
NoWalGap ==
  /\ \A i \in DOMAIN bases : Followed(i) =>
       \A n \in bases[i].ends + 1 .. wal : s3[n] # "none" \/ n \in spool \/ n > slot
  /\ RestoreDies \/ \A i \in Found, n \in Segments :
                      IsLatest(i) /\ Followed(i) /\ s3[n] = "whole" => Replays(i, n)
=============================================================================
