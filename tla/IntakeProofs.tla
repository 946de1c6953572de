---------------------------- MODULE IntakeProofs ----------------------------
(***************************************************************************)
(* What the transport let go of is durable, the bot mistakes its own       *)
(* messages for a member's only where it never learnt or has forgotten the *)
(* id, and a reminder is not marked and forgotten: for any messages and    *)
(* reminders, any capacity, any number of sweeps, throws and crashes.      *)
(***************************************************************************)
EXTENDS Intake, TLAPS, SequenceTheorems

\* A workflow's recorded error, and a send that was given up on, had a throw
\* behind them; whoever waits for a workflow has started it.
FaultsCount ==
  /\ \A k \in Keys : wf[k] = "error" => fails > 0
  /\ \A m \in Incoming : handler[m] = "waiting" => wf[m] # "none"

\* What is remembered is the end of what was learnt, as far as there is room.
Remembered ==
  crashes = 0 =>
    /\ Len(sentIds) = IF Len(receipts) > Capacity THEN Capacity ELSE Len(receipts)
    /\ \A i \in DOMAIN sentIds : sentIds[i] = receipts[Len(receipts) - Len(sentIds) + i]

\* A message comes back once its send is settled; a receipt is behind every id
\* that was learnt.
Settled == \A o \in Own :
  /\ o \in wired => flight[o] # "none"
  /\ o \in written => flight[o] \notin {"none", "sending"}
  /\ flight[o] = "sent" => \E i \in DOMAIN receipts : receipts[i] = o

\* Why an own message may be on its way to the inbox, or there.
LostId(o) ==
  \/ flight[o] \in {"gaveUp", "cut"} \/ crashes > 0
  \/ \E i \in DOMAIN receipts : receipts[i] = o /\ Len(receipts) - i >= Capacity

OwnNeedsLostId == \A o \in Own : handler[o] # "idle" \/ wf[o] # "none" => LostId(o)

\* A reminder that was cancelled in time is in no sweep's hands.
KeptAside == \A r \in kept :
  row[r] = "cancelled" /\ wf[r] = "none" /\ \A s \in Sweeps : r \notin list[s]

SafeInv ==
  /\ FaultsCount /\ AckedIsDurable
  /\ Remembered /\ Settled /\ OwnNeedsLostId
  /\ FiredIsInInbox /\ KeptAside

IInv == TypeOK /\ SafeInv

-----------------------------------------------------------------------------
LEMMA InitHolds == Init => IInv
<1> USE IntakeConstants DEF Init, Keys, Incoming
<1>1. Init => TypeOK
  BY DEF TypeOK
<1>2. Init => FaultsCount /\ AckedIsDurable
  BY DEF FaultsCount, AckedIsDurable
<1>3. Init => Remembered /\ Settled /\ OwnNeedsLostId
  BY DEF Remembered, Settled, OwnNeedsLostId, LostId
<1>4. Init => FiredIsInInbox /\ KeptAside
  BY DEF FiredIsInInbox, KeptAside
<1> QED
  BY <1>1, <1>2, <1>3, <1>4 DEF IInv, SafeInv

\* A throw is counted, and no other step is.
LEMMA ThrowCounts ==
  ASSUME TypeOK, NEW f, MayThrow(f)
  PROVE  fails' > 0 /\ fails' \in Nat
  BY DEF TypeOK, MayThrow

\* startWorkflow finds or records the workflow, and has nothing done by it.
LEMMA StartedRecords ==
  ASSUME TypeOK, up, NEW k \in Keys, Started(k), UNCHANGED <<up, inbox>>
  PROVE  /\ wf' \in [Keys -> {"none", "pending", "success", "error"}]
         /\ wfLive' \subseteq {j \in Keys : up' /\ wf'[j] = "pending"}
         /\ inbox' = {j \in Keys : wf'[j] = "success"}
         /\ wf'[k] # "none" /\ \A j \in Keys : j # k => wf'[j] = wf[j]
         /\ \A j \in Keys : wf[j] # "none" => wf'[j] = wf[j]
         /\ wf'[k] = "error" => wf[k] = "error"
<1>1. CASE wf[k] = "none"
  <2>1. wf' = [wf EXCEPT ![k] = "pending"] /\ wfLive' = wfLive \cup {k}
    BY <1>1 DEF Started
  <2> QED
    BY <1>1, <2>1 DEF TypeOK
<1>2. CASE wf[k] # "none"
  BY <1>2 DEF Started, TypeOK
<1> QED
  BY <1>1, <1>2

-----------------------------------------------------------------------------
(* The type of the variables, action by action.                            *)

LEMMA MessageType ==
  ASSUME TypeOK, NEW m \in Incoming, Write(m) \/ Ingest(m) \/ StartThrows(m)
  PROVE  TypeOK'
<1> USE IntakeConstants DEF TypeOK, Keys, Incoming, enqueue, echoes, reminders, budget
<1>1. CASE Write(m)
  BY <1>1 DEF Write
<1>2. CASE Deliver(m)
  <2>1. up /\ held' \subseteq held /\ UNCHANGED <<up, written, enqueue, echoes, reminders, budget>>
    BY <1>2 DEF Deliver
  <2>2. handler' \in [Incoming -> {"idle", "starting", "waiting"}]
    BY <1>2 DEF Deliver
  <2> QED
    BY <2>1, <2>2
<1>3. CASE StartEnqueue(m)
  <2>1. up /\ m \in Keys
    BY <1>3 DEF StartEnqueue
  <2> QED
    BY <1>3, <2>1, StartedRecords DEF StartEnqueue
<1>4. CASE Enqueued(m)
  BY <1>4 DEF Enqueued
<1>5. CASE StartThrows(m)
  BY <1>5, ThrowCounts DEF StartThrows
<1> QED
  BY <1>1, <1>2, <1>3, <1>4, <1>5 DEF Ingest

LEMMA EnqueueType ==
  ASSUME TypeOK, NEW k \in Keys, RunEnqueue(k) \/ EnqueueErrors(k)
  PROVE  TypeOK'
<1> USE DEF TypeOK, intake, echoes, reminders, budget
<1>1. CASE RunEnqueue(k)
  BY <1>1 DEF RunEnqueue
<1>2. CASE EnqueueErrors(k)
  BY <1>2, ThrowCounts DEF EnqueueErrors
<1> QED
  BY <1>1, <1>2

\* RecentIds stays a sequence of ids.
LEMMA RememberIsSeq ==
  ASSUME NEW s \in Seq(Own), NEW o \in Own
  PROVE  Remember(s, o) \in Seq(Own)
<1>1. Append(s, o) \in Seq(Own) /\ Append(s, o) # <<>>
  BY AppendProperties
<1>2. Tail(Append(s, o)) \in Seq(Own)
  BY <1>1, HeadTailProperties
<1> QED
  BY <1>1, <1>2 DEF Remember

LEMMA EchoType ==
  ASSUME TypeOK, NEW o \in Own,
         BeginSend(o) \/ Leave(o) \/ Receipt(o) \/ SendTimesOut(o) \/ Echo(o)
  PROVE  TypeOK'
<1> USE DEF TypeOK, Keys, Incoming, intake, enqueue, echoes, reminders, budget
<1>1. CASE BeginSend(o)
  BY <1>1 DEF BeginSend
<1>2. CASE Leave(o)
  BY <1>2 DEF Leave
<1>3. CASE Receipt(o)
  <2>1. Append(receipts, o) \in Seq(Own) /\ Remember(sentIds, o) \in Seq(Own)
    BY RememberIsSeq
  <2> QED
    BY <1>3, <2>1 DEF Receipt
<1>4. CASE SendTimesOut(o)
  BY <1>4, ThrowCounts DEF SendTimesOut
<1>5. CASE Echo(o)
  BY <1>5 DEF Echo
<1> QED
  BY <1>1, <1>2, <1>3, <1>4, <1>5

LEMMA ReminderType ==
  ASSUME TypeOK, NEW r \in Rem, Create(r) \/ FallDue(r) \/ Cancel(r)
  PROVE  TypeOK'
  BY DEF TypeOK, Create, FallDue, Cancel, intake, enqueue, echoes, budget

LEMMA SweepType ==
  ASSUME TypeOK, NEW s \in Sweeps, Tick(s) \/ Sweep(s)
  PROVE  TypeOK'
<1> USE IntakeConstants DEF TypeOK, Keys, intake, enqueue, echoes, reminders, budget
<1>1. CASE Tick(s)
  BY <1>1 DEF Tick
<1>2. CASE SweepRead(s)
  BY <1>2 DEF SweepRead
<1>3. CASE SweepStart(s)
  <2>1. PICK r \in Rem : Started(r)
    BY <1>3 DEF SweepStart, First
  <2>2. up /\ r \in Keys
    BY <1>3 DEF SweepStart
  <2> QED
    BY <1>3, <2>1, <2>2, StartedRecords DEF SweepStart
<1>4. CASE SweepMark(s)
  BY <1>4 DEF SweepMark, First
<1>5. CASE SweepThrows(s)
  BY <1>5 DEF SweepThrows
<1>6. CASE SweepDone(s)
  BY <1>6 DEF SweepDone
<1> QED
  BY <1>1, <1>2, <1>3, <1>4, <1>5, <1>6 DEF Sweep

LEMMA ProcessType ==
  ASSUME TypeOK, Crash \/ Relaunch \/ Reconnect \/ UNCHANGED vars
  PROVE  TypeOK'
<1> USE DEF TypeOK, intake, enqueue, echoes, reminders, budget
<1>1. CASE Crash
  <2>1. flight' \in [Own -> {"none", "sending", "sent", "gaveUp", "cut"}]
        /\ sentIds' \in Seq(Own)
    BY <1>1 DEF Crash
  <2>2. crashes' \in Nat
    BY <1>1 DEF Crash
  <2> QED
    BY <1>1, <2>1, <2>2 DEF Crash
<1>2. CASE Relaunch
  BY <1>2 DEF Relaunch
<1>3. CASE Reconnect \/ UNCHANGED vars
  BY <1>3 DEF Reconnect, vars
<1> QED
  BY <1>1, <1>2, <1>3

LEMMA NextType == TypeOK /\ [Next]_vars => TypeOK'
  BY MessageType, EnqueueType, EchoType, ReminderType, SweepType, ProcessType DEF Next

\* Every variable keeps its type: workflows, journals, sweeps and reminders.
THEOREM TypeCorrect == Spec => []TypeOK
<1>1. Init => TypeOK
  BY InitHolds DEF IInv
<1> QED
  BY <1>1, NextType, PTL DEF Spec

-----------------------------------------------------------------------------
(* The hand-over of messages.                                              *)

AckInv == FaultsCount /\ AckedIsDurable

\* Of the workflows and the handlers, all that the hand-over depends on.
LEMMA AckStutter ==
  ASSUME AckInv, UNCHANGED <<written, held, handler, wf, inbox, deferred, fails, crashes>>
  PROVE  AckInv'
  BY DEF AckInv, FaultsCount, AckedIsDurable

LEMMA AckMessage ==
  ASSUME TypeOK, AckInv, NEW m \in Incoming, Write(m) \/ Ingest(m) \/ StartThrows(m)
  PROVE  AckInv'
<1> USE IntakeConstants DEF TypeOK, AckInv, FaultsCount, AckedIsDurable, Keys, Incoming,
                            enqueue, echoes, budget
<1>1. CASE Write(m)
  BY <1>1 DEF Write
<1>2. CASE Deliver(m)
  <2>1. CASE m \in Stranger \/ IsEcho(m)
    <3>1. m \notin Household
      BY <2>1 DEF IsEcho, ToSet
    <3> QED
      BY <1>2, <2>1, <3>1 DEF Deliver
  <2>2. CASE ~(m \in Stranger \/ IsEcho(m))
    BY <1>2, <2>2 DEF Deliver
  <2> QED
    BY <2>1, <2>2
<1>3. CASE StartEnqueue(m)
  BY <1>3 DEF StartEnqueue, Started
<1>4. CASE Enqueued(m)
  <2>1. /\ handler[m] = "waiting" /\ wf[m] \in {"success", "error"}
        /\ handler' = [handler EXCEPT ![m] = "idle"]
        /\ held' = IF wf[m] = "success" THEN held \ {m} ELSE held
        /\ UNCHANGED <<written, wf, inbox, deferred, fails, crashes>>
    BY <1>4 DEF Enqueued
  <2>2. wf[m] = "success" => m \in inbox
    OBVIOUS
  <2> QED
    BY <2>1, <2>2
<1>5. CASE StartThrows(m)
  BY <1>5, ThrowCounts DEF StartThrows
<1> QED
  BY <1>1, <1>2, <1>3, <1>4, <1>5 DEF Ingest

LEMMA AckEnqueue ==
  ASSUME TypeOK, AckInv, NEW k \in Keys, RunEnqueue(k) \/ EnqueueErrors(k)
  PROVE  AckInv'
<1> USE DEF TypeOK, AckInv, FaultsCount, AckedIsDurable, Keys, Incoming, intake, echoes, budget
<1>1. CASE RunEnqueue(k)
  BY <1>1 DEF RunEnqueue
<1>2. CASE EnqueueErrors(k)
  BY <1>2, ThrowCounts DEF EnqueueErrors
<1> QED
  BY <1>1, <1>2

LEMMA NextAck == TypeOK /\ AckInv /\ [Next]_vars => AckInv'
<1> SUFFICES ASSUME TypeOK, AckInv, [Next]_vars PROVE AckInv'
  OBVIOUS
<1> USE DEF intake, enqueue, echoes, reminders, budget
<1>1. CASE \E o \in Own : SendTimesOut(o)
  BY <1>1, ThrowCounts DEF SendTimesOut, TypeOK, AckInv, FaultsCount, AckedIsDurable
<1>2. CASE \E o \in Own : Echo(o)
  BY <1>2, IntakeConstants DEF Echo, TypeOK, AckInv, FaultsCount, AckedIsDurable
<1>3. CASE \E s \in Sweeps : SweepStart(s)
  <2>1. PICK s \in Sweeps : SweepStart(s)
    BY <1>3
  <2>2. PICK r \in Rem : Started(r)
    BY <2>1 DEF SweepStart, First, TypeOK
  <2>3. up /\ r \in Keys \ Incoming
    BY <2>1, IntakeConstants DEF SweepStart, TypeOK, Keys
  <2>4. UNCHANGED <<up, written, held, handler, inbox, deferred, fails, crashes>>
    BY <2>1 DEF SweepStart
  <2>5. Incoming \subseteq Keys /\ Household \subseteq Incoming
    BY DEF Keys, Incoming
  <2> HIDE DEF intake, enqueue, echoes, reminders, budget
  <2> QED
    BY <2>2, <2>3, <2>4, <2>5, StartedRecords DEF AckInv, FaultsCount, AckedIsDurable
<1>4. CASE Crash
  BY <1>4 DEF Crash, TypeOK, AckInv, FaultsCount, AckedIsDurable
<1>5. CASE \/ \E o \in Own : BeginSend(o) \/ Leave(o) \/ Receipt(o)
           \/ \E r \in Rem : Create(r) \/ FallDue(r) \/ Cancel(r)
           \/ \E s \in Sweeps : Tick(s) \/ SweepRead(s) \/ SweepMark(s) \/ SweepThrows(s)
                                  \/ SweepDone(s)
           \/ Relaunch \/ Reconnect \/ UNCHANGED vars
  BY <1>5, AckStutter DEF BeginSend, Leave, Receipt, Create, FallDue, Cancel, Tick, SweepRead,
     SweepMark, SweepThrows, SweepDone, Relaunch, Reconnect, vars
<1> QED
  BY <1>1, <1>2, <1>3, <1>4, <1>5, AckMessage, AckEnqueue DEF Next, Sweep

\* Whatever the transport let go of is in the inbox, on its way there, or was
\* hit by a fault in the window that a transport acknowledging first leaves open.
THEOREM AckedIsDurableHolds == Spec => []AckedIsDurable
<1>1. Init => TypeOK /\ AckInv
  BY InitHolds DEF IInv, SafeInv, AckInv
<1>2. TypeOK /\ AckInv /\ [Next]_vars => TypeOK' /\ AckInv'
  BY NextType, NextAck
<1>3. AckInv => AckedIsDurable
  BY DEF AckInv
<1> QED
  BY <1>1, <1>2, <1>3, PTL DEF Spec

-----------------------------------------------------------------------------
(* The bot's own messages.                                                 *)

OwnInv == Remembered /\ Settled /\ OwnNeedsLostId

ownVars == <<written, handler, wf, flight, wired, sentIds, receipts, crashes>>

LEMMA OwnStutter ==
  ASSUME OwnInv, UNCHANGED ownVars
  PROVE  OwnInv'
  BY DEF OwnInv, ownVars, Remembered, Settled, OwnNeedsLostId, LostId

\* Reasons stay reasons: sends end for good, and receipts only grow.
LEMMA LostStays ==
  ASSUME TypeOK, NEW o \in Own, LostId(o), UNCHANGED <<receipts, crashes>>,
         flight'[o] = flight[o]
  PROVE  LostId(o)'
  BY DEF LostId

\* Remembered, where nothing has crashed.
LEMMA RememberedIsEnd ==
  ASSUME TypeOK, Remembered, crashes = 0
  PROVE  /\ Len(sentIds) \in Nat /\ Len(receipts) \in Nat /\ Capacity \in Nat \ {0}
         /\ DOMAIN sentIds = 1 .. Len(sentIds) /\ DOMAIN receipts = 1 .. Len(receipts)
         /\ Len(sentIds) = IF Len(receipts) > Capacity THEN Capacity ELSE Len(receipts)
         /\ \A i \in 1 .. Len(sentIds) : sentIds[i] = receipts[Len(receipts) - Len(sentIds) + i]
<1>1. /\ Len(sentIds) = IF Len(receipts) > Capacity THEN Capacity ELSE Len(receipts)
      /\ \A i \in DOMAIN sentIds : sentIds[i] = receipts[Len(receipts) - Len(sentIds) + i]
  BY Zenon DEF Remembered
<1>2. /\ Len(sentIds) \in Nat /\ Len(receipts) \in Nat
      /\ DOMAIN sentIds = 1 .. Len(sentIds) /\ DOMAIN receipts = 1 .. Len(receipts)
  BY DEF TypeOK
<1> QED
  BY <1>1, <1>2, IntakeConstants

\* An id the adapter has learnt and does not know any more was crowded out.
LEMMA ForgottenIsOld ==
  ASSUME TypeOK, OwnInv, crashes = 0, NEW o \in Own, flight[o] = "sent", ~IsEcho(o)
  PROVE  LostId(o)
<1> DEFINE m == Len(sentIds)
           n == Len(receipts)
<1>1. PICK i \in DOMAIN receipts : receipts[i] = o
  BY DEF OwnInv, Settled
<1>2. /\ m \in Nat /\ n \in Nat /\ Capacity \in Nat \ {0}
      /\ DOMAIN sentIds = 1 .. m /\ i \in 1 .. n
      /\ m = IF n > Capacity THEN Capacity ELSE n
      /\ \A j \in 1 .. m : sentIds[j] = receipts[n - m + j]
  BY RememberedIsEnd DEF OwnInv
<1>3. \A j \in 1 .. m : sentIds[j] # o
  BY <1>2 DEF IsEcho, ToSet
<1> SUFFICES n - i >= Capacity
  BY <1>1 DEF LostId
<1> HIDE DEF m, n
<1>4. i <= n - m
  <2> SUFFICES ASSUME i > n - m PROVE FALSE
    BY <1>2
  <2> DEFINE j == i - (n - m)
  <2>1. j \in 1 .. m /\ n - m + j = i
    BY <1>2
  <2> HIDE DEF j
  <2> QED
    BY <1>1, <1>2, <1>3, <2>1
<1> QED
  BY <1>2, <1>4

\* So what is handed over and not dropped as an echo had a reason to be.
LEMMA OwnDeliver ==
  ASSUME TypeOK, OwnInv, NEW m \in Incoming, Deliver(m)
  PROVE  OwnInv'
<1> USE DEF TypeOK, OwnInv, enqueue, echoes, reminders, budget
<1>1. UNCHANGED <<written, wf, flight, wired, sentIds, receipts, crashes>> /\ m \in written
  BY DEF Deliver
<1>2. Remembered' /\ Settled'
  BY <1>1 DEF Remembered, Settled
<1>3. \A o \in Own : LostId(o)' <=> LostId(o)
  BY <1>1 DEF LostId
<1>4. CASE handler' = handler
  BY <1>1, <1>2, <1>3, <1>4 DEF OwnNeedsLostId
<1>5. CASE ~IsEcho(m) /\ handler' = [handler EXCEPT ![m] = "starting"]
  <2>1. m \in Own => LostId(m)
    <3>1. SUFFICES ASSUME m \in Own, crashes = 0 PROVE LostId(m)
      BY DEF LostId
    <3>2. flight[m] \in {"sent", "gaveUp", "cut"}
      BY <1>1, <3>1 DEF Settled
    <3> QED
      BY <1>5, <3>1, <3>2, ForgottenIsOld DEF LostId
  <2> QED
    BY <1>1, <1>2, <1>3, <1>5, <2>1 DEF OwnNeedsLostId
<1> QED
  BY <1>4, <1>5 DEF Deliver

\* The id that is learnt last is remembered last, and one more is forgotten.
LEMMA ReceiptRemembers ==
  ASSUME TypeOK, Remembered, NEW o \in Own, Receipt(o)
  PROVE  Remembered'
<1>1. SUFFICES ASSUME crashes = 0
      PROVE /\ Len(sentIds') = IF Len(receipts') > Capacity THEN Capacity ELSE Len(receipts')
            /\ \A i \in DOMAIN sentIds' :
                 sentIds'[i] = receipts'[Len(receipts') - Len(sentIds') + i]
  BY Zenon DEF Receipt, budget, Remembered
<1> DEFINE s == sentIds
           r == receipts
           t == Append(s, o)
           u == Append(r, o)
           m == Len(s)
           n == Len(r)
<1>2. s \in Seq(Own) /\ r \in Seq(Own)
  BY DEF TypeOK
<1>3. /\ m \in Nat /\ n \in Nat /\ Capacity \in Nat \ {0}
      /\ m = IF n > Capacity THEN Capacity ELSE n
      /\ \A i \in 1 .. m : s[i] = r[n - m + i]
  BY <1>1, RememberedIsEnd
<1>4. receipts' = u /\ sentIds' = IF Len(t) > Capacity THEN Tail(t) ELSE t
  BY DEF Receipt, Remember
<1>5. /\ Len(t) = m + 1 /\ t \in Seq(Own) /\ t # <<>> /\ t[m + 1] = o
      /\ \A i \in 1 .. m : t[i] = s[i]
      /\ Len(u) = n + 1 /\ u[n + 1] = o /\ \A i \in 1 .. n : u[i] = r[i]
  BY <1>2, AppendProperties
<1>6. \A i \in 1 .. m + 1 : t[i] = u[n - m + i]
  <2> HIDE DEF s, r, t, u, m, n
  <2> TAKE i \in 1 .. m + 1
  <2>1. CASE i = m + 1
    <3>1. n - m + i = n + 1
      BY <1>3, <2>1
    <3> QED
      BY <1>5, <2>1, <3>1
  <2>2. CASE i \in 1 .. m
    <3>1. n - m + i \in 1 .. n
      BY <1>3, <2>2
    <3> QED
      BY <1>3, <1>5, <2>2, <3>1
  <2> QED
    BY <1>3, <2>1, <2>2
<1>7. /\ Len(Tail(t)) = m /\ DOMAIN Tail(t) = 1 .. m
      /\ \A i \in 1 .. m : Tail(t)[i] = t[i + 1]
      /\ DOMAIN t = 1 .. m + 1
  <2> HIDE DEF s, r, t, u, m, n
  <2>1. Len(t) - 1 = m
    BY <1>3, <1>5
  <2> QED
    BY <1>3, <1>5, <2>1
<1> HIDE DEF s, r, t, u, m, n
<1>8. CASE m + 1 > Capacity
  <2>1. sentIds' = Tail(t) /\ m = Capacity /\ n + 1 > Capacity
    BY <1>3, <1>4, <1>5, <1>8
  <2>2. \A i \in 1 .. m : Tail(t)[i] = u[(n + 1) - m + i]
    <3> TAKE i \in 1 .. m
    <3>1. i + 1 \in 1 .. m + 1 /\ (n + 1) - m + i = n - m + (i + 1)
      BY <1>3
    <3> QED
      BY <1>6, <1>7, <3>1
  <2> QED
    <3>1. Len(u) > Capacity /\ Len(sentIds') = m /\ m = Capacity /\ DOMAIN sentIds' = 1 .. m
      BY <1>3, <1>5, <1>7, <2>1
    <3>2. \A i \in 1 .. m : sentIds'[i] = u[Len(u) - m + i]
      BY <1>5, <2>1, <2>2
    <3> QED
      BY <1>4, <3>1, <3>2
<1>9. CASE ~(m + 1 > Capacity)
  <2>1. sentIds' = t /\ m = n /\ ~(n + 1 > Capacity)
    BY <1>3, <1>4, <1>5, <1>9
  <2>2. \A i \in 1 .. m + 1 : t[i] = u[(n + 1) - (m + 1) + i]
    <3> TAKE i \in 1 .. m + 1
    <3>1. (n + 1) - (m + 1) + i = n - m + i
      BY <1>3
    <3> QED
      BY <1>6, <3>1
  <2> QED
    <3>1. /\ ~(Len(u) > Capacity) /\ Len(sentIds') = m + 1 /\ Len(u) = m + 1
          /\ DOMAIN sentIds' = 1 .. m + 1
      BY <1>3, <1>5, <2>1
    <3>2. \A i \in 1 .. m + 1 : sentIds'[i] = u[Len(u) - (m + 1) + i]
      BY <1>5, <2>1, <2>2
    <3> QED
      BY <1>4, <3>1, <3>2
<1> QED
  BY <1>3, <1>8, <1>9

LEMMA OwnReceipt ==
  ASSUME TypeOK, OwnInv, NEW o \in Own, Receipt(o)
  PROVE  OwnInv'
<1> USE DEF OwnInv
<1>1. Remembered'
  BY ReceiptRemembers
<1>2. /\ flight[o] = "sending" /\ o \in wired
      /\ flight' = [flight EXCEPT ![o] = "sent"]
      /\ UNCHANGED <<written, handler, wf, wired, crashes>>
  BY DEF Receipt, intake, enqueue, budget
<1>3. /\ Len(receipts') = Len(receipts) + 1 /\ Len(receipts) \in Nat
      /\ DOMAIN receipts = 1 .. Len(receipts) /\ DOMAIN receipts' = 1 .. Len(receipts')
      /\ \A i \in 1 .. Len(receipts) : receipts'[i] = receipts[i]
      /\ receipts'[Len(receipts')] = o
  BY AppendProperties DEF TypeOK, Receipt
<1>4. Settled'
  BY <1>2, <1>3 DEF TypeOK, Settled
<1>5. \A p \in Own : LostId(p) => LostId(p)'
  <2> TAKE p \in Own
  <2>1. CASE flight[p] \in {"gaveUp", "cut"} \/ crashes > 0
    BY <1>2, <2>1 DEF LostId, TypeOK
  <2>2. CASE \E i \in DOMAIN receipts : receipts[i] = p /\ Len(receipts) - i >= Capacity
    BY <1>3, <2>2, IntakeConstants DEF LostId
  <2> QED
    BY <2>1, <2>2 DEF LostId
<1>6. OwnNeedsLostId'
  BY <1>2, <1>5 DEF OwnNeedsLostId
<1> QED
  BY <1>1, <1>4, <1>6

LEMMA OwnEcho ==
  ASSUME TypeOK, OwnInv, NEW o \in Own,
         BeginSend(o) \/ Leave(o) \/ SendTimesOut(o) \/ Echo(o)
  PROVE  OwnInv'
<1> USE DEF OwnInv, intake, enqueue, echoes, budget
<1>1. UNCHANGED <<handler, wf, sentIds, receipts, crashes>>
  BY DEF BeginSend, Leave, SendTimesOut, Echo
<1>2. Remembered'
  BY <1>1 DEF Remembered
<1>3. \A p \in Own : flight[p] \in {"gaveUp", "cut"} => flight'[p] = flight[p]
  BY DEF TypeOK, BeginSend, Leave, SendTimesOut, Echo
<1>4. OwnNeedsLostId'
  BY <1>1, <1>3 DEF OwnNeedsLostId, LostId
<1>5. Settled'
  <2>1. CASE BeginSend(o)
    BY <1>1, <2>1 DEF BeginSend, Settled, TypeOK
  <2>2. CASE Leave(o)
    BY <1>1, <2>2 DEF Leave, Settled, TypeOK
  <2>3. CASE SendTimesOut(o)
    BY <1>1, <2>3 DEF SendTimesOut, Settled, TypeOK
  <2>4. CASE Echo(o)
    BY <1>1, <2>4 DEF Echo, Settled, TypeOK
  <2> QED
    BY <2>1, <2>2, <2>3, <2>4
<1> QED
  BY <1>2, <1>4, <1>5

\* Handing an own message on records nothing that had no reason.
LEMMA OwnMessage ==
  ASSUME TypeOK, OwnInv, NEW m \in Incoming, Write(m) \/ Ingest(m) \/ StartThrows(m)
  PROVE  OwnInv'
<1> USE DEF OwnInv, enqueue, echoes, budget
<1>1. CASE Deliver(m)
  BY <1>1, OwnDeliver
<1>2. CASE StartEnqueue(m) \/ Enqueued(m) \/ StartThrows(m) \/ Write(m)
  <2>1. UNCHANGED <<flight, wired, sentIds, receipts, crashes>>
    BY <1>2 DEF StartEnqueue, Enqueued, StartThrows, Write
  <2>2. \A o \in Own : o \in written' => o \in written
    BY <1>2, IntakeConstants DEF StartEnqueue, Enqueued, StartThrows, Write
  <2>3. Remembered' /\ Settled' /\ \A o \in Own : LostId(o)' <=> LostId(o)
    BY <2>1, <2>2 DEF Remembered, Settled, LostId
  <2>4. \A o \in Own : handler'[o] # "idle" \/ wf'[o] # "none" => handler[o] # "idle" \/ wf[o] # "none"
    <3>1. CASE StartEnqueue(m)
      <4>1. up /\ m \in Keys /\ Own \subseteq Keys
        BY <3>1 DEF StartEnqueue, TypeOK, Keys, Incoming
      <4> QED
        BY <3>1, <4>1, StartedRecords DEF StartEnqueue, TypeOK
    <3>2. CASE Enqueued(m) \/ StartThrows(m) \/ Write(m)
      BY <3>2 DEF Enqueued, StartThrows, Write, TypeOK, Incoming
    <3> QED
      BY <1>2, <3>1, <3>2
  <2> QED
    BY <2>3, <2>4 DEF OwnNeedsLostId
<1> QED
  BY <1>1, <1>2 DEF Ingest

\* Workflows run for what was handed over; a sweep starts those of reminders.
LEMMA OwnOther ==
  ASSUME TypeOK, OwnInv,
         UNCHANGED <<written, handler, flight, wired, sentIds, receipts, crashes>>,
         \A o \in Own : wf'[o] # "none" => wf[o] # "none"
  PROVE  OwnInv'
  BY DEF OwnInv, Remembered, Settled, OwnNeedsLostId, LostId

LEMMA OwnCrash ==
  ASSUME TypeOK, OwnInv, Crash
  PROVE  OwnInv'
<1> USE DEF OwnInv
<1>1. crashes' > 0 /\ UNCHANGED <<written, wired, receipts, wf>>
  BY DEF Crash, TypeOK
<1>2. \A o \in Own : flight'[o] = IF flight[o] = "sending" THEN "cut" ELSE flight[o]
  BY DEF Crash
<1>3. Settled'
  BY <1>1, <1>2 DEF Settled
<1> QED
  BY <1>1, <1>3 DEF Remembered, OwnNeedsLostId, LostId

LEMMA NextOwn == TypeOK /\ OwnInv /\ [Next]_vars => OwnInv'
<1> SUFFICES ASSUME TypeOK, OwnInv, [Next]_vars PROVE OwnInv'
  OBVIOUS
<1> USE DEF intake, enqueue, echoes, reminders, budget
<1>1. CASE \E k \in Keys : RunEnqueue(k) \/ EnqueueErrors(k)
  BY <1>1, OwnOther DEF RunEnqueue, EnqueueErrors, TypeOK, Keys, Incoming
<1>2. CASE \E s \in Sweeps : SweepStart(s)
  <2>1. PICK s \in Sweeps : SweepStart(s)
    BY <1>2
  <2>2. PICK r \in Rem : Started(r)
    BY <2>1 DEF SweepStart, First, TypeOK
  <2>3. up /\ r \in Keys /\ Own \subseteq Keys /\ r \notin Own
    BY <2>1, IntakeConstants DEF SweepStart, TypeOK, Keys, Incoming
  <2>4. UNCHANGED <<up, written, handler, inbox, flight, wired, sentIds, receipts, crashes>>
    BY <2>1 DEF SweepStart
  <2>5. \A o \in Own : wf'[o] # "none" => wf[o] # "none"
    BY <2>2, <2>3, <2>4, StartedRecords
  <2> QED
    BY <2>4, <2>5, OwnOther
<1>3. CASE \/ \E r \in Rem : Create(r) \/ FallDue(r) \/ Cancel(r)
           \/ \E s \in Sweeps : Tick(s) \/ SweepRead(s) \/ SweepMark(s) \/ SweepThrows(s)
                                  \/ SweepDone(s)
           \/ Relaunch \/ Reconnect \/ UNCHANGED vars
  BY <1>3, OwnStutter DEF ownVars, Create, FallDue, Cancel, Tick, SweepRead, SweepMark,
     SweepThrows, SweepDone, Relaunch, Reconnect, vars
<1> QED
  BY <1>1, <1>2, <1>3, OwnMessage, OwnReceipt, OwnEcho, OwnCrash DEF Next, Sweep

\* The bot answers itself only where a send timed out, a crash cut it off or
\* forgot the ids, or a capacity of newer ids crowded its id out.
THEOREM SelfTalkNeedsLostIdHolds == Spec => []SelfTalkNeedsLostId
<1>1. Init => TypeOK /\ OwnInv
  BY InitHolds DEF IInv, SafeInv, OwnInv
<1>2. TypeOK /\ OwnInv /\ [Next]_vars => TypeOK' /\ OwnInv'
  BY NextType, NextOwn
<1>3. OwnInv => SelfTalkNeedsLostId
  BY DEF OwnInv, OwnNeedsLostId, LostId, SelfTalkNeedsLostId
<1> QED
  BY <1>1, <1>2, <1>3, PTL DEF Spec

-----------------------------------------------------------------------------
(* Reminders.                                                              *)

FiringInv == FiredIsInInbox /\ KeptAside

LEMMA FiringMessage ==
  ASSUME TypeOK, FiringInv, NEW m \in Incoming, Write(m) \/ Ingest(m) \/ StartThrows(m)
  PROVE  FiringInv'
<1> USE DEF FiringInv, enqueue, reminders
<1>1. UNCHANGED <<row, list, kept, inbox>>
  BY DEF Write, Ingest, Deliver, StartEnqueue, Enqueued, StartThrows
<1>2. \A r \in Rem : wf'[r] = wf[r]
  <2>1. CASE StartEnqueue(m)
    <3>1. up /\ m \in Keys /\ Rem \subseteq Keys /\ m \notin Rem
      BY <2>1, IntakeConstants DEF StartEnqueue, TypeOK, Keys
    <3> QED
      BY <2>1, <3>1, StartedRecords DEF StartEnqueue
  <2>2. CASE ~StartEnqueue(m)
    BY <2>2 DEF Write, Ingest, Deliver, Enqueued, StartThrows
  <2> QED
    BY <2>1, <2>2
<1> QED
  BY <1>1, <1>2 DEF FiredIsInInbox, KeptAside, TypeOK

LEMMA FiringEnqueue ==
  ASSUME TypeOK, FiringInv, NEW k \in Keys, RunEnqueue(k) \/ EnqueueErrors(k)
  PROVE  FiringInv'
<1>1. UNCHANGED <<row, list, kept>> /\ inbox \subseteq inbox'
  BY DEF RunEnqueue, EnqueueErrors, reminders
<1>2. \A r \in Keys : wf[r] = "none" => wf'[r] = "none"
  BY DEF TypeOK, RunEnqueue, EnqueueErrors
<1> QED
  BY <1>1, <1>2 DEF FiringInv, FiredIsInInbox, KeptAside, TypeOK, Keys

LEMMA FiringReminder ==
  ASSUME TypeOK, FiringInv, NEW r \in Rem, Create(r) \/ FallDue(r) \/ Cancel(r)
  PROVE  FiringInv'
<1> USE DEF TypeOK, FiringInv, FiredIsInInbox, KeptAside, enqueue
<1>1. CASE Create(r) \/ FallDue(r)
  BY <1>1 DEF Create, FallDue
<1>2. CASE Cancel(r)
  BY <1>2 DEF Cancel
<1> QED
  BY <1>1, <1>2

LEMMA FiringSweep ==
  ASSUME TypeOK, FiringInv, NEW s \in Sweeps, Tick(s) \/ Sweep(s)
  PROVE  FiringInv'
<1> USE DEF TypeOK, FiringInv, FiredIsInInbox, KeptAside, enqueue
<1>1. CASE Tick(s) \/ SweepDone(s)
  BY <1>1 DEF Tick, SweepDone
<1>2. CASE SweepRead(s)
  BY <1>2 DEF SweepRead, Due
<1>3. CASE SweepStart(s)
  <2>1. PICK r \in Rem : r \in list[s] /\ Started(r)
    BY <1>3 DEF SweepStart, First
  <2>2. up /\ r \in Keys /\ Rem \subseteq Keys /\ r \notin kept
    BY <1>3, <2>1 DEF SweepStart, Keys
  <2>3. UNCHANGED <<up, inbox, row, list, kept>>
    BY <1>3 DEF SweepStart
  <2>4. \A q \in Rem : q # r => wf'[q] = wf[q]
    BY <2>1, <2>2, <2>3, StartedRecords
  <2> QED
    BY <2>2, <2>3, <2>4
<1>4. CASE SweepMark(s)
  <2>1. PICK r \in list[s] :
          /\ wf[r] = "success"
          /\ row' = [row EXCEPT ![r] = IF row[r] = "scheduled" THEN "fired" ELSE row[r]]
          /\ list' = [list EXCEPT ![s] = list[s] \ {r}]
    BY <1>4 DEF SweepMark, First
  <2>2. r \in Rem /\ r \in inbox /\ UNCHANGED <<wf, inbox, kept>>
    BY <1>4, <2>1 DEF SweepMark, Keys
  <2> QED
    BY <2>1, <2>2
<1>5. CASE SweepThrows(s)
  BY <1>5 DEF SweepThrows
<1> QED
  BY <1>1, <1>2, <1>3, <1>4, <1>5 DEF Sweep

LEMMA NextFiring == TypeOK /\ FiringInv /\ [Next]_vars => FiringInv'
<1> SUFFICES ASSUME TypeOK, FiringInv, [Next]_vars PROVE FiringInv'
  OBVIOUS
<1>1. CASE \/ \E o \in Own : BeginSend(o) \/ Leave(o) \/ Receipt(o) \/ SendTimesOut(o) \/ Echo(o)
           \/ Crash \/ Relaunch \/ Reconnect \/ UNCHANGED vars
  <2>1. UNCHANGED <<row, list, kept, wf, inbox>>
    BY <1>1 DEF BeginSend, Leave, Receipt, SendTimesOut, Echo, Crash, Relaunch, Reconnect, vars,
       enqueue, reminders
  <2> QED
    BY <2>1 DEF FiringInv, FiredIsInInbox, KeptAside
<1> QED
  BY <1>1, FiringMessage, FiringEnqueue, FiringReminder, FiringSweep DEF Next

\* A reminder is not marked fired without its firing in the inbox, and one that
\* was cancelled before a sweep read it stays silent.
THEOREM FiringsKeptHolds == Spec => []FiringsKept
<1>1. Init => TypeOK /\ FiringInv
  BY InitHolds DEF IInv, SafeInv, FiringInv
<1>2. TypeOK /\ FiringInv /\ [Next]_vars => TypeOK' /\ FiringInv'
  BY NextType, NextFiring
<1>3. FiringInv => FiringsKept
  BY DEF FiringInv, KeptAside, FiringsKept, CancelHolds
<1> QED
  BY <1>1, <1>2, <1>3, PTL DEF Spec
=============================================================================
