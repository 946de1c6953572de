----------------------------- MODULE LaneProofs -----------------------------
(***************************************************************************)
(* Theorems about the lane for any set of messages, any number of crashes  *)
(* and throws, reachable or not, in-order commits or not:                  *)
(*   - types (TypeCorrect) and at-most-once (ClaimsSound, AtMostOnceHolds);*)
(*   - one drain, and what it has in hand (RefInv);                        *)
(*   - no message is lost or shown to two turns, every answer is its own   *)
(*     turn's, a reminder is never dropped, turns start in the order of    *)
(*     the inbox (LaneSound and the theorems behind it);                   *)
(*   - the lane implements the delivery its members are promised           *)
(*     (LaneImplementsDelivery).                                           *)
(***************************************************************************)
EXTENDS Lane, TLAPS

-----------------------------------------------------------------------------
(* Type correctness.                                                       *)

\* The initial state is well typed.
LEMMA InitType == Init => TypeOK
<1> SUFFICES ASSUME Init PROVE TypeOK
  OBVIOUS
<1> QED
  BY LaneConstants DEF Init, TypeOK, EnqStates, DrainStates, Points, TurnStates, Msgs

\* The enqueue workflow and the process: what they leave alone is typed.
LEMMA EnqueueType ==
  ASSUME TypeOK, NEW m \in Msgs, Arrive(m) \/ Enqueue(m)
  PROVE  TypeOK'
<1> USE DEF TypeOK, inbox, drain, turns, outbox, budget, EnqStates
<1>1. CASE Arrive(m)
  BY <1>1 DEF Arrive
<1>2. CASE TakeSeq(m)
  BY <1>2 DEF TakeSeq
<1>3. CASE CommitInsert(m)
  BY <1>3 DEF CommitInsert
<1>4. CASE EnqueueDrain(m)
  BY <1>4 DEF EnqueueDrain, DrainStates
<1>5. CASE ResumeEnqueue(m)
  BY <1>5 DEF ResumeEnqueue
<1> QED
  BY <1>1, <1>2, <1>3, <1>4, <1>5 DEF Enqueue

\* A drain that throws is well typed.
LEMMA ThrowType ==
  ASSUME TypeOK, NEW d \in live, Throw(d),
         UNCHANGED <<up, enq>>
  PROVE  /\ status' \in [Msgs -> DrainStates]
         /\ \A m \in Msgs : enq'[m] # "done" => status'[m] = "none"
         /\ live' \subseteq {e \in Msgs : up' /\ status'[e] = "pending"}
         /\ UNCHANGED <<pc, todo, lead, batch, text>>
  BY DEF TypeOK, Throw, DrainStates

\* The faults of the drains: sends, turns and results that throw.
LEMMA FaultType ==
  ASSUME TypeOK, NEW d \in Msgs, Fault(d)
  PROVE  TypeOK'
<1> USE DEF TypeOK, inbox, drain, turns, outbox, budget, MayThrow, At
<1>1. CASE TurnThrows(d)
  BY <1>1 DEF TurnThrows, TurnStates
<1>2. CASE SendThrows(d)
  <2>1. d \in live /\ Throw(d) /\ UNCHANGED <<up, enq>>
    BY <1>2 DEF SendThrows
  <2>2. /\ sends' \in [Msgs -> Nat]
        /\ texts' \in [Msgs -> SUBSET (Msgs \cup {NoText})]
    BY <1>2 DEF SendThrows, OnWire
  <2> QED
    BY <1>2, <2>1, <2>2, ThrowType DEF SendThrows
<1>3. CASE DbThrows(d)
  <2>1. d \in live /\ Throw(d) /\ UNCHANGED <<up, enq>>
    BY <1>3 DEF DbThrows
  <2> QED
    BY <1>3, <2>1, ThrowType DEF DbThrows
<1> QED
  BY <1>1, <1>2, <1>3 DEF Fault

\* The actions of a drain, by what they change.
LEMMA AdvanceType ==
  ASSUME TypeOK, NEW d \in Msgs, Advance(d)
  PROVE  TypeOK'
<1> USE DEF TypeOK, inbox, drain, turns, outbox, budget, At, Goto, Points, InSendReply
<1>1. CASE StartDrain(d)
  BY <1>1 DEF StartDrain, DrainStates
<1>2. CASE ReadPending(d)
  BY <1>2 DEF ReadPending, Pending, Visible
<1>3. CASE FinishDrain(d)
  BY <1>3 DEF FinishDrain, DrainStates
<1>4. CASE QuietWait(d)
  BY <1>4 DEF QuietWait, Pending, Visible
<1>5. CASE CallTurn(d)
  <2>1. PICK l \in Heads(todo[d]) :
          /\ lead' = [lead EXCEPT ![d] = l]
          /\ batch' = [batch EXCEPT ![d] = BatchOf(l, todo[d])]
          /\ todo' = [todo EXCEPT ![d] = @ \ BatchOf(l, todo[d])]
          /\ IF turn[l] = "none"
             THEN /\ turn' = [turn EXCEPT ![l] = "running"]
                  /\ input' = [input EXCEPT ![l] = BatchOf(l, todo[d])]
             ELSE UNCHANGED <<turn, input>>
    BY <1>5 DEF CallTurn
  <2>2. l \in Msgs /\ BatchOf(l, todo[d]) \in SUBSET Msgs
    BY DEF Heads, BatchOf
  <2>3. /\ lead' \in [Msgs -> Msgs]
        /\ batch' \in [Msgs -> SUBSET Msgs]
        /\ todo' \in [Msgs -> SUBSET Msgs]
    BY <2>1, <2>2
  <2>4. /\ turn' \in [Msgs -> TurnStates]
        /\ input' \in [Msgs -> SUBSET Msgs]
    <3>1. turn \in [Msgs -> TurnStates] /\ input \in [Msgs -> SUBSET Msgs] /\ "running" \in TurnStates
      BY DEF TurnStates
    <3> QED
      BY ONLY <2>1, <2>2, <3>1
  <2> QED
    BY <1>5, <2>3, <2>4 DEF CallTurn
<1>6. CASE \E o \in {"completed", "mute", "parked"} : TurnReturns(d, o)
  BY <1>6 DEF TurnReturns, TurnStates
<1>7. CASE GetResult(d)
  BY <1>7 DEF GetResult
<1>8. CASE RethrowTurn(d)
  <2>1. d \in live /\ Throw(d) /\ UNCHANGED <<up, enq>>
    BY <1>8 DEF RethrowTurn
  <2> QED
    BY <1>8, <2>1, ThrowType DEF RethrowTurn
<1>9. CASE SendPrompts(d)
  BY <1>9 DEF SendPrompts
<1>10. CASE MarkProcessed(d)
  BY <1>10 DEF MarkProcessed
<1>11. CASE SkipReply(d)
  BY <1>11 DEF SkipReply
<1>12. CASE ClaimReply(d)
  BY <1>12 DEF ClaimReply
<1>13. CASE CheckReply(d)
  BY <1>13 DEF CheckReply
<1>14. CASE SendReply(d)
  BY <1>14 DEF SendReply, OnWire
<1>15. CASE LogReply(d)
  BY <1>15 DEF LogReply
<1>16. CASE DeadLetter(d)
  BY <1>16 DEF DeadLetter
<1>17. CASE RejectReply(d)
  <2>1. d \in live /\ Throw(d) /\ UNCHANGED <<up, enq>>
    BY <1>17 DEF RejectReply
  <2> QED
    BY <1>17, <2>1, ThrowType DEF RejectReply
<1>18. CASE FinishReply(d)
  BY <1>18 DEF FinishReply
<1>19. CASE ResumeDrain(d)
  BY <1>19 DEF ResumeDrain
<1> QED
  BY <1>1, <1>2, <1>3, <1>4, <1>5, <1>6, <1>7, <1>8, <1>9, <1>10, <1>11, <1>12,
     <1>13, <1>14, <1>15, <1>16, <1>17, <1>18, <1>19 DEF Advance

\* A crash, a launch and what the recovery takes up again.
LEMMA ProcessType ==
  ASSUME TypeOK, Crash \/ Launch
  PROVE  TypeOK'
<1> USE DEF TypeOK, inbox, drain, turns, outbox, budget
<1>1. CASE Crash
  <2>1. /\ enq' \in [Msgs -> EnqStates]
        /\ \A m \in Msgs : enq'[m] # "done" => status'[m] = "none"
    BY <1>1 DEF Crash, EnqStates
  <2>2. seq' \in [Msgs -> Nat]
    BY <1>1 DEF Crash
  <2>3. pc' \in [Msgs -> Points]
    BY <1>1 DEF Crash, Points
  <2>4. /\ up' \in BOOLEAN
        /\ enqLive' \subseteq {m \in Msgs : up' /\ enq'[m] \in {"started", "inserting", "inserted"}}
        /\ live' \subseteq {d \in Msgs : up' /\ status'[d] = "pending"}
    BY <1>1 DEF Crash
  <2>5. crashes' \in Nat /\ UNCHANGED <<processed, status, todo, lead, batch, text, turns,
                                        outbox, routable, rooted, fails>>
    BY <1>1 DEF Crash
  <2> QED
    BY <2>1, <2>2, <2>3, <2>4, <2>5
<1>2. CASE Launch
  BY <1>2 DEF Launch
<1> QED
  BY <1>1, <1>2

\* Every step keeps the types.
LEMMA NextType == TypeOK /\ [Next]_vars => TypeOK'
<1> SUFFICES ASSUME TypeOK, [Next]_vars PROVE TypeOK'
  OBVIOUS
<1>1. CASE \E m \in Msgs : Arrive(m) \/ Enqueue(m)
  BY <1>1, EnqueueType
<1>2. CASE \E d \in Msgs : Advance(d) \/ Fault(d)
  BY <1>2, AdvanceType, FaultType
<1>3. CASE Crash \/ Launch
  BY <1>3, ProcessType
<1>4. CASE UNCHANGED vars
  BY <1>4 DEF vars, inbox, drain, turns, outbox, budget, TypeOK
<1> QED
  BY <1>1, <1>2, <1>3, <1>4 DEF Next

\* Every variable keeps its type; executing workflows belong to the running
\* process, and only drains of committed enqueues execute.
THEOREM TypeCorrect == Spec => []TypeOK
<1> QED
  BY InitType, NextType, PTL DEF Spec

-----------------------------------------------------------------------------
(* At-most-once: nobody sends a human reply or a notice a second time.     *)

claimVars == <<status, live, pc, lead, sentLog, sends>>

\* Nothing is claimed at first.
LEMMA InitClaim == Init => ClaimInv
  BY DEF Init, ClaimInv, NotStarted, CrashedOutside, ClaimHeld, ClaimUnspent,
         ClaimUnique, ClassKept, SentIsLogged, SentAtMostOnce, InSendReply

\* An action that touches neither the claims nor where the drains are.
LEMMA ClaimStutter ==
  ASSUME ClaimInv, UNCHANGED claimVars
  PROVE  ClaimInv'
  BY DEF ClaimInv, NotStarted, CrashedOutside, ClaimHeld, ClaimUnspent, ClaimUnique,
         ClassKept, SentIsLogged, SentAtMostOnce, claimVars

\* A running drain goes on to a point outside the send, nothing else changes.
LEMMA ClaimMove ==
  ASSUME TypeOK, ClaimInv, NEW d \in live, NEW p \in Points \ {"claimed", "sending", "wired"},
         pc' = [pc EXCEPT ![d] = p],
         \A e \in Msgs \ {d} : lead'[e] = lead[e],
         UNCHANGED <<status, live, sentLog, sends>>
  PROVE  ClaimInv'
<1> USE DEF ClaimInv, TypeOK
<1>1. d \in Msgs /\ status[d] = "pending"
  OBVIOUS
<1>2. \A e \in Msgs \ {d} : pc'[e] = pc[e] /\ lead'[e] = lead[e]
  OBVIOUS
<1>3. pc'[d] = p
  BY <1>1
<1>4. NotStarted' /\ CrashedOutside'
  BY <1>1, <1>2, <1>3 DEF NotStarted, CrashedOutside
<1>5. ClaimHeld' /\ ClaimUnspent' /\ ClaimUnique' /\ ClassKept'
  BY <1>1, <1>2, <1>3 DEF ClaimHeld, ClaimUnspent, ClaimUnique, ClassKept
<1>6. SentIsLogged' /\ SentAtMostOnce'
  BY DEF SentIsLogged, SentAtMostOnce
<1> QED
  BY <1>4, <1>5, <1>6

\* A drain leaves the process: by an exception, or because it is done.
LEMMA ClaimLeave ==
  ASSUME TypeOK, ClaimInv, NEW d \in live, NEW s \in {"success", "error"},
         status' = [status EXCEPT ![d] = s],
         live' = live \ {d},
         UNCHANGED <<pc, lead, sentLog, sends>>
  PROVE  ClaimInv'
<1> USE DEF ClaimInv, TypeOK
<1>1. d \in Msgs /\ status'[d] = s /\ \A e \in Msgs \ {d} : status'[e] = status[e]
  OBVIOUS
<1> QED
  BY <1>1 DEF NotStarted, CrashedOutside, ClaimHeld, ClaimUnspent, ClaimUnique, ClassKept,
              SentIsLogged, SentAtMostOnce

\* The holder of a claim, or a reminder's drain, puts a message on the wire
\* and leaves the point it sent from.
LEMMA ClaimSpend ==
  ASSUME TypeOK, ClaimInv, NEW d \in live, pc[d] \in {"claimed", "sending"},
         sends' = [sends EXCEPT ![lead[d]] = @ + 1],
         \A e \in Msgs \ {d} : pc'[e] = pc[e] /\ status'[e] = status[e],
         live' \subseteq live,
         \A e \in live \ {d} : e \in live',
         UNCHANGED <<lead, sentLog>>,
         \/ d \in live' /\ status'[d] = "pending" /\ pc[d] = "claimed" /\ pc'[d] = "finish"
         \/ d \in live' /\ status'[d] = "pending" /\ pc[d] = "sending" /\ pc'[d] = "wired"
         \/ d \notin live' /\ status'[d] = "error" /\ pc'[d] = pc[d]
  PROVE  ClaimInv'
<1> USE DEF ClaimInv, TypeOK
<1>1. d \in Msgs /\ lead[d] \in Msgs /\ status[d] = "pending"
  OBVIOUS
<1>2. /\ sends'[lead[d]] = sends[lead[d]] + 1
      /\ \A m \in Msgs \ {lead[d]} : sends'[m] = sends[m]
  BY <1>1
<1>3. pc[d] = "sending" => AtLeastOnce(lead[d])
  BY DEF ClassKept
<1>4. pc[d] = "claimed" => lead[d] \in sentLog /\ ~AtLeastOnce(lead[d]) /\ sends[lead[d]] = 0
  BY <1>1 DEF ClaimHeld, ClaimUnspent
<1>5. \A e \in Msgs : pc'[e] = "claimed" => pc[e] = "claimed"
  BY <1>1
<1>6. NotStarted' /\ CrashedOutside'
  BY <1>1 DEF NotStarted, CrashedOutside
<1>7. ClaimHeld' /\ ClaimUnique'
  BY <1>5 DEF ClaimHeld, ClaimUnique, AtLeastOnce
<1>8. ClaimUnspent'
  <2> SUFFICES ASSUME NEW e \in live', pc'[e] = "claimed" PROVE sends'[lead[e]] = 0
    BY DEF ClaimUnspent
  <2>1. e # d /\ e \in live /\ pc[e] = "claimed"
    BY <1>5
  <2>2. lead[e] # lead[d]
    BY <2>1, <1>1, <1>3 DEF ClaimHeld, ClaimUnique
  <2> QED
    BY <2>1, <2>2, <1>2 DEF ClaimUnspent
<1>9. ClassKept'
  BY <1>1, <1>3 DEF ClassKept, AtLeastOnce
<1>10. SentIsLogged' /\ SentAtMostOnce'
  BY <1>1, <1>2, <1>3, <1>4 DEF SentIsLogged, SentAtMostOnce
<1> QED
  BY <1>6, <1>7, <1>8, <1>9, <1>10

\* sent_log only grows, by a key no drain holds a claim on or at the moment
\* its one claim is taken.
LEMMA ClaimTake ==
  ASSUME TypeOK, ClaimInv, NEW d \in Msgs, ClaimReply(d)
  PROVE  ClaimInv'
<1> USE DEF ClaimInv, TypeOK, ClaimReply, At, Goto, outbox
<1>1. /\ d \in live /\ pc[d] = "reply" /\ pc' = [pc EXCEPT ![d] = "claimed"]
      /\ lead[d] \in Msgs /\ lead[d] \notin sentLog /\ ~AtLeastOnce(lead[d])
      /\ sentLog' = sentLog \cup {lead[d]}
      /\ UNCHANGED <<status, live, lead, sends>>
  OBVIOUS
<1>2. pc'[d] = "claimed" /\ \A e \in Msgs \ {d} : pc'[e] = pc[e]
  BY <1>1
<1>3. NotStarted' /\ CrashedOutside' /\ ClaimHeld' /\ ClassKept'
  BY <1>1, <1>2 DEF NotStarted, CrashedOutside, ClaimHeld, ClassKept, AtLeastOnce
<1>4. ClaimUnique'
  BY <1>1, <1>2 DEF ClaimUnique, ClaimHeld
<1>5. sends[lead[d]] = 0
  BY <1>1 DEF SentIsLogged, SentAtMostOnce
<1>6. ClaimUnspent' /\ SentIsLogged' /\ SentAtMostOnce'
  BY <1>1, <1>2, <1>5 DEF ClaimUnspent, SentIsLogged, SentAtMostOnce, AtLeastOnce
<1> QED
  BY <1>3, <1>4, <1>6

\* recordSend completes the row of a send that has left.
LEMMA ClaimLog ==
  ASSUME TypeOK, ClaimInv, NEW d \in Msgs, LogReply(d)
  PROVE  ClaimInv'
<1> USE DEF ClaimInv, TypeOK, LogReply, At, Goto
<1>1. /\ d \in live /\ pc' = [pc EXCEPT ![d] = "finish"]
      /\ sentLog' = sentLog \cup {lead[d]}
      /\ UNCHANGED <<status, live, lead, sends>>
  OBVIOUS
<1>2. pc'[d] = "finish" /\ \A e \in Msgs \ {d} : pc'[e] = pc[e]
  BY <1>1
<1> QED
  BY <1>1, <1>2 DEF NotStarted, CrashedOutside, ClaimHeld, ClaimUnspent, ClaimUnique,
                    ClassKept, SentIsLogged, SentAtMostOnce, AtLeastOnce

\* The enqueue workflow takes no part in sends.
LEMMA ClaimEnqueue ==
  ASSUME TypeOK, ClaimInv, NEW m \in Msgs, Arrive(m) \/ Enqueue(m)
  PROVE  ClaimInv'
<1> USE DEF drain, turns, outbox, budget, claimVars
<1>1. CASE EnqueueDrain(m)
  <2>1. /\ status[m] = "none" /\ status' = [status EXCEPT ![m] = "enqueued"]
        /\ UNCHANGED <<live, pc, lead, sentLog, sends>>
    BY <1>1 DEF EnqueueDrain, TypeOK
  <2> QED
    BY <2>1 DEF TypeOK, ClaimInv, NotStarted, CrashedOutside, ClaimHeld, ClaimUnspent,
                ClaimUnique, ClassKept, SentIsLogged, SentAtMostOnce
<1>2. CASE UNCHANGED claimVars
  BY <1>2, ClaimStutter
<1> QED
  BY <1>1, <1>2 DEF Enqueue, Arrive, TakeSeq, CommitInsert, ResumeEnqueue

\* A throw leaves the send behind.
LEMMA ClaimThrow ==
  ASSUME TypeOK, ClaimInv, NEW d \in live, Throw(d), UNCHANGED <<sentLog, sends>>
  PROVE  ClaimInv'
  BY ClaimLeave DEF Throw

\* No fault gives a claim back or spends it twice.
LEMMA ClaimFault ==
  ASSUME TypeOK, ClaimInv, NEW d \in Msgs, Fault(d)
  PROVE  ClaimInv'
<1> USE DEF drain, turns, outbox, budget, At
<1>1. CASE TurnThrows(d)
  BY <1>1, ClaimStutter DEF TurnThrows, claimVars
<1>2. CASE SendThrows(d)
  <2>1. CASE UNCHANGED sends
    BY <1>2, <2>1, ClaimThrow DEF SendThrows
  <2>2. CASE pc[d] # "prompt" /\ OnWire(d)
    <3>1. /\ d \in live /\ pc[d] \in {"claimed", "sending"}
          /\ sends' = [sends EXCEPT ![lead[d]] = @ + 1]
          /\ status' = [status EXCEPT ![d] = "error"]
          /\ live' = live \ {d}
          /\ UNCHANGED <<pc, lead, sentLog>>
      BY <1>2, <2>2 DEF SendThrows, OnWire, Throw
    <3>2. /\ \A e \in Msgs \ {d} : pc'[e] = pc[e] /\ status'[e] = status[e]
          /\ status'[d] = "error"
      BY <3>1 DEF TypeOK
    <3> QED
      BY <3>1, <3>2, ClaimSpend
  <2> QED
    BY <1>2, <2>1, <2>2 DEF SendThrows
<1>3. CASE DbThrows(d)
  BY <1>3, ClaimThrow DEF DbThrows
<1> QED
  BY <1>1, <1>2, <1>3 DEF Fault

\* A crash loses drains that hold claims, never a claim.
LEMMA ClaimProcess ==
  ASSUME TypeOK, ClaimInv, Crash \/ Launch
  PROVE  ClaimInv'
<1> USE DEF drain, turns, outbox, budget
<1>1. CASE Crash
  <2>1. /\ live' = {}
        /\ pc' = [d \in Msgs |-> IF status[d] = "pending" /\ pc[d] \in InSendReply
                                THEN "reply" ELSE pc[d]]
        /\ UNCHANGED <<status, lead, sentLog, sends>>
    BY <1>1 DEF Crash
  <2>2. \A d \in Msgs : pc'[d] \in InSendReply => pc'[d] = pc[d] /\ status[d] # "pending"
    BY <2>1 DEF InSendReply
  <2>3. NotStarted' /\ CrashedOutside'
    BY <2>1, <2>2 DEF ClaimInv, NotStarted, CrashedOutside
  <2>4. ClaimHeld' /\ ClaimUnspent' /\ ClaimUnique' /\ ClassKept'
    BY <2>1, <2>2 DEF ClaimInv, ClaimHeld, ClaimUnspent, ClaimUnique, ClassKept, InSendReply
  <2>5. SentIsLogged' /\ SentAtMostOnce'
    BY <2>1 DEF ClaimInv, SentIsLogged, SentAtMostOnce
  <2> QED
    BY <2>3, <2>4, <2>5 DEF ClaimInv
<1>2. CASE Launch
  BY <1>2, ClaimStutter DEF Launch, claimVars
<1> QED
  BY <1>1, <1>2

\* A drain starts, or is taken up again, at a point outside the send.
LEMMA ClaimJoin ==
  ASSUME TypeOK, ClaimInv, NEW d \in Msgs, StartDrain(d) \/ ResumeDrain(d)
  PROVE  ClaimInv'
<1>1. /\ live' = live \cup {d}
      /\ status' = [status EXCEPT ![d] = "pending"]
      /\ pc[d] \notin InSendReply
      /\ UNCHANGED <<pc, lead, sentLog, sends>>
  BY DEF StartDrain, ResumeDrain, TypeOK, ClaimInv, NotStarted, CrashedOutside,
         InSendReply, turns, outbox
<1> QED
  BY <1>1 DEF TypeOK, ClaimInv, NotStarted, CrashedOutside, ClaimHeld, ClaimUnspent,
              ClaimUnique, ClassKept, SentIsLogged, SentAtMostOnce, InSendReply

\* Every action of a drain keeps the claims sound.
LEMMA ClaimAdvance ==
  ASSUME TypeOK, ClaimInv, NEW d \in Msgs, Advance(d)
  PROVE  ClaimInv'
<1> USE DEF drain, turns, outbox, budget, At, Goto, Points, InSendReply
<1>1. CASE StartDrain(d) \/ ResumeDrain(d)
  BY <1>1, ClaimJoin
<1>2. CASE ReadPending(d)
  BY <1>2, ClaimMove DEF ReadPending
<1>3. CASE FinishDrain(d)
  BY <1>3, ClaimLeave DEF FinishDrain
<1>4. CASE QuietWait(d)
  BY <1>4, ClaimMove DEF QuietWait
<1>5. CASE CallTurn(d)
  <2>1. /\ d \in live /\ pc' = [pc EXCEPT ![d] = "await"]
        /\ \A e \in Msgs \ {d} : lead'[e] = lead[e]
        /\ UNCHANGED <<status, live, sentLog, sends>>
    BY <1>5 DEF CallTurn, TypeOK
  <2> QED
    BY <2>1, ClaimMove
<1>6. CASE \E o \in {"completed", "mute", "parked"} : TurnReturns(d, o)
  BY <1>6, ClaimStutter DEF TurnReturns, claimVars
<1>7. CASE GetResult(d)
  BY <1>7, ClaimMove DEF GetResult
<1>8. CASE RethrowTurn(d) \/ RejectReply(d)
  BY <1>8, ClaimThrow DEF RethrowTurn, RejectReply
<1>9. CASE SendPrompts(d) \/ SkipReply(d) \/ FinishReply(d)
  BY <1>9, ClaimMove DEF SendPrompts, SkipReply, FinishReply
<1>10. CASE MarkProcessed(d)
  <2>1. /\ d \in live
        /\ \A e \in Msgs \ {d} : lead'[e] = lead[e]
        /\ UNCHANGED <<status, live, sentLog, sends>>
        /\ pc' = [pc EXCEPT ![d] = IF todo[d] = {} THEN "read" ELSE "batches"]
    BY <1>10 DEF MarkProcessed, TypeOK
  <2> QED
    BY <2>1, ClaimMove
<1>11. CASE ClaimReply(d)
  BY <1>11, ClaimTake
<1>12. CASE CheckReply(d)
  <2>1. /\ d \in live /\ pc' = [pc EXCEPT ![d] = "sending"] /\ AtLeastOnce(lead[d])
        /\ UNCHANGED <<status, live, lead, sentLog, sends>>
    BY <1>12 DEF CheckReply
  <2>2. status[d] = "pending" /\ pc'[d] = "sending" /\ \A e \in Msgs \ {d} : pc'[e] = pc[e]
    BY <2>1 DEF TypeOK
  <2> QED
    BY <2>1, <2>2 DEF ClaimInv, NotStarted, CrashedOutside, ClaimHeld, ClaimUnspent,
                      ClaimUnique, ClassKept, SentIsLogged, SentAtMostOnce, AtLeastOnce
<1>13. CASE SendReply(d)
  <2>1. /\ d \in live /\ sends' = [sends EXCEPT ![lead[d]] = @ + 1]
        /\ UNCHANGED <<status, live, lead, sentLog>>
        /\ \/ pc[d] = "claimed" /\ pc' = [pc EXCEPT ![d] = "finish"]
           \/ pc[d] = "sending" /\ pc' = [pc EXCEPT ![d] = "wired"]
    BY <1>13 DEF SendReply, OnWire
  <2>2. /\ \A e \in Msgs \ {d} : pc'[e] = pc[e]
        /\ status[d] = "pending"
        /\ \/ pc[d] = "claimed" /\ pc'[d] = "finish"
           \/ pc[d] = "sending" /\ pc'[d] = "wired"
    BY <2>1 DEF TypeOK
  <2> QED
    BY <2>1, <2>2, ClaimSpend
<1>14. CASE LogReply(d)
  BY <1>14, ClaimLog
<1>15. CASE DeadLetter(d)
  BY <1>15, ClaimMove DEF DeadLetter
<1> QED
  BY <1>1, <1>2, <1>3, <1>4, <1>5, <1>6, <1>7, <1>8, <1>9, <1>10, <1>11, <1>12,
     <1>13, <1>14, <1>15 DEF Advance

\* Every step keeps the claims sound.
LEMMA NextClaim == TypeOK /\ ClaimInv /\ [Next]_vars => ClaimInv'
<1> SUFFICES ASSUME TypeOK, ClaimInv, [Next]_vars PROVE ClaimInv'
  OBVIOUS
<1>1. CASE \E m \in Msgs : Arrive(m) \/ Enqueue(m)
  BY <1>1, ClaimEnqueue
<1>2. CASE \E d \in Msgs : Advance(d) \/ Fault(d)
  BY <1>2, ClaimAdvance, ClaimFault
<1>3. CASE Crash \/ Launch
  BY <1>3, ClaimProcess
<1>4. CASE UNCHANGED vars
  BY <1>4, ClaimStutter DEF vars, claimVars, drain, outbox
<1> QED
  BY <1>1, <1>2, <1>3, <1>4 DEF Next

\* The claims are sound in every reachable state.
THEOREM ClaimsSound == Spec => []ClaimInv
<1> QED
  BY InitType, NextType, InitClaim, NextClaim, PTL DEF Spec

\* No crash, throw, retry or second drain makes an at-most-once reply leave
\* twice.
THEOREM AtMostOnceHolds == Spec => []SentAtMostOnce
<1>1. ClaimInv => SentAtMostOnce
  BY DEF ClaimInv
<1> QED
  BY <1>1, ClaimsSound, PTL

-----------------------------------------------------------------------------
(* The drain under way, and what it has in hand.                           *)

InBatch == {"await", "reply", "prompt", "mark"} \cup InSendReply

\* One drain is under way, and what it has in hand is still unmarked.
OneDrain  == \A d, e \in Msgs : status[d] = "pending" /\ status[e] = "pending" => d = e
TodoOpen  == \A d \in Msgs : status[d] = "pending" /\ pc[d] # "read" => todo[d] \subseteq Pending
BatchOpen == \A d \in Msgs : status[d] = "pending" /\ pc[d] \in InBatch =>
               /\ lead[d] \in batch[d] /\ batch[d] \subseteq Pending
               /\ todo[d] \cap batch[d] = {}

\* A reply that may repeat is logged behind its send, by the drain that sends it.
RepeatsOpen == \A d \in Msgs : status[d] = "pending" /\ pc[d] \in {"sending", "wired"} =>
                 /\ AtLeastOnce(lead[d]) /\ lead[d] \notin sentLog
                 /\ pc[d] = "wired" => sends[lead[d]] > 0

\* A conversation that cannot be reached is sent nothing, another buries nothing.
RouteDecides == (routable => dead = {}) /\ (~routable => \A m \in Msgs : sends[m] = 0)

RefInv == OneDrain /\ TodoOpen /\ BatchOpen /\ RepeatsOpen /\ RouteDecides

drainVars == <<status, pc, todo, lead, batch>>
replyVars == <<sentLog, sends, dead, routable>>

-----------------------------------------------------------------------------
\* It holds at first.
LEMMA InitRef == Init => RefInv
  BY DEF Init, RefInv, OneDrain, TodoOpen, BatchOpen, RepeatsOpen, RouteDecides

\* What is visible stays so, and only a mark takes it out of what is pending.
LEMMA PendingStays ==
  ASSUME TypeOK, [Next]_vars, UNCHANGED processed
  PROVE  Pending \subseteq Pending'
<1>1. CASE \E m \in Msgs : Arrive(m) \/ Enqueue(m)
  BY <1>1 DEF Arrive, Enqueue, TakeSeq, CommitInsert, EnqueueDrain, ResumeEnqueue, TypeOK,
              Pending, Visible
<1>2. CASE (\E d \in Msgs : Advance(d) \/ Fault(d)) \/ Launch \/ UNCHANGED vars
  <2>1. UNCHANGED enq
    BY <1>2 DEF Advance, Fault, Launch, vars, inbox, StartDrain, ReadPending, FinishDrain,
       QuietWait, CallTurn, TurnReturns, GetResult, RethrowTurn, SendPrompts, MarkProcessed,
       SkipReply, ClaimReply, CheckReply, SendReply, LogReply, DeadLetter, RejectReply,
       FinishReply, ResumeDrain, TurnThrows, SendThrows, DbThrows
  <2> QED
    BY <2>1 DEF Pending, Visible
<1>3. CASE Crash
  BY <1>3 DEF Crash, Pending, Visible, TypeOK
<1> QED
  BY <1>1, <1>2, <1>3 DEF Next

\* A running drain moves, and takes nothing new in hand.
LEMMA RefMove ==
  ASSUME TypeOK, RefInv, [Next]_vars, NEW d \in live, NEW p \in Points \ {"sending", "wired"},
         pc' = [pc EXCEPT ![d] = p],
         p = "read" \/ pc[d] # "read",
         p \in InBatch => pc[d] \in InBatch,
         UNCHANGED <<status, todo, lead, batch, processed>>,
         UNCHANGED <<sentLog, sends, routable>>,
         UNCHANGED dead \/ ~routable
  PROVE  RefInv'
<1> USE DEF TypeOK, RefInv
<1>1. d \in Msgs /\ pc'[d] = p /\ \A e \in Msgs \ {d} : pc'[e] = pc[e]
  OBVIOUS
<1>2. Pending \subseteq Pending'
  BY PendingStays
<1>3. OneDrain' /\ TodoOpen' /\ BatchOpen'
  BY <1>1, <1>2 DEF OneDrain, TodoOpen, BatchOpen
<1>4. RepeatsOpen' /\ RouteDecides'
  BY <1>1 DEF RepeatsOpen, RouteDecides, AtLeastOnce
<1> QED
  BY <1>3, <1>4

\* A step that leaves the drains and the replies alone.
LEMMA RefStutter ==
  ASSUME TypeOK, RefInv, [Next]_vars, UNCHANGED drainVars, UNCHANGED replyVars,
         UNCHANGED processed
  PROVE  RefInv'
<1>1. Pending \subseteq Pending'
  BY PendingStays
<1> QED
  BY <1>1 DEF RefInv, OneDrain, TodoOpen, BatchOpen, RepeatsOpen, RouteDecides, AtLeastOnce,
              drainVars, replyVars

\* A drain ends, by an exception or because it is done, perhaps with a last message.
LEMMA RefLeave ==
  ASSUME TypeOK, RefInv, [Next]_vars, NEW d \in live, NEW s \in {"success", "error"},
         status' = [status EXCEPT ![d] = s],
         UNCHANGED <<pc, todo, lead, batch, processed, sentLog, dead, routable>>,
         \/ UNCHANGED sends
         \/ routable /\ sends' = [sends EXCEPT ![lead[d]] = @ + 1]
  PROVE  RefInv'
<1> USE DEF TypeOK, RefInv
<1>1. d \in Msgs /\ status[d] = "pending" /\ status'[d] = s
      /\ \A e \in Msgs \ {d} : status'[e] = status[e] /\ status[e] # "pending"
  BY DEF OneDrain
<1>2. Pending \subseteq Pending'
  BY PendingStays
<1> QED
  BY <1>1, <1>2 DEF OneDrain, TodoOpen, BatchOpen, RepeatsOpen, RouteDecides

\* The one drain goes on with the reply: claims it, checks it, sends it, logs it.
LEMMA RefReply ==
  ASSUME TypeOK, RefInv, [Next]_vars, NEW d \in Msgs,
         ClaimReply(d) \/ CheckReply(d) \/ SendReply(d) \/ LogReply(d)
  PROVE  RefInv'
<1> USE DEF TypeOK, RefInv, At, Goto
<1>1. /\ d \in live /\ status[d] = "pending" /\ pc[d] \in InBatch
      /\ \A e \in Msgs \ {d} : status[e] # "pending"
  BY DEF OneDrain, ClaimReply, CheckReply, SendReply, LogReply, InBatch, InSendReply
<1>2. UNCHANGED <<status, todo, lead, batch, processed, dead, routable>>
  BY DEF ClaimReply, CheckReply, SendReply, LogReply, outbox, budget
<1>3. Pending \subseteq Pending'
  BY <1>2, PendingStays
<1>4. OneDrain' /\ TodoOpen' /\ BatchOpen'
  <2>1. pc[d] # "read"
    BY <1>1 DEF InBatch, InSendReply
  <2> QED
    BY <1>1, <1>2, <1>3, <2>1 DEF OneDrain, TodoOpen, BatchOpen
<1>5. CASE ClaimReply(d)
  <2>1. pc'[d] = "claimed" /\ UNCHANGED sends
    BY <1>5 DEF ClaimReply
  <2> QED
    BY <1>1, <1>2, <1>4, <2>1 DEF RepeatsOpen, RouteDecides
<1>6. CASE CheckReply(d)
  <2>1. pc'[d] = "sending" /\ AtLeastOnce(lead[d]) /\ lead[d] \notin sentLog
        /\ UNCHANGED <<sends, sentLog>>
    BY <1>6 DEF CheckReply, outbox
  <2> QED
    BY <1>1, <1>2, <1>4, <2>1 DEF RepeatsOpen, RouteDecides, AtLeastOnce
<1>7. CASE SendReply(d)
  <2>1. /\ routable /\ UNCHANGED sentLog
        /\ sends'[lead[d]] > 0
        /\ pc'[d] = "wired" => pc[d] = "sending"
        /\ pc'[d] # "sending"
    BY <1>7 DEF SendReply, OnWire
  <2> QED
    BY <1>1, <1>2, <1>4, <2>1 DEF RepeatsOpen, RouteDecides, AtLeastOnce
<1>8. CASE LogReply(d)
  <2>1. pc'[d] = "finish" /\ UNCHANGED sends
    BY <1>8 DEF LogReply
  <2> QED
    BY <1>1, <1>2, <1>4, <2>1 DEF RepeatsOpen, RouteDecides
<1> QED
  BY <1>5, <1>6, <1>7, <1>8

\* The one drain reads, waits, cuts the next batch, or marks the one it is done with.
LEMMA RefBatch ==
  ASSUME TypeOK, RefInv, [Next]_vars, NEW d \in Msgs,
         ReadPending(d) \/ QuietWait(d) \/ CallTurn(d) \/ MarkProcessed(d)
  PROVE  RefInv'
<1> USE DEF TypeOK, RefInv, At, Goto
<1>1. /\ d \in live /\ status[d] = "pending"
      /\ \A e \in Msgs \ {d} : status[e] # "pending"
  BY DEF OneDrain, ReadPending, QuietWait, CallTurn, MarkProcessed
<1>2. UNCHANGED <<status, sentLog, sends, dead, routable>>
  BY DEF ReadPending, QuietWait, CallTurn, MarkProcessed, outbox, budget
<1>3. OneDrain' /\ RouteDecides'
  BY <1>2 DEF OneDrain, RouteDecides
<1>4. \A e \in Msgs \ {d} : status'[e] # "pending"
  BY <1>1, <1>2
<1>5. CASE ReadPending(d) \/ QuietWait(d)
  <2>1. /\ todo'[d] = Pending /\ pc'[d] \in {"quiet", "batches"}
        /\ UNCHANGED <<processed, enq>>
    BY <1>5 DEF ReadPending, QuietWait, inbox
  <2>2. Pending' = Pending
    BY <2>1 DEF Pending, Visible
  <2> QED
    BY <1>3, <1>4, <2>1, <2>2 DEF TodoOpen, BatchOpen, RepeatsOpen, InBatch, InSendReply
<1>6. CASE CallTurn(d)
  <2>1. PICK l \in Heads(todo[d]) :
          /\ lead' = [lead EXCEPT ![d] = l]
          /\ batch' = [batch EXCEPT ![d] = BatchOf(l, todo[d])]
          /\ todo' = [todo EXCEPT ![d] = @ \ BatchOf(l, todo[d])]
    BY <1>6 DEF CallTurn
  <2>2. /\ pc[d] = "batches" /\ pc'[d] = "await" /\ UNCHANGED <<processed, enq>>
    BY <1>6 DEF CallTurn, inbox
  <2>3. Pending' = Pending /\ todo[d] \subseteq Pending
    BY <1>1, <2>2 DEF Pending, Visible, TodoOpen
  <2>4. l \in BatchOf(l, todo[d]) /\ BatchOf(l, todo[d]) \subseteq todo[d]
    BY DEF Heads, BatchOf
  <2>5. /\ lead'[d] = l /\ batch'[d] = BatchOf(l, todo[d])
        /\ todo'[d] = todo[d] \ BatchOf(l, todo[d])
    BY <2>1
  <2> QED
    BY <1>3, <1>4, <2>2, <2>3, <2>4, <2>5 DEF TodoOpen, BatchOpen, RepeatsOpen
<1>7. CASE MarkProcessed(d)
  <2>1. /\ pc[d] = "mark" /\ pc'[d] \in {"read", "batches"} /\ UNCHANGED <<todo, enq>>
        /\ processed' = processed \cup batch[d]
    BY <1>7 DEF MarkProcessed, inbox
  <2>2. todo[d] \subseteq Pending /\ todo[d] \cap batch[d] = {}
    BY <1>1, <2>1 DEF TodoOpen, BatchOpen, InBatch
  <2>3. todo[d] \subseteq Pending'
    BY <2>1, <2>2 DEF Pending, Visible
  <2> QED
    BY <1>3, <1>4, <2>1, <2>3 DEF TodoOpen, BatchOpen, RepeatsOpen, InBatch, InSendReply
<1> QED
  BY <1>5, <1>6, <1>7

\* A drain starts where no other is under way, at its first read.
LEMMA RefStart ==
  ASSUME TypeOK, ClaimInv, RefInv, NEW d \in Msgs, StartDrain(d), [Next]_vars
  PROVE  RefInv'
<1> USE DEF TypeOK, RefInv
<1>1. /\ status[d] = "enqueued" /\ \A e \in Msgs : status[e] # "pending"
      /\ status' = [status EXCEPT ![d] = "pending"]
      /\ UNCHANGED <<pc, todo, lead, batch, processed, sentLog, sends, dead, routable>>
  BY DEF StartDrain, outbox, budget
<1>2. pc[d] = "read"
  BY <1>1 DEF ClaimInv, NotStarted
<1> QED
  BY <1>1, <1>2 DEF OneDrain, TodoOpen, BatchOpen, RepeatsOpen, RouteDecides, InBatch, InSendReply

\* Every action of a drain keeps it.
LEMMA RefAdvance ==
  ASSUME TypeOK, ClaimInv, RefInv, [Next]_vars, NEW d \in Msgs, Advance(d)
  PROVE  RefInv'
<1> USE DEF turns, outbox, budget, At, Goto, Points, InBatch, InSendReply
<1>1. CASE StartDrain(d)
  BY <1>1, RefStart
<1>2. CASE ReadPending(d) \/ QuietWait(d) \/ CallTurn(d) \/ MarkProcessed(d)
  BY <1>2, RefBatch
<1>3. CASE ClaimReply(d) \/ CheckReply(d) \/ SendReply(d) \/ LogReply(d)
  BY <1>3, RefReply
<1>4. CASE FinishDrain(d)
  BY <1>4, RefLeave DEF FinishDrain
<1>5. CASE RethrowTurn(d) \/ RejectReply(d)
  BY <1>5, RefLeave DEF RethrowTurn, RejectReply, Throw
<1>6. CASE ResumeDrain(d) \/ \E o \in {"completed", "mute", "parked"} : TurnReturns(d, o)
  BY <1>6, RefStutter DEF ResumeDrain, TurnReturns, drain, drainVars, replyVars
<1>7. CASE GetResult(d) \/ SendPrompts(d)
  BY <1>7, RefMove DEF GetResult, SendPrompts
<1>8. CASE SkipReply(d) \/ FinishReply(d) \/ DeadLetter(d)
  BY <1>8, RefMove DEF SkipReply, FinishReply, DeadLetter
<1> QED
  BY <1>1, <1>2, <1>3, <1>4, <1>5, <1>6, <1>7, <1>8 DEF Advance

\* A fault ends the drain it hits, or the turn.
LEMMA RefFault ==
  ASSUME TypeOK, RefInv, [Next]_vars, NEW d \in Msgs, Fault(d)
  PROVE  RefInv'
<1> USE DEF turns, outbox, budget, At
<1>1. CASE TurnThrows(d)
  BY <1>1, RefStutter DEF TurnThrows, drain, drainVars, replyVars
<1>2. CASE SendThrows(d)
  BY <1>2, RefLeave DEF SendThrows, Throw, OnWire
<1>3. CASE DbThrows(d)
  BY <1>3, RefLeave DEF DbThrows, Throw
<1> QED
  BY <1>1, <1>2, <1>3 DEF Fault

\* An arriving message touches no drain but its own, which has not started.
LEMMA RefEnqueue ==
  ASSUME TypeOK, RefInv, [Next]_vars, NEW m \in Msgs, Arrive(m) \/ Enqueue(m)
  PROVE  RefInv'
<1> USE DEF drain, outbox, budget
<1>1. CASE EnqueueDrain(m)
  <2>1. /\ status[m] = "none" /\ status' = [status EXCEPT ![m] = "enqueued"]
        /\ UNCHANGED <<pc, todo, lead, batch, processed, sentLog, sends, dead, routable>>
    BY <1>1 DEF EnqueueDrain, TypeOK
  <2>2. Pending \subseteq Pending'
    BY <2>1, PendingStays
  <2> QED
    BY <2>1, <2>2 DEF TypeOK, RefInv, OneDrain, TodoOpen, BatchOpen, RepeatsOpen, RouteDecides,
                      AtLeastOnce
<1>2. CASE UNCHANGED <<drainVars, replyVars, processed>>
  BY <1>2, RefStutter
<1> QED
  BY <1>1, <1>2 DEF Enqueue, Arrive, TakeSeq, CommitInsert, ResumeEnqueue, drainVars, replyVars

\* A crash takes a drain out of the send and leaves it its batch.
LEMMA RefCrash ==
  ASSUME TypeOK, RefInv, [Next]_vars, Crash
  PROVE  RefInv'
<1>1. /\ pc' = [d \in Msgs |-> IF status[d] = "pending" /\ pc[d] \in InSendReply
                              THEN "reply" ELSE pc[d]]
      /\ UNCHANGED <<status, todo, lead, batch, processed, sentLog, sends, dead, routable>>
  BY DEF Crash, outbox
<1>2. Pending \subseteq Pending'
  BY <1>1, PendingStays
<1>3. \A d \in Msgs : status[d] = "pending" =>
        /\ pc'[d] \in InBatch <=> pc[d] \in InBatch
        /\ pc'[d] = "read" <=> pc[d] = "read"
        /\ pc'[d] \notin {"sending", "wired"}
  BY <1>1 DEF InBatch, InSendReply
<1> QED
  BY <1>1, <1>2, <1>3 DEF RefInv, OneDrain, TodoOpen, BatchOpen, RepeatsOpen, RouteDecides

\* Every step keeps it.
LEMMA NextRef == TypeOK /\ ClaimInv /\ RefInv /\ [Next]_vars => RefInv'
<1> SUFFICES ASSUME TypeOK, ClaimInv, RefInv, [Next]_vars PROVE RefInv'
  OBVIOUS
<1>1. CASE \E m \in Msgs : Arrive(m) \/ Enqueue(m)
  BY <1>1, RefEnqueue
<1>2. CASE \E d \in Msgs : Advance(d) \/ Fault(d)
  BY <1>2, RefAdvance, RefFault
<1>3. CASE Crash
  BY <1>3, RefCrash
<1>4. CASE Launch \/ UNCHANGED vars
  BY <1>4, RefStutter DEF Launch, vars, drain, outbox, budget, drainVars, replyVars
<1> QED
  BY <1>1, <1>2, <1>3, <1>4 DEF Next

-----------------------------------------------------------------------------
(* What a lane does with its messages.  The inbox is in order where        *)
(* inserts do not overlap (CommitInOrder).  Where they do, an older row    *)
(* may appear behind a batch in hand; that is harmless as long as nothing  *)
(* throws, because the batch in hand is then the one its turn was started  *)
(* with.                                                                   *)

Calm    == routable /\ fails = 0
Orderly == Calm \/ CommitInOrder

Started(l) == turn[l] # "none"

\* Serials are taken once, and in order none is taken before it is visible.
SeqTaken    == \A m \in Msgs : seq[m] = 0 <=> enq[m] \in {"none", "started"}
SeqDistinct == \A k, m \in Msgs : seq[k] = seq[m] /\ seq[k] # 0 => k = m
NoOverlap   == CommitInOrder => \A m \in Msgs : enq[m] # "inserting"

\* Turns are started with visible rows, marks are set on visible rows, and
\* what has had no turn has had no answer.
TurnsSeen   == processed \subseteq Visible /\ \A l \in Msgs : Started(l) => l \in Visible
Untouched   == \A l \in Msgs : ~Started(l) => l \notin sentLog /\ sends[l] = 0 /\ input[l] = {}

\* How the turn of the batch in hand ended, by the point the drain is at.
TurnDecided ==
  \A d \in Msgs : status[d] = "pending" =>
    /\ pc[d] = "await" => Started(lead[d])
    /\ pc[d] \in {"reply"} \cup InSendReply => turn[lead[d]] \in {"completed", "mute"}
    /\ pc[d] = "prompt" => turn[lead[d]] = "parked"
    /\ pc[d] = "mark" => turn[lead[d]] \in {"completed", "mute", "parked"}
ErrorsCount == fails = 0 => \A l \in Msgs : turn[l] # "error"

\* Only messages of members are merged behind a lead.
BatchMates == \A d \in Msgs : status[d] = "pending" /\ pc[d] \in InBatch =>
                batch[d] \subseteq Human \cup {lead[d]}
LogBehind  == \A m \in Reminder : m \in sentLog => sends[m] > 0

RowsInv == /\ SeqTaken /\ SeqDistinct /\ NoOverlap /\ TurnsSeen /\ Untouched
           /\ TurnDecided /\ ErrorsCount /\ BatchMates /\ LogBehind

\* In order: what a drain has in hand is the oldest part of what is pending,
InHand(d)  == todo[d] \cup (IF pc[d] \in InBatch THEN batch[d] ELSE {})
TodoOldest == \A d \in Msgs : status[d] = "pending" /\ pc[d] # "read" =>
                \A t \in todo[d], k \in Pending : seq[k] < seq[t] => k \in InHand(d)

\* a turn that was started and is not settled is the oldest row's,
StartedIsHead == \A l \in Pending : Started(l) => l \in Heads(Pending)

\* its batch still stands together, and every drain that comes back to it takes
\* all of it in hand,
InputTogether == \A l \in Pending : input[l] \subseteq BatchOf(l, Pending)
InputTaken    == \A d \in Msgs : status[d] = "pending" /\ pc[d] # "read" =>
                   \A l \in Pending : input[l] \subseteq IF pc[d] \in InBatch THEN batch[d] ELSE todo[d]

\* and it is settled as a whole.
InputHandled  == \A l \in processed : input[l] \subseteq processed

InOrderInv == CommitInOrder =>
  TodoOldest /\ StartedIsHead /\ InputTogether /\ InputTaken /\ InputHandled

\* Calm: what a turn was started with is in hand or processed.
InputInHand ==
  \A l \in Msgs : Started(l) =>
    /\ l \in input[l]
    /\ \/ input[l] \subseteq processed
       \/ \E d \in Msgs : /\ status[d] = "pending" /\ pc[d] \in InBatch
                          /\ lead[d] = l /\ batch[d] = input[l]

CalmInv == Calm => InputInHand /\ ProcessedWasPresented

\* Either way one turn at most is unsettled, and the transcript ends with it.
OneUnsettled == \A k, l \in Pending : Started(k) /\ Started(l) => k = l
LastIsOwn    == \A l \in Pending : /\ turn[l] = "completed" => last = l
                                   /\ turn[l] = "mute" => last = NoText
TextIsOwn    == \A d \in Msgs : status[d] = "pending" /\ pc[d] \in {"claimed", "sending", "wired"} =>
                  text[d] = lead[d]
ReminderOut  == \A d \in Msgs :
                  (/\ status[d] = "pending" /\ pc[d] \in {"finish", "mark"}
                   /\ lead[d] \in Reminder /\ turn[lead[d]] = "completed")
                    => sends[lead[d]] > 0 \/ lead[d] \in dead
AnswersInv == Orderly => /\ LastIsOwn /\ TextIsOwn /\ ReminderOut
                         /\ AnswersOwnTurn /\ ReminderDelivered /\ PresentedOnce

\* Calm and never crashed: an answer is sent once, while its batch is in hand.
Unsent ==
  \A d \in Msgs : status[d] = "pending" =>
    /\ pc[d] \in {"await", "reply", "prompt"} => lead[d] \notin sentLog /\ sends[lead[d]] = 0
    /\ (pc[d] \in {"finish", "mark"} /\ turn[lead[d]] = "completed" /\ lead[d] \notin Reminder)
         => sends[lead[d]] = 1
AnsweredOnce == \A m \in processed \ Reminder : turn[m] = "completed" => sends[m] = 1
SentInv == Calm /\ crashes = 0 => Unsent /\ AnsweredOnce

OrderInv == RowsInv /\ InOrderInv /\ CalmInv /\ AnswersInv /\ SentInv

-----------------------------------------------------------------------------
(* What a step can do, in the classes the proofs distinguish.              *)

enqueueing == <<enq, seq>>
inHand     == <<todo, lead, batch>>

\* A step of a drain inside its batch, or the step that ends it.
Within(d) ==
  /\ d \in live
  /\ UNCHANGED <<inHand, processed, input>>
  /\ \A l \in Msgs : Started(l)' <=> Started(l)
  /\ IF status'[d] = "pending" THEN pc[d] \in InBatch /\ pc'[d] \in InBatch
                               ELSE pc[d] \in InBatch => ~Calm'

\* A step of a drain is its own: no other drain, no row and no route changes.
LEMMA DrainAlone ==
  ASSUME TypeOK, NEW d \in Msgs, Advance(d) \/ Fault(d)
  PROVE  /\ \A e \in Msgs \ {d} : /\ status'[e] = status[e] /\ pc'[e] = pc[e]
                                  /\ todo'[e] = todo[e] /\ lead'[e] = lead[e]
                                  /\ batch'[e] = batch[e] /\ text'[e] = text[e]
         /\ UNCHANGED <<enqueueing, routable, crashes>>
<1> USE DEF TypeOK, At, Goto, Throw, inbox, drain, turns, outbox, budget, enqueueing
<1>1. CASE StartDrain(d) \/ ReadPending(d) \/ FinishDrain(d) \/ QuietWait(d)
  BY <1>1 DEF StartDrain, ReadPending, FinishDrain, QuietWait
<1>2. CASE CallTurn(d)
  BY <1>2 DEF CallTurn
<1>3. CASE (\E o \in {"completed", "mute", "parked"} : TurnReturns(d, o)) \/ GetResult(d)
           \/ RethrowTurn(d) \/ SendPrompts(d) \/ MarkProcessed(d)
  BY <1>3 DEF TurnReturns, GetResult, RethrowTurn, SendPrompts, MarkProcessed
<1>4. CASE SkipReply(d) \/ ClaimReply(d) \/ CheckReply(d) \/ SendReply(d) \/ LogReply(d)
  BY <1>4 DEF SkipReply, ClaimReply, CheckReply, SendReply, LogReply
<1>5. CASE DeadLetter(d) \/ RejectReply(d) \/ FinishReply(d) \/ ResumeDrain(d)
  BY <1>5 DEF DeadLetter, RejectReply, FinishReply, ResumeDrain
<1>6. CASE Fault(d)
  BY <1>6 DEF Fault, TurnThrows, SendThrows, DbThrows
<1> QED
  BY <1>1, <1>2, <1>3, <1>4, <1>5, <1>6 DEF Advance

\* The steps of a drain, by what they do to the batch in hand.
LEMMA DrainStep ==
  ASSUME TypeOK, ErrorsCount, NEW d \in Msgs, Advance(d) \/ Fault(d)
  PROVE  \/ StartDrain(d) \/ ResumeDrain(d) \/ ReadPending(d) \/ QuietWait(d)
         \/ CallTurn(d) \/ MarkProcessed(d)
         \/ Within(d)
<1> USE DEF TypeOK, At, Goto, drain, turns, outbox, budget, inHand, InBatch, InSendReply, Started
<1>1. CASE \E o \in {"completed", "mute", "parked"} : TurnReturns(d, o)
  BY <1>1 DEF TurnReturns, Within
<1>2. CASE GetResult(d) \/ SendPrompts(d) \/ SkipReply(d) \/ ClaimReply(d) \/ CheckReply(d)
  BY <1>2 DEF GetResult, SendPrompts, SkipReply, ClaimReply, CheckReply, Within
<1>3. CASE SendReply(d) \/ LogReply(d) \/ DeadLetter(d) \/ FinishReply(d)
  BY <1>3 DEF SendReply, LogReply, DeadLetter, FinishReply, Within
<1>4. CASE FinishDrain(d)
  BY <1>4 DEF FinishDrain, Within
<1>5. CASE RethrowTurn(d) \/ RejectReply(d)
  BY <1>5 DEF RethrowTurn, RejectReply, Throw, Within, Calm, ErrorsCount
<1>6. CASE TurnThrows(d)
  BY <1>6 DEF TurnThrows, Within
<1>7. CASE SendThrows(d)
  BY <1>7 DEF SendThrows, Throw, MayThrow, Within, Calm
<1>8. CASE DbThrows(d)
  BY <1>8 DEF DbThrows, Throw, MayThrow, Within, Calm
<1> QED
  BY <1>1, <1>2, <1>3, <1>4, <1>5, <1>6, <1>7, <1>8 DEF Advance, Fault

\* Everything that is no drain's step: enqueues, crashes and launches.
Outside == (\E m \in Msgs : Arrive(m) \/ Enqueue(m)) \/ Crash \/ Launch \/ UNCHANGED vars

\* They leave what the drains have in hand, and what became of it.
LEMMA OutsideKeeps ==
  ASSUME TypeOK, Outside
  PROVE  /\ UNCHANGED <<inHand, processed, text, turns, outbox, routable, fails>>
         /\ \A e \in Msgs : status'[e] = "pending" <=> status[e] = "pending"
         /\ \A e \in Msgs : status[e] = "pending" =>
              \/ pc'[e] = pc[e]
              \/ pc[e] \in InSendReply /\ pc'[e] = "reply" /\ crashes' # 0
         /\ crashes' = 0 => crashes = 0
<1> USE DEF TypeOK, inHand, drain, turns, outbox, budget
<1>1. CASE \E m \in Msgs : Arrive(m) \/ TakeSeq(m) \/ CommitInsert(m) \/ ResumeEnqueue(m)
  BY <1>1 DEF Arrive, TakeSeq, CommitInsert, ResumeEnqueue
<1>2. CASE \E m \in Msgs : EnqueueDrain(m)
  BY <1>2 DEF EnqueueDrain
<1>3. CASE Crash
  BY <1>3 DEF Crash
<1>4. CASE Launch \/ UNCHANGED vars
  BY <1>4 DEF Launch, vars
<1> QED
  BY <1>1, <1>2, <1>3, <1>4 DEF Outside, Enqueue

\* A step is a drain's or it is not.
LEMMA StepSplit ==
  [Next]_vars => Outside \/ \E d \in Msgs : Advance(d) \/ Fault(d)
  BY DEF Next, Outside

-----------------------------------------------------------------------------
(* The rows of the inbox, the turns they had and how those ended.          *)

SeqInv == SeqTaken /\ SeqDistinct /\ NoOverlap

\* Serials: taken fresh, lost with an uncommitted insert, never exchanged.
LEMMA NextSeq == TypeOK /\ SeqInv /\ [Next]_vars => SeqInv'
<1> SUFFICES ASSUME TypeOK, SeqInv, [Next]_vars PROVE SeqInv'
  OBVIOUS
<1> USE DEF TypeOK, SeqInv, SeqTaken, SeqDistinct, NoOverlap, EnqStates
<1>1. CASE \E d \in Msgs : Advance(d) \/ Fault(d)
  BY <1>1, DrainAlone DEF enqueueing
<1>2. CASE \E m \in Msgs : Arrive(m) \/ CommitInsert(m) \/ EnqueueDrain(m) \/ ResumeEnqueue(m)
  BY <1>2 DEF Arrive, CommitInsert, EnqueueDrain, ResumeEnqueue
<1>3. ASSUME NEW m \in Msgs, TakeSeq(m) PROVE SeqInv'
  <2>1. PICK n \in 1 .. Cardinality(Msgs) : Fresh(n) /\ seq' = [seq EXCEPT ![m] = n]
    BY <1>3 DEF TakeSeq
  <2>0. n \in Nat \ {0}
    OBVIOUS
  <2>2. /\ \A k \in Msgs : seq[k] < n
        /\ seq'[m] = n /\ \A k \in Msgs \ {m} : seq'[k] = seq[k]
    BY <2>1 DEF Fresh
  <2>3. /\ enq'[m] = IF CommitInOrder THEN "inserted" ELSE "inserting"
        /\ \A k \in Msgs \ {m} : enq'[k] = enq[k]
    BY <1>3 DEF TakeSeq
  <2>4. enq[m] = "started" /\ seq[m] = 0
    BY <1>3 DEF TakeSeq
  <2>5. SeqTaken' /\ NoOverlap'
    BY <2>0, <2>2, <2>3, <2>4
  <2>6. SeqDistinct'
    BY <2>0, <2>2
  <2> QED
    BY <2>5, <2>6
<1>4. CASE Crash
  <2>1. /\ enq' = [m \in Msgs |-> IF enq[m] = "inserting" THEN "started" ELSE enq[m]]
        /\ seq' = [m \in Msgs |-> IF enq[m] = "inserting" THEN 0 ELSE seq[m]]
    BY <1>4 DEF Crash
  <2> QED
    BY <2>1
<1>5. CASE Launch \/ UNCHANGED vars
  BY <1>5 DEF Launch, vars, inbox
<1> QED
  BY <1>1, <1>2, <1>3, <1>4, <1>5 DEF Next, Enqueue

\* A visible row stays visible, under its serial; in order, a row becomes
\* visible behind every other.
LEMMA VisibleKept ==
  ASSUME TypeOK, SeqInv, [Next]_vars
  PROVE  /\ Visible \subseteq Visible'
         /\ \A m \in Visible : seq'[m] = seq[m]
         /\ CommitInOrder => \A m \in Visible' \ Visible, k \in Visible : seq[k] < seq'[m]
<1> USE DEF TypeOK, SeqInv, SeqTaken, NoOverlap, EnqStates, Visible
<1>1. CASE \E d \in Msgs : Advance(d) \/ Fault(d)
  BY <1>1, DrainAlone DEF enqueueing
<1>2. CASE \E m \in Msgs : Arrive(m) \/ CommitInsert(m) \/ EnqueueDrain(m) \/ ResumeEnqueue(m)
  BY <1>2 DEF Arrive, CommitInsert, EnqueueDrain, ResumeEnqueue
<1>3. ASSUME NEW m \in Msgs, TakeSeq(m)
      PROVE  /\ Visible \subseteq Visible'
             /\ \A k \in Visible : seq'[k] = seq[k]
             /\ CommitInOrder => \A j \in Visible' \ Visible, k \in Visible : seq[k] < seq'[j]
  <2>1. PICK n \in 1 .. Cardinality(Msgs) : Fresh(n) /\ seq' = [seq EXCEPT ![m] = n]
    BY <1>3 DEF TakeSeq
  <2>2. seq'[m] = n /\ \A k \in Msgs \ {m} : seq'[k] = seq[k]
    BY <2>1
  <2>3. \A k \in Msgs : seq[k] < n
    BY <2>1 DEF Fresh
  <2>4. enq[m] = "started" /\ \A k \in Msgs \ {m} : enq'[k] = enq[k]
    BY <1>3 DEF TakeSeq
  <2> QED
    BY <2>2, <2>3, <2>4
<1>4. CASE Crash
  BY <1>4 DEF Crash
<1>5. CASE Launch \/ UNCHANGED vars
  BY <1>5 DEF Launch, vars, inbox
<1> QED
  BY <1>1, <1>2, <1>3, <1>4, <1>5 DEF Next, Enqueue

\* Only the drain that takes the step may be under way behind it.
LEMMA OnlyDrain ==
  ASSUME TypeOK, OneDrain, OneDrain', NEW d \in Msgs, Advance(d) \/ Fault(d)
  PROVE  \A e \in Msgs \ {d} : status'[e] # "pending"
<1>1. CASE StartDrain(d)
  BY <1>1 DEF StartDrain, TypeOK, OneDrain
<1>2. CASE status[d] = "pending"
  BY <1>2, DrainAlone DEF OneDrain
<1>3. status[d] = "pending" \/ StartDrain(d)
  BY DEF TypeOK, Advance, Fault, At, ReadPending, FinishDrain, QuietWait, CallTurn, TurnReturns,
     GetResult, RethrowTurn, SendPrompts, MarkProcessed, SkipReply, ClaimReply, CheckReply,
     SendReply, LogReply, DeadLetter, RejectReply, FinishReply, ResumeDrain, TurnThrows,
     SendThrows, DbThrows
<1> QED
  BY <1>1, <1>2, <1>3

\* A turn is started once, with a row that is at hand, and stays started.
LEMMA StartedStays ==
  ASSUME TypeOK, RefInv, ErrorsCount, NEW d \in Msgs, Advance(d) \/ Fault(d)
  PROVE  /\ \A l \in Msgs : Started(l) => Started(l)'
         /\ \A l \in Msgs : Started(l)' => Started(l) \/ l \in todo[d] \cap Pending
         /\ \A l \in Msgs : input'[l] # input[l] => Started(l)' /\ ~Started(l)
<1>1. CASE CallTurn(d)
  <2>1. PICK l \in Heads(todo[d]) :
          IF turn[l] = "none"
          THEN /\ turn' = [turn EXCEPT ![l] = "running"]
               /\ input' = [input EXCEPT ![l] = BatchOf(l, todo[d])]
          ELSE UNCHANGED <<turn, input>>
    BY <1>1 DEF CallTurn
  <2>2. l \in Msgs /\ l \in todo[d] \cap Pending
    BY <1>1 DEF Heads, TypeOK, RefInv, TodoOpen, CallTurn, At
  <2> QED
    BY <2>1, <2>2 DEF TypeOK, Started
<1>2. CASE Within(d)
  BY <1>2 DEF Within
<1>3. CASE StartDrain(d) \/ ResumeDrain(d) \/ ReadPending(d) \/ QuietWait(d) \/ MarkProcessed(d)
  BY <1>3 DEF StartDrain, ResumeDrain, ReadPending, QuietWait, MarkProcessed, turns, Started
<1> QED
  BY <1>1, <1>2, <1>3, DrainStep

\* Marks and turns are of visible rows.
LEMMA NextSeen ==
  ASSUME TypeOK, RefInv, SeqInv, ErrorsCount, TurnsSeen, [Next]_vars
  PROVE  TurnsSeen'
<1>1. Visible \subseteq Visible'
  BY VisibleKept
<1>2. CASE Outside
  BY <1>1, <1>2, OutsideKeeps DEF TurnsSeen, Started, turns
<1>3. ASSUME NEW d \in Msgs, Advance(d) \/ Fault(d) PROVE TurnsSeen'
  <2>1. \A l \in Msgs : Started(l)' => Started(l) \/ l \in Pending
    BY <1>3, StartedStays
  <2>2. CASE MarkProcessed(d)
    <3>1. processed' = processed \cup batch[d] /\ batch[d] \subseteq Pending
      BY <2>2 DEF MarkProcessed, At, TypeOK, RefInv, BatchOpen, InBatch
    <3> QED
      BY <1>1, <2>1, <3>1 DEF TurnsSeen, Pending
  <2>3. CASE UNCHANGED processed
    BY <1>1, <2>1, <2>3 DEF TurnsSeen, Pending
  <2>4. MarkProcessed(d) \/ UNCHANGED processed
    BY <1>3, DrainStep DEF StartDrain, ResumeDrain, ReadPending, QuietWait, CallTurn, Within
  <2> QED
    BY <2>2, <2>3, <2>4
<1> QED
  BY <1>2, <1>3, StepSplit

\* Where a message may leave or be logged, its batch's turn has ended.
LEMMA NextUntouched ==
  ASSUME TypeOK, RefInv, ErrorsCount, TurnDecided, Untouched, [Next]_vars
  PROVE  Untouched'
<1>1. CASE Outside
  BY <1>1, OutsideKeeps DEF Untouched, Started, turns, outbox
<1>2. ASSUME NEW d \in Msgs, Advance(d) \/ Fault(d) PROVE Untouched'
  <2>1. /\ \A l \in Msgs : Started(l) => Started(l)'
        /\ \A l \in Msgs : input'[l] # input[l] => Started(l)'
    BY <1>2, StartedStays
  <2>2. CASE UNCHANGED <<sentLog, sends>>
    BY <2>1, <2>2 DEF Untouched
  <2>3. CASE ClaimReply(d) \/ LogReply(d) \/ SendReply(d) \/ SendThrows(d)
    <3>1. (d \in live /\ pc[d] \in {"reply"} \cup InSendReply) \/ UNCHANGED <<sentLog, sends>>
      BY <2>3 DEF ClaimReply, LogReply, SendReply, SendThrows, At, InSendReply
    <3>2. Started(lead[d]) \/ UNCHANGED <<sentLog, sends>>
      BY <3>1 DEF TurnDecided, TypeOK, Started
    <3>3. \A l \in Msgs \ {lead[d]} : (l \in sentLog' <=> l \in sentLog) /\ sends'[l] = sends[l]
      BY <2>3 DEF ClaimReply, LogReply, SendReply, SendThrows, OnWire, TypeOK
    <3> QED
      BY <2>1, <2>2, <3>2, <3>3 DEF Untouched
  <2>4. \/ UNCHANGED <<sentLog, sends>>
        \/ ClaimReply(d) \/ LogReply(d) \/ SendReply(d) \/ SendThrows(d)
    BY <1>2 DEF Advance, Fault, outbox, StartDrain, ReadPending, FinishDrain, QuietWait, CallTurn,
       TurnReturns, GetResult, RethrowTurn, SendPrompts, MarkProcessed, SkipReply, CheckReply,
       DeadLetter, RejectReply, FinishReply, ResumeDrain, TurnThrows, DbThrows
  <2> QED
    BY <2>2, <2>3, <2>4
<1> QED
  BY <1>1, <1>2, StepSplit

\* A drain leaves the wait with the turn's outcome, and outcomes are final.
LEMMA NextDecided ==
  ASSUME TypeOK, ClaimInv, RefInv, OneDrain', TurnDecided, [Next]_vars
  PROVE  TurnDecided'
<1>1. CASE Outside
  BY <1>1, OutsideKeeps DEF TurnDecided, Started, turns, inHand, InSendReply
<1>2. ASSUME NEW d \in Msgs, Advance(d) \/ Fault(d) PROVE TurnDecided'
  <2> USE DEF TypeOK, At, Goto, drain, turns, InSendReply, Started
  <2>0. /\ \A e \in Msgs \ {d} : status'[e] # "pending"
        /\ d \in live => status[d] = "pending"
    BY <1>2, OnlyDrain DEF RefInv
  <2>1. CASE StartDrain(d)
    BY <2>0, <2>1 DEF StartDrain, TurnDecided, ClaimInv, NotStarted
  <2>2. CASE ReadPending(d) \/ QuietWait(d) \/ MarkProcessed(d)
    <3>1. pc'[d] \in {"read", "quiet", "batches"}
      BY <2>2 DEF ReadPending, QuietWait, MarkProcessed
    <3> QED
      BY <2>0, <3>1 DEF TurnDecided
  <2>3. CASE CallTurn(d)
    <3>1. pc'[d] = "await" /\ turn'[lead'[d]] # "none"
      BY <2>3 DEF CallTurn, Heads
    <3> QED
      BY <2>0, <3>1 DEF TurnDecided
  <2>4. CASE TurnThrows(d) \/ \E o \in {"completed", "mute", "parked"} : TurnReturns(d, o)
    <3>1. pc'[d] = "await" /\ lead'[d] = lead[d] /\ turn'[lead[d]] # "none"
      BY <2>4 DEF TurnThrows, TurnReturns
    <3> QED
      BY <2>0, <3>1 DEF TurnDecided
  <2>5. CASE GetResult(d) \/ SendPrompts(d) \/ SkipReply(d) \/ FinishReply(d) \/ ClaimReply(d)
             \/ CheckReply(d) \/ SendReply(d) \/ LogReply(d) \/ DeadLetter(d)
    <3>1. UNCHANGED <<lead, turn, status>> /\ d \in live
      BY <2>5 DEF GetResult, SendPrompts, SkipReply, FinishReply, ClaimReply, CheckReply,
         SendReply, LogReply, DeadLetter
    <3>2. \/ pc[d] = "await" /\ pc'[d] = "reply" /\ turn[lead[d]] \in {"completed", "mute"}
          \/ pc[d] = "await" /\ pc'[d] = "prompt" /\ turn[lead[d]] = "parked"
          \/ pc[d] = "prompt" /\ pc'[d] = "mark"
          \/ pc[d] \in {"reply"} \cup InSendReply /\ pc'[d] \in InSendReply \cup {"mark"}
      BY <2>5 DEF GetResult, SendPrompts, SkipReply, FinishReply, ClaimReply, CheckReply,
         SendReply, LogReply, DeadLetter
    <3> QED
      BY <2>0, <3>1, <3>2 DEF TurnDecided
  <2>6. CASE ResumeDrain(d)
    BY <2>6 DEF ResumeDrain, TurnDecided
  <2>7. CASE FinishDrain(d) \/ RethrowTurn(d) \/ RejectReply(d) \/ SendThrows(d) \/ DbThrows(d)
    <3>1. status'[d] # "pending"
      BY <2>7 DEF FinishDrain, RethrowTurn, RejectReply, SendThrows, DbThrows, Throw
    <3> QED
      BY <2>0, <3>1 DEF TurnDecided
  <2> QED
    BY <1>2, <2>1, <2>2, <2>3, <2>4, <2>5, <2>6, <2>7 DEF Advance, Fault
<1> QED
  BY <1>1, <1>2, StepSplit

\* A turn ends in an error only by a throw, and throws are counted.
LEMMA NextErrors ==
  ASSUME TypeOK, ErrorsCount, [Next]_vars
  PROVE  ErrorsCount' /\ (Calm' => Calm)
<1> USE DEF ErrorsCount, Calm, TypeOK, budget
<1>1. CASE Outside
  BY <1>1, OutsideKeeps DEF turns
<1>2. ASSUME NEW d \in Msgs, Advance(d) \/ Fault(d) PROVE ErrorsCount' /\ (Calm' => Calm)
  <2>1. CASE Fault(d)
    BY <2>1 DEF Fault, TurnThrows, SendThrows, DbThrows, MayThrow
  <2>2. CASE CallTurn(d)
    BY <2>2 DEF CallTurn, Heads
  <2>3. CASE \E o \in {"completed", "mute", "parked"} : TurnReturns(d, o)
    BY <2>3 DEF TurnReturns
  <2>4. CASE UNCHANGED <<turn, routable, fails>>
    BY <2>4
  <2>5. \/ Fault(d) \/ CallTurn(d) \/ UNCHANGED <<turn, routable, fails>>
        \/ \E o \in {"completed", "mute", "parked"} : TurnReturns(d, o)
    BY <1>2 DEF Advance, StartDrain, ReadPending, FinishDrain, QuietWait, turns,
       GetResult, RethrowTurn, SendPrompts, MarkProcessed, SkipReply, ClaimReply, CheckReply,
       SendReply, LogReply, DeadLetter, RejectReply, FinishReply, ResumeDrain
  <2> QED
    BY <2>1, <2>2, <2>3, <2>4, <2>5
<1> QED
  BY <1>1, <1>2, StepSplit

\* The batch behind a lead: the lead, and messages of members.
LEMMA BatchShape ==
  ASSUME TypeOK, SeqInv, NEW S \in SUBSET Visible, NEW l \in Heads(S)
  PROVE  /\ l \in BatchOf(l, S) /\ BatchOf(l, S) \subseteq S
         /\ BatchOf(l, S) \subseteq Human \cup {l}
<1>1. l \in S /\ \A m \in S : m \in Msgs /\ seq[m] \in Nat \ {0}
  BY DEF Heads, Visible, TypeOK, SeqInv, SeqTaken
<1>2. l \in BatchOf(l, S) /\ BatchOf(l, S) \subseteq S
  BY <1>1 DEF BatchOf, Heads
<1>3. ASSUME NEW m \in BatchOf(l, S), m # l PROVE m \in Human
  <2>1. m \in S /\ seq[l] <= seq[m] /\ seq[l] # seq[m]
    BY <1>1, <1>3 DEF BatchOf, SeqInv, SeqDistinct
  <2>2. seq[l] < seq[m]
    BY <1>1, <2>1
  <2> QED
    BY <1>1, <2>1, <2>2 DEF BatchOf, Merges
<1> QED
  BY <1>2, <1>3

\* A batch is cut by Merges, which only joins messages of members.
LEMMA NextMates ==
  ASSUME TypeOK, ClaimInv, RefInv, OneDrain', SeqInv, ErrorsCount, BatchMates, [Next]_vars
  PROVE  BatchMates'
<1>1. CASE Outside
  BY <1>1, OutsideKeeps DEF BatchMates, inHand, InBatch
<1>2. ASSUME NEW d \in Msgs, Advance(d) \/ Fault(d) PROVE BatchMates'
  <2> USE DEF TypeOK, At, Goto, InBatch, InSendReply
  <2>0. \A e \in Msgs \ {d} : status'[e] # "pending"
    BY <1>2, OnlyDrain DEF RefInv
  <2>1. CASE StartDrain(d)
    BY <2>0, <2>1 DEF StartDrain, BatchMates, ClaimInv, NotStarted
  <2>2. CASE ResumeDrain(d)
    BY <2>2 DEF ResumeDrain, BatchMates
  <2>3. CASE ReadPending(d) \/ QuietWait(d) \/ MarkProcessed(d)
    <3>1. pc'[d] \in {"read", "quiet", "batches"}
      BY <2>3 DEF ReadPending, QuietWait, MarkProcessed
    <3> QED
      BY <2>0, <3>1 DEF BatchMates
  <2>4. CASE CallTurn(d)
    <3>1. PICK l \in Heads(todo[d]) : /\ lead' = [lead EXCEPT ![d] = l]
                                      /\ batch' = [batch EXCEPT ![d] = BatchOf(l, todo[d])]
      BY <2>4 DEF CallTurn
    <3>2. BatchOf(l, todo[d]) \subseteq Human \cup {l}
      BY <2>4, BatchShape DEF CallTurn, RefInv, TodoOpen, Pending
    <3> QED
      BY <2>0, <2>4, <3>1, <3>2 DEF BatchMates
  <2>5. CASE Within(d)
    BY <2>0, <2>5 DEF Within, BatchMates, inHand
  <2> QED
    BY <1>2, <2>1, <2>2, <2>3, <2>4, <2>5, DrainStep
<1> QED
  BY <1>1, <1>2, StepSplit

\* An at-least-once key is logged behind its send.
LEMMA NextLog ==
  ASSUME TypeOK, ClaimInv, RefInv, LogBehind, [Next]_vars
  PROVE  LogBehind'
<1>1. CASE Outside
  BY <1>1, OutsideKeeps DEF LogBehind, outbox
<1>2. ASSUME NEW d \in Msgs, Advance(d) \/ Fault(d) PROVE LogBehind'
  <2> USE DEF TypeOK, At, LogBehind, outbox
  <2>1. CASE ClaimReply(d)
    BY <2>1 DEF ClaimReply, AtLeastOnce
  <2>2. CASE LogReply(d)
    BY <2>2 DEF LogReply, RefInv, RepeatsOpen
  <2>3. CASE SendReply(d) \/ SendThrows(d)
    <3>1. sentLog' = sentLog /\ \A m \in Msgs : sends[m] > 0 => sends'[m] > 0
      BY <2>3 DEF SendReply, SendThrows, OnWire
    <3> QED
      BY <3>1
  <2>4. CASE UNCHANGED <<sentLog, sends>>
    BY <2>4
  <2>5. \/ UNCHANGED <<sentLog, sends>>
        \/ ClaimReply(d) \/ LogReply(d) \/ SendReply(d) \/ SendThrows(d)
    BY <1>2 DEF Advance, Fault, StartDrain, ReadPending, FinishDrain, QuietWait, CallTurn,
       TurnReturns, GetResult, RethrowTurn, SendPrompts, MarkProcessed, SkipReply, CheckReply,
       DeadLetter, RejectReply, FinishReply, ResumeDrain, TurnThrows, DbThrows
  <2> QED
    BY <2>1, <2>2, <2>3, <2>4, <2>5
<1> QED
  BY <1>1, <1>2, StepSplit

LEMMA InitRows == Init => RowsInv
  BY DEF Init, RowsInv, SeqTaken, SeqDistinct, NoOverlap, TurnsSeen, Untouched, TurnDecided,
     ErrorsCount, BatchMates, LogBehind, Started, Visible, InSendReply

\* Every step keeps what is known of the rows and their turns.
LEMMA NextRows == TypeOK /\ ClaimInv /\ RefInv /\ RefInv' /\ RowsInv /\ [Next]_vars => RowsInv'
<1> SUFFICES ASSUME TypeOK, ClaimInv, RefInv, RefInv', RowsInv, [Next]_vars PROVE RowsInv'
  OBVIOUS
<1>1. SeqInv /\ OneDrain' /\ TurnsSeen /\ Untouched /\ TurnDecided /\ ErrorsCount
      /\ BatchMates /\ LogBehind
  BY DEF RowsInv, SeqInv, RefInv
<1>2. SeqInv' /\ TurnsSeen' /\ Untouched' /\ TurnDecided' /\ ErrorsCount' /\ BatchMates'
      /\ LogBehind'
  BY <1>1, NextSeq, NextSeen, NextUntouched, NextDecided, NextErrors, NextMates, NextLog
<1> QED
  BY <1>2 DEF RowsInv, SeqInv

-----------------------------------------------------------------------------
(* In order: every drain works on the oldest rows, batch by batch.         *)

\* The three steps that move the batch in hand, and all others.
LEMMA InOrderRead ==
  ASSUME TypeOK, RefInv, OneDrain', RowsInv, CommitInOrder, InOrderInv, [Next]_vars,
         NEW d \in Msgs, ReadPending(d) \/ QuietWait(d)
  PROVE  InOrderInv'
<1> USE DEF TypeOK, InBatch, InSendReply
<1>1. /\ todo'[d] = Pending /\ pc'[d] \in {"quiet", "batches"}
      /\ UNCHANGED <<processed, enq, seq, input, turn>>
  BY DEF ReadPending, QuietWait, Goto, inbox, turns
<1>2. Pending' = Pending /\ \A S : Heads(S)' = Heads(S) /\ \A l : BatchOf(l, S)' = BatchOf(l, S)
  BY <1>1 DEF Pending, Visible, Heads, BatchOf, Merges
<1>3. \A e \in Msgs \ {d} : status'[e] # "pending"
  BY OnlyDrain DEF RefInv, Advance
<1>4. TodoOldest'
  BY <1>1, <1>2, <1>3 DEF TodoOldest, InHand
<1>5. InputTaken'
  <2>1. \A l \in Pending : input[l] \subseteq Pending
    BY DEF InOrderInv, InputTogether, BatchOf
  <2> QED
    BY <1>1, <1>2, <1>3, <2>1 DEF InputTaken
<1>6. StartedIsHead' /\ InputTogether' /\ InputHandled'
  BY <1>1, <1>2 DEF InOrderInv, StartedIsHead, InputTogether, InputHandled, Started
<1> QED
  BY <1>4, <1>5, <1>6 DEF InOrderInv

LEMMA InOrderMark ==
  ASSUME TypeOK, RefInv, OneDrain', RowsInv, CommitInOrder, InOrderInv, [Next]_vars,
         NEW d \in Msgs, MarkProcessed(d)
  PROVE  InOrderInv'
<1> USE DEF TypeOK, InBatch, InSendReply
<1>1. /\ status[d] = "pending" /\ pc[d] = "mark"
      /\ pc'[d] \in {"read", "batches"} /\ pc'[d] = "batches" => todo[d] # {}
      /\ processed' = processed \cup batch[d]
      /\ UNCHANGED <<enq, seq, input, turn, todo>>
  BY DEF MarkProcessed, At, Goto, inbox, turns
<1>2. /\ Pending' = Pending \ batch[d]
      /\ \A S : Heads(S)' = Heads(S) /\ \A l : BatchOf(l, S)' = BatchOf(l, S)
  BY <1>1 DEF Pending, Visible, Heads, BatchOf, Merges
<1>3. \A e \in Msgs \ {d} : status'[e] # "pending"
  BY OnlyDrain DEF RefInv, Advance
<1>4. lead[d] \in batch[d] /\ batch[d] \subseteq Pending /\ Started(lead[d])
  BY <1>1 DEF RefInv, BatchOpen, RowsInv, TurnDecided, Started
<1>5. \A l \in Pending : Started(l) => l = lead[d]
  BY <1>4 DEF InOrderInv, StartedIsHead, Heads, RowsInv, SeqDistinct, SeqTaken, Pending, Visible
<1>6. \A l \in Pending' : ~Started(l)' /\ input'[l] = {}
  BY <1>1, <1>2, <1>4, <1>5 DEF RowsInv, Untouched, Pending, Visible, Started
<1>7. TodoOldest'
  BY <1>1, <1>2, <1>3 DEF TodoOldest, InHand, InOrderInv
<1>8. StartedIsHead' /\ InputTogether' /\ InputTaken'
  BY <1>6 DEF StartedIsHead, InputTogether, InputTaken
<1>9. InputHandled'
  <2>1. input[lead[d]] \subseteq batch[d]
    BY <1>1, <1>4 DEF InOrderInv, InputTaken
  <2>2. \A l \in batch[d] : input[l] \subseteq batch[d]
    BY <1>4, <1>5, <2>1 DEF RowsInv, Untouched, Pending, Visible
  <2> QED
    BY <1>1, <2>2 DEF InOrderInv, InputHandled
<1> QED
  BY <1>7, <1>8, <1>9 DEF InOrderInv

\* The head of the oldest part is the head of all that is pending.
LEMMA HeadOfAll ==
  ASSUME TypeOK, SeqInv, NEW S \in SUBSET Pending, NEW l \in Heads(S),
         \A t \in S, k \in Pending : seq[k] < seq[t] => k \in S
  PROVE  /\ l \in Heads(Pending) /\ \A k \in Heads(Pending) : k = l
         /\ BatchOf(l, S) = BatchOf(l, Pending) \cap S
<1>1. l \in S /\ \A k \in Pending : k \in Msgs /\ seq[k] \in Nat \ {0}
  BY DEF Heads, Pending, Visible, TypeOK, SeqInv, SeqTaken
<1>2. \A k \in Pending : seq[l] <= seq[k]
  BY <1>1 DEF Heads
<1>3. ASSUME NEW k \in Heads(Pending) PROVE k = l
  <2>1. seq[k] <= seq[l] /\ seq[l] <= seq[k]
    BY <1>1, <1>2 DEF Heads
  <2>2. seq[k] = seq[l]
    BY <1>1, <2>1 DEF Heads
  <2> QED
    BY <1>1, <2>2 DEF Heads, SeqInv, SeqDistinct
<1>4. ASSUME NEW m \in BatchOf(l, S) PROVE m \in BatchOf(l, Pending)
  <2>1. m \in S /\ seq[l] <= seq[m]
    BY DEF BatchOf
  <2>2. ASSUME NEW k \in Pending, seq[l] < seq[k], seq[k] <= seq[m] PROVE k \in S
    <3>1. seq[k] < seq[m] \/ k = m
      BY <1>1, <2>1, <2>2 DEF SeqInv, SeqDistinct
    <3> QED
      BY <2>1, <3>1
  <2> QED
    BY <2>1, <2>2 DEF BatchOf
<1>5. BatchOf(l, Pending) \cap S \subseteq BatchOf(l, S)
  BY DEF BatchOf
<1>6. BatchOf(l, S) \subseteq S
  BY DEF BatchOf
<1> QED
  BY <1>1, <1>2, <1>3, <1>4, <1>5, <1>6 DEF Heads

\* The next batch is cut from the front, and is the one its turn was started
\* with or more.
LEMMA InOrderCall ==
  ASSUME TypeOK, RefInv, OneDrain', RowsInv, RowsInv', CommitInOrder, InOrderInv, [Next]_vars,
         NEW d \in Msgs, CallTurn(d)
  PROVE  InOrderInv'
<1> USE DEF TypeOK, InBatch, InSendReply
<1>1. PICK l \in Heads(todo[d]) :
        /\ lead' = [lead EXCEPT ![d] = l]
        /\ batch' = [batch EXCEPT ![d] = BatchOf(l, todo[d])]
        /\ todo' = [todo EXCEPT ![d] = @ \ BatchOf(l, todo[d])]
        /\ IF turn[l] = "none"
           THEN /\ turn' = [turn EXCEPT ![l] = "running"]
                /\ input' = [input EXCEPT ![l] = BatchOf(l, todo[d])]
           ELSE UNCHANGED <<turn, input>>
  BY DEF CallTurn
<1>2. /\ status[d] = "pending" /\ pc[d] = "batches" /\ pc'[d] = "await"
      /\ UNCHANGED <<processed, enq, seq>>
  BY DEF CallTurn, At, Goto, inbox
<1>3. /\ Pending' = Pending
      /\ \A S : Heads(S)' = Heads(S) /\ \A k : BatchOf(k, S)' = BatchOf(k, S)
  BY <1>2 DEF Pending, Visible, Heads, BatchOf, Merges
<1>4. \A e \in Msgs \ {d} : status'[e] # "pending"
  BY OnlyDrain DEF RefInv, Advance
<1>5. /\ todo[d] \subseteq Pending
      /\ \A t \in todo[d], k \in Pending : seq[k] < seq[t] => k \in todo[d]
  BY <1>2 DEF RefInv, TodoOpen, InOrderInv, TodoOldest, InHand
<1>6. /\ l \in Pending /\ l \in Heads(Pending) /\ \A k \in Heads(Pending) : k = l
      /\ BatchOf(l, todo[d]) = BatchOf(l, Pending) \cap todo[d]
  <2>1. SeqInv /\ todo[d] \in SUBSET Pending
    BY <1>5 DEF RowsInv, SeqInv
  <2>2. l \in Pending
    BY <1>5 DEF Heads
  <2> QED
    BY <1>5, <2>1, <2>2, HeadOfAll
<1>7. \A k \in Pending \ {l} : ~Started(k) /\ ~Started(k)' /\ input'[k] = {}
  <2>1. \A k \in Pending \ {l} : ~Started(k)
    BY <1>6 DEF InOrderInv, StartedIsHead
  <2> QED
    BY <1>1, <2>1 DEF RowsInv, Untouched, Started, Pending, Visible
<1>8. input'[l] \subseteq BatchOf(l, todo[d])
  <2>1. CASE turn[l] = "none"
    BY <1>1, <1>6, <2>1 DEF Pending, Visible
  <2>2. CASE turn[l] # "none"
    <3>1. input[l] \subseteq todo[d] /\ input[l] \subseteq BatchOf(l, Pending)
      BY <1>2, <1>6 DEF InOrderInv, InputTaken, InputTogether
    <3> QED
      BY <1>1, <1>6, <2>2, <3>1
  <2> QED
    BY <2>1, <2>2
<1>9. TodoOldest'
  <2>1. todo'[d] \subseteq todo[d] /\ todo[d] \subseteq InHand(d)'
    BY <1>1, <1>2 DEF InHand
  <2> QED
    BY <1>2, <1>3, <1>4, <1>5, <2>1 DEF TodoOldest
<1>10. StartedIsHead' /\ InputTogether'
  BY <1>3, <1>6, <1>7, <1>8 DEF StartedIsHead, InputTogether
<1>11. InputTaken'
  <2>1. batch'[d] = BatchOf(l, todo[d])
    BY <1>1
  <2> QED
    BY <1>2, <1>3, <1>4, <1>7, <1>8, <2>1 DEF InputTaken
<1>12. InputHandled'
  BY <1>1, <1>2, <1>6 DEF InOrderInv, InputHandled, Pending
<1> QED
  BY <1>9, <1>10, <1>11, <1>12 DEF InOrderInv

\* A row that becomes visible does so behind all that is pending.
LEMMA InOrderOutside ==
  ASSUME TypeOK, RefInv, RowsInv, CommitInOrder, InOrderInv, [Next]_vars, Outside
  PROVE  InOrderInv'
<1> USE DEF TypeOK
<1>1. /\ UNCHANGED <<inHand, processed, turns>>
      /\ \A e \in Msgs : status'[e] = "pending" <=> status[e] = "pending"
      /\ \A e \in Msgs : status[e] = "pending" =>
           (pc'[e] \in InBatch <=> pc[e] \in InBatch) /\ (pc'[e] = "read" <=> pc[e] = "read")
  BY OutsideKeeps DEF InBatch, InSendReply
<1>2. /\ Pending \subseteq Pending' /\ \A m \in Pending : seq'[m] = seq[m]
      /\ \A m \in Pending' \ Pending, k \in Pending : seq[k] < seq'[m]
  BY <1>1, VisibleKept DEF Pending, RowsInv, SeqInv
<1>3. \A m \in Pending' \ Pending : ~Started(m) /\ input[m] = {}
  BY <1>1 DEF RowsInv, TurnsSeen, Untouched, Pending, Visible
<1>4. \A k \in Pending : seq[k] \in Nat
  BY DEF Pending, Visible
<1>5. \A k \in Pending' : seq'[k] \in Nat
  BY NextType DEF Pending, Visible
<1>6. TodoOldest'
  <2> SUFFICES ASSUME NEW e \in Msgs, status'[e] = "pending", pc'[e] # "read",
                      NEW t \in todo'[e], NEW k \in Pending', seq'[k] < seq'[t]
               PROVE  k \in InHand(e)'
    BY DEF TodoOldest
  <2>1. status[e] = "pending" /\ pc[e] # "read" /\ t \in todo[e] /\ InHand(e)' = InHand(e)
    BY <1>1 DEF InHand, inHand
  <2>2. t \in Pending
    BY <2>1 DEF RefInv, TodoOpen
  <2>3. k \in Pending
    BY <1>2, <1>4, <1>5, <2>2
  <2> QED
    BY <1>2, <2>1, <2>2, <2>3 DEF InOrderInv, TodoOldest
<1>7. StartedIsHead'
  BY <1>1, <1>2, <1>3, <1>4, <1>5 DEF InOrderInv, StartedIsHead, Heads, Started, turns
<1>8. InputTogether'
  <2> SUFFICES ASSUME NEW l \in Pending', NEW m \in input'[l] PROVE m \in BatchOf(l, Pending)'
    BY DEF InputTogether
  <2>1. l \in Pending /\ m \in BatchOf(l, Pending) /\ m \in Pending
    BY <1>1, <1>3 DEF InOrderInv, InputTogether, turns, BatchOf
  <2>2. \A k \in Pending' : seq'[k] <= seq'[m] => k \in Pending
    BY <1>2, <1>4, <1>5, <2>1
  <2>3. \A k \in Pending : seq'[l] < seq'[k] /\ seq'[k] <= seq'[m] => Merges(l, k)
    BY <1>2, <2>1 DEF BatchOf
  <2> QED
    BY <1>2, <2>1, <2>2, <2>3 DEF BatchOf, Merges
<1>9. InputTaken'
  <2> SUFFICES ASSUME NEW e \in Msgs, status'[e] = "pending", pc'[e] # "read", NEW l \in Pending'
               PROVE  input'[l] \subseteq IF pc'[e] \in InBatch THEN batch'[e] ELSE todo'[e]
    BY DEF InputTaken
  <2> QED
    BY <1>1, <1>3 DEF InOrderInv, InputTaken, inHand, turns
<1>10. InputHandled'
  BY <1>1 DEF InOrderInv, InputHandled, turns
<1> QED
  BY <1>6, <1>7, <1>8, <1>9, <1>10 DEF InOrderInv

\* A drain that starts, resumes, goes on inside its batch or ends.
LEMMA InOrderGoOn ==
  ASSUME TypeOK, ClaimInv, RefInv, OneDrain', InOrderInv, CommitInOrder, [Next]_vars,
         NEW d \in Msgs, StartDrain(d) \/ ResumeDrain(d) \/ Within(d), Advance(d) \/ Fault(d)
  PROVE  InOrderInv'
<1> USE DEF TypeOK, inHand
<1>1. UNCHANGED <<enqueueing, inHand, processed, input>> /\ \A l \in Msgs : Started(l)' <=> Started(l)
  BY DrainAlone DEF StartDrain, ResumeDrain, Within, turns, Started
<1>2. \A e \in Msgs : status'[e] = "pending" /\ pc'[e] # "read" =>
        /\ status[e] = "pending" /\ pc[e] # "read"
        /\ pc'[e] \in InBatch <=> pc[e] \in InBatch
  <2>1. CASE StartDrain(d)
    BY <2>1 DEF StartDrain, ClaimInv, NotStarted
  <2>2. CASE ResumeDrain(d)
    BY <2>2 DEF ResumeDrain
  <2>3. CASE Within(d)
    BY <2>3, OnlyDrain DEF Within, RefInv, InBatch, InSendReply
  <2> QED
    BY <2>1, <2>2, <2>3
<1>3. /\ Pending' = Pending
      /\ \A S : Heads(S)' = Heads(S) /\ \A k : BatchOf(k, S)' = BatchOf(k, S)
  BY <1>1 DEF Pending, Visible, Heads, BatchOf, Merges, enqueueing
<1>4. TodoOldest'
  BY <1>1, <1>2, <1>3 DEF InOrderInv, TodoOldest, InHand, enqueueing
<1>5. InputTaken'
  BY <1>1, <1>2, <1>3 DEF InOrderInv, InputTaken
<1>6. StartedIsHead' /\ InputTogether' /\ InputHandled'
  BY <1>1, <1>3 DEF InOrderInv, StartedIsHead, InputTogether, InputHandled, Pending, Visible
<1> QED
  BY <1>4, <1>5, <1>6 DEF InOrderInv

LEMMA InitInOrder == Init => InOrderInv
  BY DEF Init, InOrderInv, TodoOldest, StartedIsHead, InputTogether, InputTaken, InputHandled,
     Pending, Visible

\* Every step keeps the order.
LEMMA NextInOrder ==
  TypeOK /\ ClaimInv /\ RefInv /\ RefInv' /\ RowsInv /\ RowsInv' /\ InOrderInv /\ [Next]_vars
    => InOrderInv'
<1> SUFFICES ASSUME TypeOK, ClaimInv, RefInv, RefInv', RowsInv, RowsInv', InOrderInv, [Next]_vars,
                    CommitInOrder
             PROVE  InOrderInv'
  BY DEF InOrderInv
<1>0. OneDrain' /\ ErrorsCount
  BY DEF RefInv, RowsInv
<1>1. CASE Outside
  BY <1>1, InOrderOutside
<1>2. ASSUME NEW d \in Msgs, Advance(d) \/ Fault(d) PROVE InOrderInv'
  <2>1. CASE ReadPending(d) \/ QuietWait(d)
    BY <1>0, <2>1, InOrderRead
  <2>2. CASE CallTurn(d)
    BY <1>0, <2>2, InOrderCall
  <2>3. CASE MarkProcessed(d)
    BY <1>0, <2>3, InOrderMark
  <2>4. CASE StartDrain(d) \/ ResumeDrain(d) \/ Within(d)
    BY <1>0, <1>2, <2>4, InOrderGoOn
  <2> QED
    BY <1>0, <1>2, <2>1, <2>2, <2>3, <2>4, DrainStep
<1> QED
  BY <1>1, <1>2, StepSplit

-----------------------------------------------------------------------------
(* Calm: nothing threw, so what a turn was started with is still in hand,  *)
(* or was marked as it was.                                                *)

\* A drain that cuts a batch finds no turn behind its lead.
LEMMA CalmIsFresh ==
  ASSUME TypeOK, RefInv, CalmInv, Calm, NEW d \in Msgs, CallTurn(d)
  PROVE  \A l \in todo[d] : turn[l] = "none"
<1>1. status[d] = "pending" /\ pc[d] = "batches" /\ todo[d] \subseteq Pending
  BY DEF CallTurn, At, TypeOK, RefInv, TodoOpen
<1>2. \A e \in Msgs : status[e] = "pending" => pc[e] \notin InBatch
  BY <1>1 DEF RefInv, OneDrain, InBatch, InSendReply
<1> QED
  BY <1>1, <1>2 DEF CalmInv, InputInHand, Started, Pending, Visible

\* Every step that throws nothing keeps the batch and its turn together.
LEMMA NextCalm ==
  TypeOK /\ ClaimInv /\ RefInv /\ OneDrain' /\ RowsInv /\ CalmInv /\ [Next]_vars => CalmInv'
<1> SUFFICES ASSUME TypeOK, ClaimInv, RefInv, OneDrain', RowsInv, CalmInv, [Next]_vars, Calm'
             PROVE  CalmInv'
  BY DEF CalmInv
<1> USE DEF TypeOK
<1>0. Calm /\ InputInHand /\ ProcessedWasPresented /\ ErrorsCount
  BY NextErrors DEF CalmInv, RowsInv
<1>1. CASE Outside
  <2>1. \A e \in Msgs : status[e] = "pending" /\ pc[e] \in InBatch
          => status'[e] = "pending" /\ pc'[e] \in InBatch
    BY <1>1, OutsideKeeps DEF InBatch, InSendReply
  <2>2. UNCHANGED <<inHand, processed, turns>>
    BY <1>1, OutsideKeeps
  <2>3. InputInHand'
    BY <1>0, <2>1, <2>2 DEF InputInHand, Started, inHand, turns
  <2>4. ProcessedWasPresented'
    BY <1>0, <2>2 DEF ProcessedWasPresented, turns
  <2> QED
    BY <2>3, <2>4 DEF CalmInv
<1>2. ASSUME NEW d \in Msgs, StartDrain(d) \/ ResumeDrain(d) \/ ReadPending(d) \/ QuietWait(d)
      PROVE  CalmInv'
  <2>1. UNCHANGED <<lead, batch, processed, turns>>
    BY <1>2 DEF StartDrain, ResumeDrain, ReadPending, QuietWait
  <2>2. \A e \in Msgs : status[e] = "pending" /\ pc[e] \in InBatch
          => status'[e] = "pending" /\ pc'[e] \in InBatch
    BY <1>2 DEF StartDrain, ResumeDrain, ReadPending, QuietWait, At, Goto, InBatch, InSendReply
  <2>3. InputInHand'
    BY <1>0, <2>1, <2>2 DEF InputInHand, Started, turns
  <2>4. ProcessedWasPresented'
    BY <1>0, <2>1 DEF ProcessedWasPresented, turns
  <2> QED
    BY <2>3, <2>4 DEF CalmInv
<1>3. ASSUME NEW d \in Msgs, CallTurn(d) PROVE CalmInv'
  <2>1. PICK l \in Heads(todo[d]) :
          /\ lead' = [lead EXCEPT ![d] = l]
          /\ batch' = [batch EXCEPT ![d] = BatchOf(l, todo[d])]
          /\ IF turn[l] = "none"
             THEN /\ turn' = [turn EXCEPT ![l] = "running"]
                  /\ input' = [input EXCEPT ![l] = BatchOf(l, todo[d])]
             ELSE UNCHANGED <<turn, input>>
    BY <1>3 DEF CallTurn
  <2>2. /\ status[d] = "pending" /\ status'[d] = "pending" /\ pc[d] = "batches" /\ pc'[d] = "await"
        /\ UNCHANGED processed
    BY <1>3 DEF CallTurn, At, Goto
  <2>3. turn[l] = "none" /\ l \in Msgs /\ todo[d] \subseteq Pending
    BY <1>0, <1>3, <2>1, <2>2, CalmIsFresh DEF Heads, RefInv, TodoOpen
  <2>4. l \in BatchOf(l, todo[d])
    BY <2>1, <2>3, BatchShape DEF RowsInv, SeqInv, Pending
  <2>5. \A k \in Msgs : Started(k) => k # l /\ k \in input[k] /\ input[k] \subseteq processed
    <3>1. \A e \in Msgs : status[e] = "pending" => pc[e] \notin InBatch
      BY <2>2 DEF RefInv, OneDrain, InBatch, InSendReply
    <3> QED
      BY <1>0, <2>3, <3>1 DEF InputInHand, Started
  <2>6. InputInHand'
    <3> SUFFICES ASSUME NEW k \in Msgs, Started(k)'
                 PROVE  /\ k \in input'[k]
                        /\ \/ input'[k] \subseteq processed'
                           \/ \E e \in Msgs : /\ status'[e] = "pending" /\ pc'[e] \in InBatch
                                              /\ lead'[e] = k /\ batch'[e] = input'[k]
      BY DEF InputInHand
    <3>1. CASE k = l
      BY <2>1, <2>2, <2>3, <2>4, <3>1 DEF InBatch
    <3>2. CASE k # l
      BY <2>1, <2>2, <2>3, <2>5, <3>2 DEF Started
    <3> QED
      BY <3>1, <3>2
  <2>7. ProcessedWasPresented'
    <3>1. \A m \in processed : \E k \in Msgs : k # l /\ m \in input[k]
      BY <1>0, <2>3, <2>5 DEF ProcessedWasPresented, RowsInv, Untouched, Started
    <3> QED
      BY <2>1, <2>2, <2>3, <3>1 DEF ProcessedWasPresented
  <2> QED
    BY <2>6, <2>7 DEF CalmInv
<1>4. ASSUME NEW d \in Msgs, MarkProcessed(d) PROVE CalmInv'
  <2>1. /\ status[d] = "pending" /\ pc[d] = "mark" /\ UNCHANGED turns
        /\ processed' = processed \cup batch[d]
    BY <1>4 DEF MarkProcessed, At
  <2>2. /\ lead[d] \in Msgs /\ Started(lead[d]) /\ lead[d] \in batch[d] /\ batch[d] \subseteq Pending
    BY <2>1 DEF RefInv, BatchOpen, InBatch, RowsInv, TurnDecided, Started
  <2>3. input[lead[d]] = batch[d]
    BY <1>0, <2>1, <2>2 DEF InputInHand, RefInv, OneDrain, Pending, Visible
  <2>4. \A k \in Msgs : Started(k) => k \in input[k] /\ input[k] \subseteq processed'
    BY <1>0, <2>1, <2>3 DEF InputInHand, RefInv, OneDrain
  <2>5. InputInHand'
    BY <2>1, <2>4 DEF InputInHand, Started, turns
  <2>6. ProcessedWasPresented'
    BY <1>0, <2>1, <2>2, <2>3 DEF ProcessedWasPresented, turns
  <2> QED
    BY <2>5, <2>6 DEF CalmInv
<1>5. ASSUME NEW d \in Msgs, Within(d), Advance(d) \/ Fault(d) PROVE CalmInv'
  <2>1. \A e \in Msgs : status[e] = "pending" /\ pc[e] \in InBatch
          => status'[e] = "pending" /\ pc'[e] \in InBatch
    BY <1>5, DrainAlone DEF Within
  <2>2. UNCHANGED <<inHand, processed, input>> /\ \A l \in Msgs : Started(l)' <=> Started(l)
    BY <1>5 DEF Within
  <2>3. InputInHand'
    BY <1>0, <2>1, <2>2 DEF InputInHand, inHand
  <2>4. ProcessedWasPresented'
    BY <1>0, <2>2 DEF ProcessedWasPresented
  <2> QED
    BY <2>3, <2>4 DEF CalmInv
<1> QED
  BY <1>0, <1>1, <1>2, <1>3, <1>4, <1>5, StepSplit, DrainStep

-----------------------------------------------------------------------------
(* Either way: one unsettled turn, so "the last assistant message" is its. *)

LaneInv == TypeOK /\ ClaimInv /\ RefInv /\ RowsInv /\ InOrderInv /\ CalmInv

\* Two turns are never unsettled at once.
LEMMA UnsettledIsOne ==
  ASSUME LaneInv, Orderly
  PROVE  OneUnsettled
<1> USE DEF LaneInv
<1>1. CASE CommitInOrder
  <2> SUFFICES ASSUME NEW k \in Pending, NEW l \in Pending, Started(k), Started(l) PROVE k = l
    BY DEF OneUnsettled
  <2>1. /\ k \in Msgs /\ l \in Msgs /\ seq[k] \in Nat \ {0} /\ seq[l] \in Nat
        /\ seq[k] <= seq[l] /\ seq[l] <= seq[k]
    BY <1>1 DEF InOrderInv, StartedIsHead, Heads, Pending, Visible, TypeOK, RowsInv, SeqTaken
  <2> QED
    BY <2>1 DEF RowsInv, SeqDistinct
<1>2. CASE Calm
  BY <1>2 DEF OneUnsettled, CalmInv, InputInHand, RefInv, OneDrain, Pending, Visible
<1> QED
  BY <1>1, <1>2 DEF Orderly

\* What a step does to the turns and the transcript.
LEMMA TurnStep ==
  ASSUME TypeOK, NEW d \in Msgs, Advance(d) \/ Fault(d)
  PROVE  \/ UNCHANGED <<turn, last>>
         \/ CallTurn(d)
         \/ TurnThrows(d)
         \/ \E o \in {"completed", "mute", "parked"} : TurnReturns(d, o)
  BY DEF Advance, Fault, turns, StartDrain, ReadPending, FinishDrain, QuietWait,
     GetResult, RethrowTurn, SendPrompts, MarkProcessed, SkipReply, ClaimReply, CheckReply,
     SendReply, LogReply, DeadLetter, RejectReply, FinishReply, ResumeDrain, SendThrows, DbThrows

\* What is pending and had a turn was pending before, and had one or is a lead.
LEMMA StartedWasPending ==
  ASSUME LaneInv, [Next]_vars, NEW l \in Pending', turn'[l] \in {"completed", "mute"}
  PROVE  l \in Pending /\ Started(l)
<1> USE DEF LaneInv, RowsInv
<1>1. CASE Outside
  BY <1>1, OutsideKeeps DEF Pending, Visible, Started, TurnsSeen, turns
<1>2. ASSUME NEW d \in Msgs, Advance(d) \/ Fault(d) PROVE l \in Pending /\ Started(l)
  <2>1. UNCHANGED enq
    BY <1>2, DrainAlone DEF enqueueing
  <2>2. processed \subseteq processed'
    BY <1>2, DrainStep DEF StartDrain, ResumeDrain, ReadPending, QuietWait, CallTurn,
       MarkProcessed, Within
  <2>3. l \in Pending
    BY <2>1, <2>2 DEF Pending, Visible
  <2>4. Started(l)
    <3>1. CASE CallTurn(d)
      BY <1>2, <2>3, <3>1 DEF CallTurn, Heads, Started, TypeOK, Pending, Visible
    <3>2. CASE TurnThrows(d) \/ \E o \in {"completed", "mute", "parked"} : TurnReturns(d, o)
      BY <2>3, <3>2 DEF TurnThrows, TurnReturns, Started, TypeOK, Pending, Visible
    <3>3. CASE UNCHANGED turn
      BY <3>3 DEF Started
    <3> QED
      BY <1>2, <3>1, <3>2, <3>3, TurnStep
  <2> QED
    BY <2>3, <2>4
<1> QED
  BY <1>1, <1>2, StepSplit

\* The transcript ends with the unsettled turn, when that has ended.
LEMMA NextLast ==
  ASSUME LaneInv, Orderly, LastIsOwn, [Next]_vars
  PROVE  LastIsOwn'
<1> SUFFICES ASSUME NEW l \in Pending', turn'[l] \in {"completed", "mute"}
             PROVE  /\ turn'[l] = "completed" => last' = l
                    /\ turn'[l] = "mute" => last' = NoText
  BY DEF LastIsOwn
<1>1. l \in Msgs /\ l \in Pending /\ Started(l)
  BY StartedWasPending DEF Pending, Visible
<1>2. CASE UNCHANGED <<turn, last>>
  BY <1>1, <1>2 DEF LastIsOwn
<1>3. ASSUME NEW d \in Msgs, CallTurn(d) PROVE UNCHANGED last /\ turn'[l] = turn[l]
  BY <1>1, <1>3 DEF CallTurn, Heads, Started, LaneInv, TypeOK
<1>4. ASSUME NEW d \in Msgs, NEW o \in {"completed", "mute", "parked"}, TurnReturns(d, o)
      PROVE  /\ turn'[l] = "completed" => last' = l
             /\ turn'[l] = "mute" => last' = NoText
  <2>1. /\ status[d] = "pending" /\ pc[d] = "await" /\ turn[lead[d]] = "running"
        /\ turn' = [turn EXCEPT ![lead[d]] = o]
        /\ last' = IF o = "mute" THEN NoText ELSE lead[d]
    BY <1>4 DEF TurnReturns, At, LaneInv, TypeOK
  <2>2. lead[d] \in Pending /\ Started(lead[d])
    BY <2>1 DEF LaneInv, RefInv, BatchOpen, InBatch, Started
  <2>3. l = lead[d]
    BY <1>1, <2>2, UnsettledIsOne DEF OneUnsettled
  <2> QED
    BY <2>1, <2>3 DEF LaneInv, TypeOK
<1>5. ASSUME NEW d \in Msgs, TurnThrows(d) PROVE FALSE
  <2>1. /\ status[d] = "pending" /\ pc[d] = "await" /\ turn[lead[d]] = "running"
        /\ turn' = [turn EXCEPT ![lead[d]] = "error"]
    BY <1>5 DEF TurnThrows, At, LaneInv, TypeOK
  <2>2. lead[d] \in Pending /\ Started(lead[d])
    BY <2>1 DEF LaneInv, RefInv, BatchOpen, InBatch, Started
  <2>3. l = lead[d]
    BY <1>1, <2>2, UnsettledIsOne DEF OneUnsettled
  <2> QED
    BY <2>1, <2>3 DEF LaneInv, TypeOK
<1>6. Outside => UNCHANGED <<turn, last>>
  BY OutsideKeeps DEF LaneInv, turns
<1> QED
  BY <1>1, <1>2, <1>3, <1>4, <1>5, <1>6, StepSplit, TurnStep DEF LaneInv, LastIsOwn

\* At the reply step the transcript ends with the batch's own answer, or with none.
LEMMA ReplyIsLeads ==
  ASSUME LaneInv, LastIsOwn, NEW d \in live, pc[d] = "reply"
  PROVE  /\ last # NoText => last = lead[d]
         /\ turn[lead[d]] = "completed" => last # NoText
<1>1. d \in Msgs /\ status[d] = "pending" /\ lead[d] \in Msgs
  BY DEF LaneInv, TypeOK
<1>2. lead[d] \in Pending /\ turn[lead[d]] \in {"completed", "mute"}
  BY <1>1 DEF LaneInv, RefInv, BatchOpen, InBatch, RowsInv, TurnDecided
<1> QED
  BY <1>1, <1>2, LaneConstants DEF LastIsOwn

\* The text a send holds is its lead's answer.
LEMMA NextText ==
  ASSUME LaneInv, OneDrain', LastIsOwn, TextIsOwn, [Next]_vars
  PROVE  TextIsOwn'
<1> USE DEF LaneInv
<1>1. CASE Outside
  BY <1>1, OutsideKeeps DEF TextIsOwn, inHand
<1>2. ASSUME NEW d \in Msgs, Advance(d) \/ Fault(d) PROVE TextIsOwn'
  <2> USE DEF TypeOK, At, Goto
  <2>0. \A e \in Msgs \ {d} : status'[e] # "pending"
    BY <1>2, OnlyDrain DEF RefInv
  <2>1. CASE ClaimReply(d) \/ CheckReply(d)
    <3>1. d \in live /\ pc[d] = "reply" /\ last # NoText /\ text'[d] = last /\ UNCHANGED lead
      BY <2>1 DEF ClaimReply, CheckReply
    <3> QED
      BY <2>0, <3>1, ReplyIsLeads DEF TextIsOwn
  <2>2. CASE SendReply(d)
    <3>1. /\ status[d] = "pending" /\ pc[d] \in {"claimed", "sending"}
          /\ UNCHANGED <<lead, text>>
      BY <2>2 DEF SendReply
    <3> QED
      BY <2>0, <3>1 DEF TextIsOwn
  <2>3. CASE pc'[d] \notin {"claimed", "sending", "wired"}
    BY <2>0, <2>3 DEF TextIsOwn
  <2>4. CASE UNCHANGED <<pc, lead, text, status>>
    BY <2>4 DEF TextIsOwn
  <2>5. CASE status'[d] # "pending"
    BY <2>0, <2>5 DEF TextIsOwn
  <2>6. CASE StartDrain(d)
    BY <2>0, <2>6 DEF StartDrain, TextIsOwn, ClaimInv, NotStarted
  <2>7. \/ StartDrain(d) \/ ClaimReply(d) \/ CheckReply(d) \/ SendReply(d)
        \/ pc'[d] \notin {"claimed", "sending", "wired"}
        \/ UNCHANGED <<pc, lead, text, status>>
        \/ status'[d] # "pending"
    <3>1. CASE FinishDrain(d) \/ RethrowTurn(d) \/ RejectReply(d) \/ SendThrows(d) \/ DbThrows(d)
      BY <3>1 DEF FinishDrain, RethrowTurn, RejectReply, SendThrows, DbThrows, Throw
    <3>2. CASE ReadPending(d) \/ QuietWait(d) \/ CallTurn(d) \/ GetResult(d) \/ SendPrompts(d)
               \/ MarkProcessed(d) \/ SkipReply(d) \/ LogReply(d) \/ DeadLetter(d) \/ FinishReply(d)
      BY <3>2 DEF ReadPending, QuietWait, CallTurn, GetResult, SendPrompts, MarkProcessed,
         SkipReply, LogReply, DeadLetter, FinishReply
    <3>3. CASE ResumeDrain(d) \/ TurnThrows(d) \/ \E o \in {"completed", "mute", "parked"} : TurnReturns(d, o)
      BY <3>3 DEF ResumeDrain, TurnThrows, TurnReturns, drain
    <3> QED
      BY <1>2, <3>1, <3>2, <3>3 DEF Advance, Fault
  <2> QED
    BY <2>1, <2>2, <2>3, <2>4, <2>5, <2>6, <2>7
<1> QED
  BY <1>1, <1>2, StepSplit

\* What a step does to the wire: the holder of a text sends it under its lead.
LEMMA WireStep ==
  ASSUME TypeOK, NEW d \in Msgs, Advance(d) \/ Fault(d)
  PROVE  \/ UNCHANGED <<sends, texts>>
         \/ (SendReply(d) \/ SendThrows(d)) /\ d \in live /\ pc[d] \in {"claimed", "sending"} /\ OnWire(d)
  BY DEF Advance, Fault, At, outbox, StartDrain, ReadPending, FinishDrain, QuietWait, CallTurn,
     TurnReturns, GetResult, RethrowTurn, SendPrompts, MarkProcessed, SkipReply, ClaimReply,
     CheckReply, SendReply, LogReply, DeadLetter, RejectReply, FinishReply, ResumeDrain,
     TurnThrows, SendThrows, DbThrows

LEMMA NextTexts ==
  ASSUME LaneInv, TextIsOwn, AnswersOwnTurn, [Next]_vars
  PROVE  AnswersOwnTurn'
<1> USE DEF LaneInv, TypeOK
<1>1. CASE Outside
  BY <1>1, OutsideKeeps DEF AnswersOwnTurn, outbox
<1>2. ASSUME NEW d \in Msgs, Advance(d) \/ Fault(d) PROVE AnswersOwnTurn'
  <2>1. CASE UNCHANGED <<sends, texts>>
    BY <2>1 DEF AnswersOwnTurn
  <2>2. CASE d \in live /\ pc[d] \in {"claimed", "sending"} /\ OnWire(d)
    <3>1. text[d] = lead[d] /\ lead[d] \in Msgs
      BY <2>2 DEF TextIsOwn
    <3> QED
      BY <2>2, <3>1 DEF AnswersOwnTurn, OnWire
  <2> QED
    BY <1>2, <2>1, <2>2, WireStep
<1> QED
  BY <1>1, <1>2, StepSplit

\* What has left, has left; what was logged or buried stays so.
LEMMA OutboxGrows ==
  ASSUME TypeOK, [Next]_vars
  PROVE  /\ \A m \in Msgs : sends[m] > 0 => sends'[m] > 0
         /\ sentLog \subseteq sentLog' /\ dead \subseteq dead'
<1> USE DEF outbox
<1>1. CASE Outside
  BY <1>1, OutsideKeeps
<1>2. ASSUME NEW d \in Msgs, Advance(d) \/ Fault(d)
      PROVE  /\ \A m \in Msgs : sends[m] > 0 => sends'[m] > 0
             /\ sentLog \subseteq sentLog' /\ dead \subseteq dead'
  <2>1. \A m \in Msgs : sends[m] > 0 => sends'[m] > 0
    <3>1. sends \in [Msgs -> Nat] /\ (UNCHANGED sends \/ OnWire(d))
      BY <1>2, WireStep DEF TypeOK
    <3> QED
      BY ONLY <3>1 DEF OnWire
  <2>2. sentLog \subseteq sentLog' /\ dead \subseteq dead'
    BY <1>2 DEF Advance, Fault, StartDrain, ReadPending, FinishDrain, QuietWait, CallTurn,
       TurnReturns, GetResult, RethrowTurn, SendPrompts, MarkProcessed, SkipReply, ClaimReply,
       CheckReply, SendReply, LogReply, DeadLetter, RejectReply, FinishReply, ResumeDrain,
       TurnThrows, SendThrows, DbThrows
  <2> QED
    BY <2>1, <2>2
<1> QED
  BY <1>1, <1>2, StepSplit

\* A reminder's reply step ends with the reminder sent or dead-lettered.
LEMMA NextReminder ==
  ASSUME LaneInv, LaneInv', LastIsOwn, ReminderOut, [Next]_vars
  PROVE  ReminderOut'
<1> USE DEF LaneInv, TypeOK
<1>1. CASE Outside
  BY <1>1, OutsideKeeps DEF ReminderOut, inHand, turns, outbox
<1>2. ASSUME NEW d \in Msgs, Advance(d) \/ Fault(d) PROVE ReminderOut'
  <2> USE DEF At, Goto
  <2>0. \A e \in Msgs \ {d} : status'[e] # "pending"
    BY <1>2, OnlyDrain DEF RefInv
  <2> SUFFICES ASSUME status'[d] = "pending", pc'[d] \in {"finish", "mark"},
                      lead'[d] \in Reminder, turn'[lead'[d]] = "completed"
               PROVE  sends'[lead'[d]] > 0 \/ lead'[d] \in dead'
    BY <2>0 DEF ReminderOut
  <2>1. CASE SkipReply(d)
    <3>1. /\ d \in live /\ pc[d] = "reply"
          /\ last = NoText \/ lead[d] \in sentLog
          /\ UNCHANGED <<lead, turn, sends>>
      BY <2>1 DEF SkipReply, turns, outbox
    <3>2. lead[d] \in sentLog
      BY <3>1, ReplyIsLeads
    <3> QED
      BY <3>1, <3>2 DEF RowsInv, LogBehind
  <2>2. CASE SendReply(d)
    BY <2>2 DEF SendReply, ClaimInv, ClaimHeld, AtLeastOnce
  <2>3. CASE LogReply(d)
    BY <2>3 DEF LogReply, RefInv, RepeatsOpen
  <2>4. CASE DeadLetter(d)
    BY <2>4 DEF DeadLetter
  <2>5. CASE FinishReply(d)
    BY <2>5 DEF FinishReply, ReminderOut, turns, outbox
  <2>6. CASE SendPrompts(d)
    BY <2>6 DEF SendPrompts, RowsInv, TurnDecided, turns
  <2>7. CASE ResumeDrain(d)
    BY <2>7 DEF ResumeDrain, ReminderOut, turns, outbox
  <2>8. CASE StartDrain(d)
    BY <2>8 DEF StartDrain, ClaimInv, NotStarted
  <2>9. CASE FinishDrain(d) \/ RethrowTurn(d) \/ RejectReply(d) \/ SendThrows(d) \/ DbThrows(d)
    BY <2>9 DEF FinishDrain, RethrowTurn, RejectReply, SendThrows, DbThrows, Throw
  <2>10. CASE ReadPending(d) \/ QuietWait(d) \/ CallTurn(d) \/ GetResult(d)
              \/ MarkProcessed(d) \/ ClaimReply(d) \/ CheckReply(d)
    BY <2>10 DEF ReadPending, QuietWait, CallTurn, GetResult, MarkProcessed, ClaimReply, CheckReply
  <2>11. CASE TurnThrows(d) \/ \E o \in {"completed", "mute", "parked"} : TurnReturns(d, o)
    BY <2>11 DEF TurnThrows, TurnReturns, drain
  <2> QED
    BY <1>2, <2>1, <2>2, <2>3, <2>4, <2>5, <2>6, <2>7, <2>8, <2>9, <2>10, <2>11 DEF Advance, Fault
<1> QED
  BY <1>1, <1>2, StepSplit

\* A processed row's own turn is settled: no step starts or ends it any more.
LEMMA SettledStays ==
  ASSUME LaneInv, [Next]_vars
  PROVE  \A m \in processed : turn'[m] = turn[m]
<1> USE DEF LaneInv, TypeOK
<1>1. CASE Outside
  BY <1>1, OutsideKeeps DEF turns
<1>2. ASSUME NEW d \in Msgs, Advance(d) \/ Fault(d) PROVE \A m \in processed : turn'[m] = turn[m]
  <2>1. CASE CallTurn(d)
    <3>1. todo[d] \subseteq Pending
      BY <2>1 DEF CallTurn, At, RefInv, TodoOpen
    <3> QED
      BY <2>1, <3>1 DEF CallTurn, Heads, Pending
  <2>2. CASE TurnThrows(d) \/ \E o \in {"completed", "mute", "parked"} : TurnReturns(d, o)
    <3>1. lead[d] \in Pending
      BY <2>2 DEF TurnThrows, TurnReturns, At, RefInv, BatchOpen, InBatch
    <3> QED
      BY <2>2, <3>1 DEF TurnThrows, TurnReturns, Pending
  <2>3. CASE UNCHANGED <<turn, last>>
    BY <2>3
  <2> QED
    BY <1>2, <2>1, <2>2, <2>3, TurnStep
<1> QED
  BY <1>1, <1>2, StepSplit

\* Only the mark adds to processed, and it adds the batch in hand.
LEMMA MarkStep ==
  ASSUME LaneInv, [Next]_vars
  PROVE  \/ UNCHANGED processed
         \/ \E d \in Msgs : /\ status[d] = "pending" /\ pc[d] = "mark" /\ UNCHANGED <<turns, outbox>>
                            /\ processed' = processed \cup batch[d]
<1>1. ASSUME NEW d \in Msgs, Advance(d) \/ Fault(d), ~UNCHANGED processed PROVE MarkProcessed(d)
  BY <1>1, DrainStep DEF StartDrain, ResumeDrain, ReadPending, QuietWait, CallTurn, Within,
     LaneInv, RowsInv
<1>2. Outside => UNCHANGED processed
  BY OutsideKeeps DEF LaneInv
<1> QED
  BY <1>1, <1>2, StepSplit DEF MarkProcessed, At, LaneInv, TypeOK

LEMMA NextDelivered ==
  ASSUME LaneInv, ReminderOut, ReminderDelivered, [Next]_vars
  PROVE  ReminderDelivered'
<1>1. /\ \A m \in processed : turn'[m] = turn[m]
      /\ \A m \in Msgs : sends[m] > 0 => sends'[m] > 0
      /\ dead \subseteq dead'
  BY SettledStays, OutboxGrows DEF LaneInv
<1>2. CASE UNCHANGED processed
  BY <1>1, <1>2 DEF ReminderDelivered, Msgs
<1>3. ASSUME NEW d \in Msgs, status[d] = "pending", pc[d] = "mark", UNCHANGED <<turns, outbox>>,
             processed' = processed \cup batch[d]
      PROVE  ReminderDelivered'
  <2>1. \A m \in batch[d] \cap Reminder : m = lead[d]
    BY <1>3, LaneConstants DEF LaneInv, RowsInv, BatchMates, InBatch
  <2> QED
    BY <1>3, <2>1 DEF ReminderDelivered, ReminderOut, turns, outbox
<1> QED
  BY <1>2, <1>3, MarkStep

\* With rows that commit in order, the head of what a drain has read is the
\* head of what is pending.
LEMMA OldestIsHead ==
  ASSUME TypeOK, RowsInv, InOrderInv, CommitInOrder, NEW d \in Msgs, status[d] = "pending", pc[d] = "batches",
         todo[d] \subseteq Pending, NEW l \in Heads(todo[d])
  PROVE  l \in Heads(Pending) /\ \A k \in Heads(Pending) : k = l
<1>1. \A t \in todo[d], j \in Pending : seq[j] < seq[t] => j \in todo[d]
  BY DEF InOrderInv, TodoOldest, InHand, InBatch, InSendReply
<1>2. SeqInv
  BY DEF RowsInv, SeqInv
<1> QED
  BY <1>1, <1>2, HeadOfAll

\* A turn is started with rows no other turn was started with.
LEMMA NextPresented ==
  ASSUME LaneInv, Orderly, PresentedOnce, [Next]_vars
  PROVE  PresentedOnce'
<1> USE DEF LaneInv, TypeOK
<1>1. CASE UNCHANGED input
  BY <1>1 DEF PresentedOnce
<1>2. ASSUME NEW d \in Msgs, CallTurn(d) PROVE PresentedOnce'
  <2>1. PICK l \in Heads(todo[d]) :
          IF turn[l] = "none"
          THEN /\ turn' = [turn EXCEPT ![l] = "running"]
               /\ input' = [input EXCEPT ![l] = BatchOf(l, todo[d])]
          ELSE UNCHANGED <<turn, input>>
    BY <1>2 DEF CallTurn
  <2>2. /\ status[d] = "pending" /\ pc[d] = "batches" /\ todo[d] \subseteq Pending
        /\ l \in todo[d] /\ l \in Msgs
        /\ BatchOf(l, todo[d]) \subseteq todo[d]
    BY <1>2, <2>1 DEF CallTurn, At, Heads, RefInv, TodoOpen, BatchOf
  <2>3. CASE turn[l] = "none"
    <3>1. \A k \in Msgs : input[k] \subseteq processed
      <4>1. CASE Calm
        BY <2>2, <4>1 DEF CalmInv, InputInHand, RowsInv, Untouched, RefInv, OneDrain, InBatch, InSendReply
      <4>2. CASE CommitInOrder
        <5>2. \A k \in Heads(Pending) : k = l
          BY <2>1, <2>2, <4>2, OldestIsHead
        <5>3. \A k \in Msgs : Started(k) => k \in processed
          BY <2>3, <4>2, <5>2 DEF InOrderInv, StartedIsHead, RowsInv, TurnsSeen, Started, Pending
        <5> QED
          BY <4>2, <5>3 DEF InOrderInv, InputHandled, RowsInv, Untouched
      <4> QED
        BY <4>1, <4>2 DEF Orderly
    <3>2. input'[l] \cap processed = {} /\ \A k \in Msgs \ {l} : input'[k] = input[k]
      BY <2>1, <2>2, <2>3 DEF Pending
    <3> QED
      BY <3>1, <3>2 DEF PresentedOnce
  <2>4. CASE turn[l] # "none"
    BY <2>1, <2>4 DEF PresentedOnce
  <2> QED
    BY <2>3, <2>4
<1>3. Outside => UNCHANGED input
  BY OutsideKeeps DEF turns
<1>4. ASSUME NEW d \in Msgs, Advance(d) \/ Fault(d) PROVE CallTurn(d) \/ UNCHANGED input
  BY <1>4, DrainStep DEF StartDrain, ResumeDrain, ReadPending, QuietWait, MarkProcessed, Within,
     RowsInv, turns
<1> QED
  BY <1>1, <1>2, <1>3, <1>4, StepSplit

LEMMA InitAnswers == Init => CalmInv /\ AnswersInv /\ SentInv
  BY DEF Init, CalmInv, InputInHand, ProcessedWasPresented, Started, AnswersInv, LastIsOwn,
     TextIsOwn, ReminderOut, AnswersOwnTurn, ReminderDelivered, PresentedOnce, SentInv, Unsent,
     AnsweredOnce, Pending, Visible

\* Every step keeps every answer with its turn.
LEMMA NextAnswers == LaneInv /\ LaneInv' /\ AnswersInv /\ [Next]_vars => AnswersInv'
<1> SUFFICES ASSUME LaneInv, LaneInv', AnswersInv, [Next]_vars, Orderly' PROVE AnswersInv'
  BY DEF AnswersInv
<1>1. Orderly
  BY NextErrors DEF Orderly, LaneInv, RowsInv
<1>2. LastIsOwn /\ TextIsOwn /\ ReminderOut /\ AnswersOwnTurn /\ ReminderDelivered /\ PresentedOnce
      /\ OneDrain'
  BY <1>1 DEF AnswersInv, LaneInv, RefInv
<1>3. LastIsOwn' /\ TextIsOwn'
  BY <1>1, <1>2, NextLast, NextText
<1>4. ReminderOut' /\ AnswersOwnTurn'
  BY <1>2, NextReminder, NextTexts
<1>5. ReminderDelivered' /\ PresentedOnce'
  BY <1>1, <1>2, NextDelivered, NextPresented
<1> QED
  BY <1>3, <1>4, <1>5 DEF AnswersInv

\* Calm and never crashed: the answer leaves between the turn and the mark.
LEMMA NextUnsent ==
  ASSUME LaneInv, OneDrain', LastIsOwn, Calm, Unsent, [Next]_vars, crashes' = 0
  PROVE  Unsent'
<1> USE DEF LaneInv, TypeOK
<1>1. CASE Outside
  BY <1>1, OutsideKeeps DEF Unsent, inHand, turns, outbox
<1>2. ASSUME NEW d \in Msgs, Advance(d) \/ Fault(d) PROVE Unsent'
  <2> USE DEF At, Goto, turns, outbox
  <2>0. \A e \in Msgs \ {d} : status'[e] # "pending"
    BY <1>2, OnlyDrain DEF RefInv
  <2> DEFINE Good == /\ pc'[d] \in {"await", "reply", "prompt"} =>
                          lead'[d] \notin sentLog' /\ sends'[lead'[d]] = 0
                     /\ (/\ pc'[d] \in {"finish", "mark"} /\ turn'[lead'[d]] = "completed"
                         /\ lead'[d] \notin Reminder) => sends'[lead'[d]] = 1
  <2> SUFFICES ASSUME status'[d] = "pending" PROVE Good
    BY <2>0 DEF Unsent
  <2>1. CASE CallTurn(d)
    <3>1. PICK l \in Heads(todo[d]) : lead' = [lead EXCEPT ![d] = l]
      BY <2>1 DEF CallTurn
    <3>2. l \in Msgs /\ turn[l] = "none"
      BY <2>1, <3>1, CalmIsFresh DEF Heads
    <3> QED
      BY <2>1, <3>1, <3>2 DEF CallTurn, RowsInv, Untouched, Started
  <2>2. CASE TurnThrows(d) \/ \E o \in {"completed", "mute", "parked"} : TurnReturns(d, o)
    <3>1. pc[d] = "await" /\ status[d] = "pending" /\ UNCHANGED <<pc, lead, sentLog, sends>>
      BY <2>2 DEF TurnThrows, TurnReturns, drain
    <3> QED
      BY <3>1 DEF Unsent
  <2>3. CASE GetResult(d)
    BY <2>3 DEF GetResult, Unsent
  <2>4. CASE SendPrompts(d)
    BY <2>4 DEF SendPrompts, RowsInv, TurnDecided
  <2>5. CASE SkipReply(d)
    <3>1. /\ d \in live /\ pc[d] = "reply"
          /\ last = NoText \/ lead[d] \in sentLog
          /\ pc'[d] = "mark" /\ UNCHANGED <<lead, turn, sends>>
      BY <2>5 DEF SkipReply
    <3>2. last = NoText
      BY <3>1 DEF Unsent
    <3> QED
      BY <3>1, <3>2, ReplyIsLeads
  <2>6. CASE SendReply(d)
    BY <2>6 DEF SendReply, OnWire, ClaimInv, ClaimUnspent
  <2>7. CASE LogReply(d)
    BY <2>7 DEF LogReply, RefInv, RepeatsOpen, AtLeastOnce
  <2>8. CASE DeadLetter(d)
    BY <2>8 DEF DeadLetter, Calm
  <2>9. CASE FinishReply(d) \/ ResumeDrain(d)
    BY <2>9 DEF FinishReply, ResumeDrain, Unsent
  <2>10. CASE StartDrain(d)
    BY <2>10 DEF StartDrain, ClaimInv, NotStarted
  <2>11. CASE FinishDrain(d) \/ RethrowTurn(d) \/ RejectReply(d) \/ SendThrows(d) \/ DbThrows(d)
    BY <2>11 DEF FinishDrain, RethrowTurn, RejectReply, SendThrows, DbThrows, Throw
  <2>12. CASE ReadPending(d) \/ QuietWait(d) \/ MarkProcessed(d) \/ ClaimReply(d) \/ CheckReply(d)
    BY <2>12 DEF ReadPending, QuietWait, MarkProcessed, ClaimReply, CheckReply
  <2> QED
    BY <1>2, <2>1, <2>2, <2>3, <2>4, <2>5, <2>6, <2>7, <2>8, <2>9, <2>10, <2>11, <2>12
       DEF Advance, Fault
<1> QED
  BY <1>1, <1>2, StepSplit

\* and after the mark nothing is sent under a row any more.
LEMMA NextAnswered ==
  ASSUME LaneInv, Calm, Unsent, AnsweredOnce, [Next]_vars
  PROVE  AnsweredOnce'
<1> USE DEF LaneInv, TypeOK
<1>1. \A m \in processed : turn'[m] = turn[m]
  BY SettledStays
<1>2. \A m \in processed : sends'[m] = sends[m]
  <2>1. ASSUME NEW d \in live, pc[d] \in {"claimed", "sending"}, OnWire(d)
        PROVE  \A m \in processed : sends'[m] = sends[m]
    <3>1. lead[d] \in Pending
      BY <2>1 DEF RefInv, BatchOpen, InBatch, InSendReply
    <3> QED
      BY <2>1, <3>1 DEF OnWire, Pending
  <2>2. Outside => UNCHANGED sends
    BY OutsideKeeps DEF outbox
  <2> QED
    BY <2>1, <2>2, StepSplit, WireStep
<1>3. CASE UNCHANGED processed
  BY <1>1, <1>2, <1>3 DEF AnsweredOnce
<1>4. ASSUME NEW d \in Msgs, status[d] = "pending", pc[d] = "mark", UNCHANGED <<turns, outbox>>,
             processed' = processed \cup batch[d]
      PROVE  AnsweredOnce'
  <2>1. batch[d] \subseteq Pending /\ lead[d] \in Pending /\ Started(lead[d])
    BY <1>4 DEF RefInv, BatchOpen, InBatch, RowsInv, TurnDecided, Started
  <2>2. \A m \in batch[d] : turn[m] = "completed" => m = lead[d]
    BY <2>1, UnsettledIsOne DEF OneUnsettled, Orderly, Started
  <2> QED
    BY <1>4, <2>2 DEF AnsweredOnce, Unsent, turns, outbox
<1> QED
  BY <1>3, <1>4, MarkStep

LEMMA NextSent == LaneInv /\ OneDrain' /\ AnswersInv /\ SentInv /\ [Next]_vars => SentInv'
<1> SUFFICES ASSUME LaneInv, OneDrain', AnswersInv, SentInv, [Next]_vars, Calm', crashes' = 0
             PROVE  Unsent' /\ AnsweredOnce'
  BY DEF SentInv
<1>1. Calm
  BY NextErrors DEF LaneInv, RowsInv
<1>2. crashes = 0
  BY OutsideKeeps, DrainAlone, StepSplit DEF LaneInv
<1>3. Unsent /\ AnsweredOnce /\ LastIsOwn
  BY <1>1, <1>2 DEF SentInv, AnswersInv, Orderly
<1> QED
  BY <1>1, <1>3, NextUnsent, NextAnswered

-----------------------------------------------------------------------------
(* The theorems.                                                           *)

\* Everything above holds in every state of every behaviour.
THEOREM LaneSound == Spec => [](LaneInv /\ AnswersInv /\ SentInv)
<1>1. Spec => []TypeOK /\ []ClaimInv
  BY TypeCorrect, ClaimsSound
<1>2. Init => RefInv /\ RowsInv /\ InOrderInv /\ CalmInv /\ AnswersInv /\ SentInv
  BY InitRef, InitRows, InitInOrder, InitAnswers
<1>3. TypeOK /\ ClaimInv /\ RefInv /\ [Next]_vars => RefInv'
  BY NextRef
<1>4. TypeOK /\ ClaimInv /\ RefInv /\ RefInv' /\ RowsInv /\ [Next]_vars => RowsInv'
  BY NextRows
<1>5. TypeOK /\ ClaimInv /\ RefInv /\ RefInv' /\ RowsInv /\ RowsInv' /\ InOrderInv /\ [Next]_vars
        => InOrderInv'
  BY NextInOrder
<1>6. TypeOK /\ ClaimInv /\ RefInv /\ RefInv' /\ RowsInv /\ CalmInv /\ [Next]_vars => CalmInv'
  BY NextCalm DEF RefInv
<1>7. TypeOK /\ ClaimInv /\ RefInv /\ RowsInv /\ InOrderInv /\ CalmInv <=> LaneInv
  BY DEF LaneInv
<1>8. LaneInv /\ LaneInv' /\ AnswersInv /\ [Next]_vars => AnswersInv'
  BY NextAnswers
<1>9. LaneInv /\ LaneInv' /\ AnswersInv /\ SentInv /\ [Next]_vars => SentInv'
  BY NextSent DEF LaneInv, RefInv
<1> QED
  BY <1>1, <1>2, <1>3, <1>4, <1>5, <1>6, <1>7, <1>8, <1>9, PTL DEF Spec

\* No message is lost between the inbox and the model or shown to two turns,
\* and where nothing threw or crashed every answer of the at-most-once class
\* was sent, once (main.ts processTurnBatch, queue.ts drainConversation).
THEOREM NothingLost == Spec => []NoMessageLost
<1>1. LaneInv /\ AnswersInv /\ SentInv => NoMessageLost
  BY DEF LaneInv, AnswersInv, SentInv, NoMessageLost, CalmInv, Calm, Orderly, AnsweredOnce
<1> QED
  BY <1>1, LaneSound, PTL

\* What is sent under send-<lead> is what that lead's own turn wrote, although
\* the step reads "the last assistant message" (main.ts sendReply): whatever
\* throws and crashes, where inserts do not overlap,
THEOREM AnswersKept == ASSUME CommitInOrder PROVE Spec => []AnswersOwnTurn
<1>1. AnswersInv => AnswersOwnTurn
  BY DEF AnswersInv, Orderly
<1> QED
  BY <1>1, LaneSound, PTL

\* and however they overlap, where nothing throws and the chat can be reached.
THEOREM CalmAnswersKept == Spec => [](Calm => AnswersOwnTurn /\ ReminderDelivered)
<1>1. AnswersInv => (Calm => AnswersOwnTurn /\ ReminderDelivered)
  BY DEF AnswersInv, Orderly
<1> QED
  BY <1>1, LaneSound, PTL

\* A reminder is marked processed only behind its send or its dead letter
\* (send-class.ts deliverReply, the at-least-once class).
THEOREM RemindersKept == ASSUME CommitInOrder PROVE Spec => []ReminderDelivered
<1>1. AnswersInv => ReminderDelivered
  BY DEF AnswersInv, Orderly
<1> QED
  BY <1>1, LaneSound, PTL

\* Turns start in the order of the inbox (queue.ts, the drain's sorted read
\* and its partition of concurrency 1).
THEOREM TurnsOrdered == ASSUME CommitInOrder PROVE Spec => TurnsInSeqOrder
<1> DEFINE Older == \A l \in Msgs : turn[l] = "none" /\ turn'[l] = "running" =>
                      \A k \in Visible : seq[k] < seq[l] => k \in processed
<1>1. LaneInv /\ [Next]_vars => Older
  <2> SUFFICES ASSUME LaneInv, [Next]_vars, NEW l \in Msgs, turn[l] = "none",
                      turn'[l] = "running", NEW k \in Visible, seq[k] < seq[l]
               PROVE  k \in processed
    OBVIOUS
  <2> USE DEF LaneInv, TypeOK
  <2>1. \A d \in Msgs : Advance(d) \/ Fault(d) => CallTurn(d) \/ turn'[l] = turn[l]
    BY TurnStep DEF TurnThrows, TurnReturns
  <2>2. PICK d \in Msgs : CallTurn(d)
    BY <2>1, StepSplit, OutsideKeeps DEF turns
  <2>3. l \in Heads(todo[d])
    BY <2>2 DEF CallTurn
  <2>4. /\ status[d] = "pending" /\ pc[d] = "batches" /\ todo[d] \subseteq Pending
    BY <2>2 DEF CallTurn, At, RefInv, TodoOpen
  <2>6. l \in Heads(Pending)
    BY <2>3, <2>4, OldestIsHead
  <2> QED
    BY <2>6 DEF Heads, Pending, Visible
<1> QED
  BY <1>1, LaneSound, PTL DEF Spec, TurnsInSeqOrder

-----------------------------------------------------------------------------
(* The mapping: what Delivery sees of a step of the lane.                  *)

seen == <<Visible, processed, sentLog, sends, dead>>

\* Delivery's variables, as the lane's.
LEMMA SeenIsAbstract == seen = Outbox!vars
  BY DEF seen, Outbox!vars

LEMMA InitMaps == Init => Outbox!Init
  BY DEF Init, Outbox!Init, Visible

\* A message becomes one Delivery knows where its insert commits; nothing else
\* on the way in is seen.
LEMMA EnqueueMaps ==
  ASSUME TypeOK, NEW m \in Msgs, Arrive(m) \/ Enqueue(m)
  PROVE  Outbox!Accept(m) \/ UNCHANGED seen
<1> USE DEF TypeOK, outbox, seen
<1>1. CASE Arrive(m) \/ EnqueueDrain(m) \/ ResumeEnqueue(m)
  <2>1. Visible' = Visible
    BY <1>1 DEF Arrive, EnqueueDrain, ResumeEnqueue, Visible
  <2> QED
    BY <1>1, <2>1 DEF Arrive, EnqueueDrain, ResumeEnqueue
<1>2. CASE TakeSeq(m) /\ ~CommitInOrder
  <2>1. Visible' = Visible
    BY <1>2 DEF TakeSeq, Visible
  <2> QED
    BY <1>2, <2>1 DEF TakeSeq
<1>3. CASE (TakeSeq(m) /\ CommitInOrder) \/ CommitInsert(m)
  <2>1. m \notin Visible /\ Visible' = Visible \cup {m}
    BY <1>3 DEF TakeSeq, CommitInsert, Visible
  <2> QED
    BY <1>3, <2>1 DEF TakeSeq, CommitInsert, Outbox!Accept
<1> QED
  BY <1>1, <1>2, <1>3 DEF Enqueue

\* A reply that leaves is the first of a claimed one, or one that may repeat,
\* whether or not the send goes on to throw.
LEMMA SendMaps ==
  ASSUME TypeOK, ClaimInv, RefInv, NEW d \in live, routable, pc[d] \in {"claimed", "sending"},
         OnWire(d), UNCHANGED <<inbox, processed, sentLog, dead>>
  PROVE  Outbox!SendOnce(lead[d]) \/ Outbox!SendAgain(lead[d])
<1> USE DEF TypeOK, RefInv
<1>1. d \in Msgs /\ status[d] = "pending" /\ Visible' = Visible
  BY DEF inbox, Visible
<1>2. lead[d] \in Outbox!Open
  BY <1>1 DEF BatchOpen, InBatch, InSendReply, Pending, Outbox!Open
<1>3. sends' = [sends EXCEPT ![lead[d]] = sends[lead[d]] + 1]
  BY DEF OnWire
<1>4. CASE pc[d] = "claimed"
  <2>1. lead[d] \in sentLog /\ ~AtLeastOnce(lead[d]) /\ sends[lead[d]] = 0
    BY <1>1, <1>4 DEF ClaimInv, ClaimHeld, ClaimUnspent
  <2> QED
    BY <1>1, <1>2, <1>3, <2>1 DEF Outbox!SendOnce
<1>5. CASE pc[d] = "sending"
  <2>1. lead[d] \notin sentLog /\ AtLeastOnce(lead[d]) /\ dead = {}
    BY <1>1, <1>5 DEF RepeatsOpen, RouteDecides
  <2> QED
    BY <1>1, <1>2, <1>3, <2>1 DEF Outbox!SendAgain
<1> QED
  BY <1>4, <1>5

\* The claim, the log and the burial of a reply are what they look like.
LEMMA OutcomeMaps ==
  ASSUME TypeOK, RefInv, NEW d \in Msgs, ClaimReply(d) \/ LogReply(d) \/ DeadLetter(d)
  PROVE  Outbox!Claim(lead[d]) \/ Outbox!Log(lead[d]) \/ Outbox!Bury(lead[d])
<1> USE DEF TypeOK, RefInv, At
<1>1. /\ d \in live /\ status[d] = "pending" /\ UNCHANGED <<enq, processed, sends>>
      /\ pc[d] \in {"reply", "wired", "sending"}
  BY DEF ClaimReply, LogReply, DeadLetter, inbox
<1>2. Visible' = Visible
  BY <1>1 DEF Visible
<1>3. lead[d] \in Outbox!Open
  BY <1>1 DEF BatchOpen, InBatch, InSendReply, Pending, Outbox!Open
<1>4. CASE ClaimReply(d)
  BY <1>1, <1>2, <1>3, <1>4 DEF ClaimReply, Outbox!Claim
<1>5. CASE LogReply(d)
  BY <1>1, <1>2, <1>3, <1>5 DEF LogReply, RepeatsOpen, Outbox!Log
<1>6. CASE DeadLetter(d)
  BY <1>1, <1>2, <1>3, <1>6 DEF DeadLetter, RepeatsOpen, RouteDecides, Outbox!Bury
<1> QED
  BY <1>4, <1>5, <1>6

\* The batch in hand is handled as one.
LEMMA MarkMaps ==
  ASSUME TypeOK, RefInv, NEW d \in Msgs, MarkProcessed(d)
  PROVE  Outbox!Handle(batch[d]) /\ batch[d] \subseteq Msgs
<1>1. /\ status[d] = "pending" /\ pc[d] = "mark" /\ UNCHANGED <<inbox, outbox>>
      /\ processed' = processed \cup batch[d]
  BY DEF TypeOK, MarkProcessed, At
<1>2. batch[d] \subseteq Outbox!Open
  BY <1>1 DEF RefInv, BatchOpen, InBatch, Pending, Outbox!Open
<1> QED
  BY <1>1, <1>2 DEF TypeOK, Outbox!Handle, inbox, outbox, Visible

\* Every other step of a drain is its own affair.
LEMMA AdvanceMaps ==
  ASSUME TypeOK, ClaimInv, RefInv, NEW d \in Msgs, Advance(d) \/ Fault(d)
  PROVE  [Outbox!Next]_seen
<1> USE DEF At
<1>0. lead[d] \in Msgs
  BY DEF TypeOK
<1>1. CASE SendReply(d) \/ (SendThrows(d) /\ ~UNCHANGED sends)
  <2>1. /\ d \in live /\ routable /\ pc[d] \in {"claimed", "sending"} /\ OnWire(d)
        /\ UNCHANGED <<inbox, processed, sentLog, dead>>
    BY <1>1 DEF SendReply, SendThrows
  <2> QED
    BY <1>0, <2>1, SendMaps DEF Outbox!Next
<1>2. CASE ClaimReply(d) \/ LogReply(d) \/ DeadLetter(d)
  BY <1>0, <1>2, OutcomeMaps DEF Outbox!Next
<1>3. CASE MarkProcessed(d)
  BY <1>3, MarkMaps DEF Outbox!Next
<1>4. CASE UNCHANGED <<inbox, processed, sentLog, sends, dead>>
  BY <1>4 DEF seen, Visible, inbox
<1>5. UNCHANGED <<inbox, processed, sentLog, sends, dead>>
      \/ SendReply(d) \/ SendThrows(d) \/ ClaimReply(d) \/ LogReply(d) \/ DeadLetter(d)
      \/ MarkProcessed(d)
  BY DEF Advance, Fault, outbox, StartDrain, ReadPending, FinishDrain, QuietWait, CallTurn,
     TurnReturns, GetResult, RethrowTurn, SendPrompts, SkipReply, CheckReply, RejectReply,
     FinishReply, ResumeDrain, TurnThrows, DbThrows
<1>6. SendThrows(d) => UNCHANGED <<inbox, processed, sentLog, dead>>
  BY DEF SendThrows
<1> QED
  BY <1>1, <1>2, <1>3, <1>4, <1>5, <1>6

\* Every step maps to a step or to none.
LEMMA NextMaps == TypeOK /\ ClaimInv /\ RefInv /\ [Next]_vars => [Outbox!Next]_(Outbox!vars)
<1> SUFFICES ASSUME TypeOK, ClaimInv, RefInv, [Next]_vars PROVE [Outbox!Next]_seen
  BY SeenIsAbstract DEF seen, Outbox!vars
<1>1. CASE \E m \in Msgs : Arrive(m) \/ Enqueue(m)
  BY <1>1, EnqueueMaps DEF Outbox!Next
<1>2. CASE \E d \in Msgs : Advance(d) \/ Fault(d)
  BY <1>2, AdvanceMaps
<1>3. CASE Crash
  <2>1. Visible' = Visible
    BY <1>3 DEF Crash, Visible, TypeOK
  <2> QED
    BY <1>3, <2>1 DEF Crash, seen, outbox
<1>4. CASE Launch \/ UNCHANGED vars
  BY <1>4 DEF Launch, vars, seen, inbox, outbox, Visible
<1> QED
  BY <1>1, <1>2, <1>3, <1>4 DEF Next

\* What a conversation is promised is what its lane does: an accepted message is
\* handled once, its reply leaves while it is being handled, a claimed one is
\* spent once, one that must not be dropped is logged behind its send or buried
\* unsent (queue.ts, send-class.ts deliverReply, main.ts sendReply).
THEOREM LaneImplementsDelivery == Spec => ImplementsDelivery
<1>1. Spec => []TypeOK /\ []ClaimInv
  BY TypeCorrect, ClaimsSound
<1>2. TypeOK /\ ClaimInv /\ RefInv /\ [Next]_vars => RefInv'
  BY NextRef
<1>3. TypeOK /\ ClaimInv /\ RefInv /\ [Next]_vars => [Outbox!Next]_(Outbox!vars)
  BY NextMaps
<1> QED
  BY <1>1, <1>2, <1>3, InitRef, InitMaps, PTL DEF Spec, ImplementsDelivery, Outbox!Spec
=============================================================================
