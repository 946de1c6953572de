--------------------------- MODULE ApprovalProofs ---------------------------
(***************************************************************************)
(* Theorems about approvals for any set of proposals, arguments and        *)
(* messages, and any number of crashes and failures.                       *)
(***************************************************************************)
EXTENDS Approval, TLAPS

-----------------------------------------------------------------------------
(* Type correctness, with the message in hand still in the inbox.          *)

TypeInv == TypeOK /\ InboxHeld

\* Appending keeps a sequence and what was in it.
LEMMA AppendIsSeq ==
  ASSUME NEW S, NEW s \in Seq(S), NEW e \in S
  PROVE  /\ Append(s, e) \in Seq(S)
         /\ Append(s, e) # <<>>
         /\ Len(Append(s, e)) = Len(s) + 1
         /\ Len(s) \in Nat
  OBVIOUS

\* An update keeps a function typed, whatever the argument it is made at.
LEMMA UpdateType ==
  ASSUME NEW S, NEW T, NEW f \in [S -> T], NEW i, NEW v \in T
  PROVE  [f EXCEPT ![i] = v] \in [S -> T]
  OBVIOUS

\* A counter that is raised stays one.
LEMMA IncrementType ==
  ASSUME NEW S, NEW f \in [S -> Nat], NEW i
  PROVE  [f EXCEPT ![i] = @ + 1] \in [S -> Nat]
<1>1. [f EXCEPT ![i] = @ + 1] = [j \in S |-> IF j = i THEN f[j] + 1 ELSE f[j]]
  OBVIOUS
<1>2. \A j \in S : (IF j = i THEN f[j] + 1 ELSE f[j]) \in Nat
  OBVIOUS
<1> QED
  BY <1>1, <1>2

\* A status update keeps the rows typed, whichever row it is.
LEMMA SetStatusType ==
  ASSUME status \in [Actions -> Statuses], NEW a, NEW s \in Statuses, SetStatus(a, s)
  PROVE  status' \in [Actions -> Statuses]
  BY DEF SetStatus

\* The initial state is well typed.
LEMMA InitType == Init => TypeInv
BY ApprovalConstants DEF Init, TypeInv, TypeOK, InboxHeld, Statuses, Points

\* No prompt is an index too.
LEMMA ZeroIndex == ASSUME TypeInv PROVE 0 \in 0 .. Len(shown)
<1>1. Len(shown) \in Nat
  BY DEF TypeInv, TypeOK
<1> QED
  BY <1>1

\* What a step of the turn's position leaves typed.
LEMMA PositionType ==
  ASSUME TypeInv,
         UNCHANGED <<routable, up, args, stamp, overdue, calendar, shown, inbox, written, sweep,
                     ghost, crashes>>,
         status' \in [Actions -> Statuses],
         pc' \in Points, pc' # "idle" => inbox # <<>>,
         digest' \subseteq Actions, target' \in Actions \cup {NoAction},
         by' \in 0 .. Len(shown), unsent' \subseteq Actions \X Args, fails' \in 0 .. MaxFails
  PROVE  TypeInv'
BY DEF TypeInv, TypeOK, InboxHeld, sweep, ghost

\* The steps of a turn, by what they change.
LEMMA TurnType ==
  ASSUME TypeInv, Turn
  PROVE  TypeInv'
<1> USE DEF TypeInv, TypeOK, InboxHeld, Step, Points, InTurn, InSettle, InPrompt, Settled,
            Statuses, row, lane, sweep, ghost, budget
<1>1. CASE StartTurn
  BY <1>1 DEF StartTurn
<1>2. CASE QuoteDecidesNothing
  <2>1. target' \in Actions \cup {NoAction}
    BY <1>2 DEF QuoteDecidesNothing, BoundAction
  <2> QED
    BY <1>2, <2>1, SMTT(20) DEF QuoteDecidesNothing
<1>3. CASE QuoteDenies
  BY <1>3 DEF QuoteDenies, BoundAction, SetStatus
<1>4. CASE QuoteApproves
  <2>1. inbox # <<>> /\ Message \in Messages
    BY <1>4 DEF QuoteApproves, Message
  <2>2. target' \in Actions /\ by' = stamp[target']
    BY <1>4 DEF QuoteApproves, BoundAction
  <2>3. by' \in 0 .. Len(shown)
    BY <2>2
  <2> QED
    BY <1>4, <2>1, <2>2, <2>3, PositionType DEF QuoteApproves
<1>5. CASE SettleStart
  BY <1>5 DEF SettleStart
<1>6. CASE AlreadyResolved
  BY <1>6, ZeroIndex, PositionType DEF AlreadyResolved
<1>7. CASE SettleStale
  <2>1. status' \in [Actions -> Statuses]
    BY <1>7, SetStatusType DEF SettleStale
  <2> QED
    BY <1>7, <2>1, SMTT(20) DEF SettleStale
<1>8. CASE CreateEvent
  <2>1. calendar \in [Actions \X Args -> Nat]
    BY DEF TypeInv
  <2>2. CASE UNCHANGED calendar
    BY <1>8, <2>2 DEF CreateEvent
  <2>3. CASE calendar' = [calendar EXCEPT ![<<target, args[target]>>] = @ + 1]
    <3>1. calendar' \in [Actions \X Args -> Nat]
      BY <2>1, <2>3, IncrementType
    <3> QED
      BY <1>8, <3>1 DEF CreateEvent
  <2> QED
    BY <1>8, <2>2, <2>3 DEF CreateEvent
<1>9. CASE SettleCommit
  <2>1. status' \in [Actions -> Statuses]
    BY <1>9, SetStatusType DEF SettleCommit
  <2>2. /\ executions' \in [Actions -> Nat]
        /\ boundTo' \in [Actions -> 0 .. Len(shown)]
    BY <1>9, IncrementType, UpdateType DEF SettleCommit
  <2>3. /\ target' \in Actions \cup {NoAction} /\ by' = 0 /\ pc' = "model" /\ inbox # <<>>
        /\ UNCHANGED <<routable, up, args, stamp, overdue, calendar, shown, inbox, written,
                       digest, unsent, sweep, crashes, fails>>
    BY <1>9 DEF SettleCommit
  <2>4. /\ stamp' \in [Actions -> 0 .. Len(shown')]
        /\ boundTo' \in [Actions -> 0 .. Len(shown')]
        /\ by' \in 0 .. Len(shown')
    BY <2>2, <2>3, AppendIsSeq, SMTT(20)
  <2> QED
    BY <2>1, <2>2, <2>3, <2>4
<1>10. CASE ReadDigest
  BY <1>10 DEF ReadDigest, PendingNow
<1>11. CASE ClassifyUnrelated
  BY <1>11 DEF ClassifyUnrelated
<1>12. CASE ClassifyApprove
  BY <1>12 DEF ClassifyApprove, Candidates
<1>13. CASE ClassifyDeny
  BY <1>13 DEF ClassifyDeny, Candidates, SetStatus
<1>14. CASE ClassifyRefine
  <2>1. args' \in [Actions -> Args] /\ stamp' \in [Actions -> 0 .. Len(shown)]
    <3>1. PICK a \in Candidates, x \in Args :
            \/ args' = [args EXCEPT ![a] = x] /\ stamp' = [stamp EXCEPT ![a] = 0]
            \/ UNCHANGED <<args, stamp>>
      BY <1>14 DEF ClassifyRefine
    <3>2. 0 \in 0 .. Len(shown)
      BY AppendIsSeq
    <3>3. /\ [args EXCEPT ![a] = x] \in [Actions -> Args]
          /\ [stamp EXCEPT ![a] = 0] \in [Actions -> 0 .. Len(shown)]
      BY <3>2, UpdateType
    <3> QED
      BY <3>1, <3>3
  <2>2. pc' \in {"prompts", "model"}
    BY <1>14 DEF ClassifyRefine
  <2> QED
    BY <1>14, <2>1, <2>2 DEF ClassifyRefine
<1>15. CASE Answer
  BY <1>15 DEF Answer
<1>16. CASE \E a \in Actions : Park(a)
  BY <1>16, SMTT(20) DEF Park, SetStatus
<1>17. CASE CloseParked
  BY <1>17 DEF CloseParked
<1>18. CASE ReadUnstamped
  BY <1>18 DEF ReadUnstamped, PendingNow
<1>19. CASE SendPrompt
  <2>1. PICK p \in unsent : shown' = Append(shown, p) /\ unsent' = unsent \ {p}
    BY <1>19 DEF SendPrompt
  <2>2. shown' \in Seq(Actions \X Args) /\ Len(shown') = Len(shown) + 1 /\ Len(shown) \in Nat
    BY <2>1, AppendIsSeq
  <2>3. /\ stamp \in [Actions -> 0 .. Len(shown')]
        /\ boundTo \in [Actions -> 0 .. Len(shown')]
        /\ by \in 0 .. Len(shown')
    <3>1. 0 .. Len(shown) \subseteq 0 .. Len(shown')
      BY <2>2
    <3> QED
      BY <3>1
  <2> QED
    BY <1>19, <2>1, <2>2, <2>3 DEF SendPrompt
<1>20. CASE StampPrompt
  <2>1. stamp' \in [Actions -> 0 .. Len(shown)]
    <3>1. Len(shown) \in 0 .. Len(shown)
      BY AppendIsSeq
    <3> QED
      BY <1>20, <3>1, UpdateType DEF StampPrompt
  <2> QED
    BY <1>20, <2>1 DEF StampPrompt
<1>21. CASE DeadLetterPrompt
  BY <1>21 DEF DeadLetterPrompt
<1>22. CASE PromptsDone
  BY <1>22 DEF PromptsDone
<1>23. CASE NextDrain
  BY <1>23 DEF NextDrain
<1>24. CASE MarkProcessed
  BY <1>24, SMTT(20) DEF MarkProcessed
<1> QED
  BY <1>1, <1>2, <1>3, <1>4, <1>5, <1>6, <1>7, <1>8, <1>9, <1>10, <1>11, <1>12,
     <1>13, <1>14, <1>15, <1>16, <1>17, <1>18, <1>19, <1>20, <1>21, <1>22,
     <1>23, <1>24 DEF Turn

\* The household, time, the sweep, failures and crashes.
LEMMA OutsideType ==
  ASSUME TypeInv, Next, ~Turn
  PROVE  TypeInv'
<1> USE DEF TypeInv, TypeOK, InboxHeld, Step, Points, InTurn, InSettle, InPrompt, Settled,
            Statuses, row, lane, sweep, ghost, budget
<1>1. CASE Write
  <2>1. Len(shown) \in Nat /\ 0 .. Len(shown) \subseteq Nat
    OBVIOUS
  <2>2. [quotes : 0 .. Len(shown), says : {"yes", "no", "unclear"}] \cup {Item} \subseteq Messages
    BY <2>1 DEF Item, Messages
  <2>3. PICK m \in Messages : inbox' = Append(inbox, m)
    BY <1>1, <2>2 DEF Write
  <2>4. inbox' \in Seq(Messages) /\ inbox' # <<>>
    BY <2>3, AppendIsSeq
  <2>5. written' \in 0 .. MaxMessages
    BY <1>1, ApprovalConstants DEF Write
  <2> QED
    BY <1>1, <2>4, <2>5 DEF Write
<1>2. ASSUME NEW a \in Actions, TtlPasses(a) PROVE TypeInv'
  <2>1. overdue' \in Seq(Actions)
    BY <1>2, AppendIsSeq DEF TtlPasses
  <2> QED
    BY <1>2, <2>1 DEF TtlPasses
<1>3. CASE SettleFails
  <2>1. fails' \in 0 .. MaxFails
    BY <1>3, ApprovalConstants DEF SettleFails
  <2> QED
    BY <1>3, <2>1, ZeroIndex, PositionType DEF SettleFails
<1>4. CASE TurnThrows
  <2>1. fails' \in 0 .. MaxFails
    BY <1>4, ApprovalConstants DEF TurnThrows
  <2> QED
    BY <1>4, <2>1, ZeroIndex, PositionType DEF TurnThrows
<1>5. CASE PromptThrows
  BY <1>5, ApprovalConstants DEF PromptThrows
<1>6. CASE SweepRead
  BY <1>6 DEF SweepRead, PendingNow
<1>7. ASSUME NEW a \in Actions, EnqueueNotice(a) PROVE TypeInv'
  <2>1. Item \in Messages
    BY DEF Item, Messages
  <2>2. inbox' \in Seq(Messages) /\ inbox' # <<>>
    BY <1>7, <2>1, AppendIsSeq DEF EnqueueNotice
  <2> QED
    BY <1>7, <2>2 DEF EnqueueNotice
<1>8. ASSUME NEW a \in Actions, MarkExpired(a) PROVE TypeInv'
  BY <1>8 DEF MarkExpired, SetStatus
<1>9. CASE Crash
  <2>1. pc' \in Points /\ crashes' \in 0 .. MaxCrashes /\ (pc' # "idle" => pc # "idle")
    BY <1>9, ApprovalConstants DEF Crash
  <2> QED
    BY <1>9, <2>1 DEF Crash
<1>10. CASE Launch
  BY <1>10 DEF Launch
<1>11. ASSUME NEW a \in Actions, NoticeThrows(a) PROVE TypeInv'
  <2>1. Item \in Messages
    BY DEF Item, Messages
  <2>2. inbox' \in Seq(Messages) /\ (inbox # <<>> => inbox' # <<>>)
    <3>1. Append(inbox, Item) \in Seq(Messages) /\ Append(inbox, Item) # <<>>
      BY <2>1, AppendIsSeq
    <3>2. inbox' = inbox \/ inbox' = Append(inbox, Item)
      BY <1>11 DEF NoticeThrows
    <3> QED
      BY <3>1, <3>2
  <2>3. /\ noticed' \subseteq Actions /\ refused' \subseteq Actions
        /\ sweeping' \subseteq Actions /\ dropped' \subseteq Actions
    BY <1>11 DEF NoticeThrows, Abandon
  <2>4. fails' \in 0 .. MaxFails
    BY <1>11, ApprovalConstants DEF NoticeThrows
  <2> QED
    BY <1>11, <2>2, <2>3, <2>4 DEF NoticeThrows
<1>12. CASE SweepRethrows
  BY <1>12 DEF SweepRethrows, Abandon
<1>13. CASE MarkThrows
  BY <1>13, ApprovalConstants DEF MarkThrows, Abandon
<1> QED
  BY <1>1, <1>2, <1>3, <1>4, <1>5, <1>6, <1>7, <1>8, <1>9, <1>10, <1>11, <1>12, <1>13
     DEF Next, Sweep

\* Every step keeps the types.
LEMMA NextType == TypeInv /\ [Next]_vars => TypeInv'
<1> SUFFICES ASSUME TypeInv, [Next]_vars PROVE TypeInv'
  OBVIOUS
<1>1. CASE UNCHANGED vars
  BY <1>1 DEF vars, row, lane, sweep, ghost, budget, TypeInv, TypeOK, InboxHeld
<1> QED
  BY <1>1, TurnType, OutsideType

\* The types hold in every behaviour.
LEMMA TypeInvariant == Spec => []TypeInv
<1> QED
  BY InitType, NextType, PTL DEF Spec

\* Every state is well typed (src/hitl/, src/agent/handle-turn.ts).
THEOREM TypeCorrect == Spec => []TypeOK
<1>1. TypeInv => TypeOK
  BY DEF TypeInv
<1> QED
  BY <1>1, TypeInvariant, PTL
-----------------------------------------------------------------------------
(* Settlements.  A settlement holds a pending row from its flip to its     *)
(* commit, because the sweep waits for the row's lock and a crash or a     *)
(* throw rolls the flip back.                                              *)

\* A turn locks a row only while it settles it, and counts what it executes.
LEMMA TurnLock ==
  ASSUME TypeInv, ApprovalInv, Turn
  PROVE  LockHeld' /\ ExecutionCounted'
<1> USE DEF TypeInv, TypeOK, ApprovalInv, LockHeld, ExecutionCounted, Step, InSettle, Settled,
            row, lane, sweep, ghost, budget, SetStatus
<1>1. CASE StartTurn
  BY <1>1 DEF StartTurn
<1>2. CASE QuoteDecidesNothing
  BY <1>2 DEF QuoteDecidesNothing, BoundAction
<1>3. CASE QuoteDenies
  BY <1>3 DEF QuoteDenies
<1>4. CASE QuoteApproves
  <2>1. target' \in Actions /\ stamp[target'] = by'
    BY <1>4 DEF QuoteApproves, BoundAction
  <2> QED
    BY <1>4, <2>1 DEF QuoteApproves
<1>5. CASE SettleStart
  BY <1>5 DEF SettleStart
<1>6. CASE AlreadyResolved
  BY <1>6 DEF AlreadyResolved
<1>7. CASE SettleStale
  BY <1>7 DEF SettleStale
<1>8. CASE CreateEvent
  BY <1>8 DEF CreateEvent
<1>9. CASE SettleCommit
  BY <1>9 DEF SettleCommit
<1>10. CASE ReadDigest
  BY <1>10 DEF ReadDigest
<1>11. CASE ClassifyUnrelated
  BY <1>11 DEF ClassifyUnrelated
<1>12. CASE ClassifyApprove
  <2>1. target' \in Actions /\ by' = 0
    BY <1>12 DEF ClassifyApprove, Candidates
  <2> QED
    BY <1>12, <2>1 DEF ClassifyApprove
<1>13. CASE ClassifyDeny
  BY <1>13 DEF ClassifyDeny
<1>14. CASE ClassifyRefine
  BY <1>14 DEF ClassifyRefine
<1>15. CASE Answer
  BY <1>15 DEF Answer
<1>16. ASSUME NEW a \in Actions, Park(a) PROVE LockHeld' /\ ExecutionCounted'
  BY <1>16 DEF Park
<1>17. CASE CloseParked
  BY <1>17 DEF CloseParked
<1>18. CASE ReadUnstamped
  BY <1>18 DEF ReadUnstamped
<1>19. CASE SendPrompt
  BY <1>19 DEF SendPrompt
<1>20. CASE StampPrompt
  BY <1>20 DEF StampPrompt
<1>21. CASE DeadLetterPrompt
  BY <1>21 DEF DeadLetterPrompt
<1>22. CASE PromptsDone
  BY <1>22 DEF PromptsDone
<1>23. CASE NextDrain
  BY <1>23 DEF NextDrain
<1>24. CASE MarkProcessed
  BY <1>24 DEF MarkProcessed
<1> QED
  BY <1>1, <1>2, <1>3, <1>4, <1>5, <1>6, <1>7, <1>8, <1>9, <1>10, <1>11, <1>12,
     <1>13, <1>14, <1>15, <1>16, <1>17, <1>18, <1>19, <1>20, <1>21, <1>22,
     <1>23, <1>24 DEF Turn

\* Nobody outside the turn unlocks a row or executes an action.
LEMMA OutsideLock ==
  ASSUME TypeInv, ApprovalInv, Next, ~Turn
  PROVE  LockHeld' /\ ExecutionCounted'
<1> USE DEF TypeInv, TypeOK, ApprovalInv, LockHeld, ExecutionCounted, Step, InSettle, Settled,
            row, lane, sweep, ghost, budget, InTurn, InPrompt, SetStatus
<1>1. CASE Write
  BY <1>1 DEF Write
<1>2. ASSUME NEW a \in Actions, TtlPasses(a) PROVE LockHeld' /\ ExecutionCounted'
  BY <1>2 DEF TtlPasses
<1>3. CASE SettleFails
  BY <1>3 DEF SettleFails
<1>4. CASE TurnThrows
  BY <1>4 DEF TurnThrows
<1>5. CASE PromptThrows
  BY <1>5 DEF PromptThrows
<1>6. CASE SweepRead
  BY <1>6 DEF SweepRead
<1>7. ASSUME NEW a \in Actions, EnqueueNotice(a) PROVE LockHeld' /\ ExecutionCounted'
  BY <1>7 DEF EnqueueNotice
<1>8. ASSUME NEW a \in Actions, MarkExpired(a) PROVE LockHeld' /\ ExecutionCounted'
  BY <1>8 DEF MarkExpired, Locked
<1>9. CASE Crash
  BY <1>9 DEF Crash
<1>10. CASE Launch
  BY <1>10 DEF Launch
<1>11. ASSUME NEW a \in Actions, NoticeThrows(a) PROVE LockHeld' /\ ExecutionCounted'
  BY <1>11 DEF NoticeThrows
<1>12. CASE SweepRethrows
  BY <1>12 DEF SweepRethrows
<1>13. CASE MarkThrows
  BY <1>13 DEF MarkThrows
<1> QED
  BY <1>1, <1>2, <1>3, <1>4, <1>5, <1>6, <1>7, <1>8, <1>9, <1>10, <1>11, <1>12, <1>13
     DEF Next, Sweep

-----------------------------------------------------------------------------
(* Prompts.  A stamp points at the prompt of the row's present arguments;  *)
(* between a park or a refinement and the end of the prompt step, the rows *)
(* that are not stamped are the ones the step holds.                       *)

\* A turn leaves no row unstamped but the ones its prompt step holds.
LEMMA TurnPrompts ==
  ASSUME TypeInv, ApprovalInv, Turn
  PROVE  StampShows' /\ PromptsHeld' /\ PromptedWhenCalm' /\ UnroutableIsSilent'
<1> USE DEF TypeInv, TypeOK, ApprovalInv, InboxHeld, LockHeld, StampShows, Stampable, PromptsHeld,
            PromptedWhenCalm, UnroutableIsSilent, PendingNow, Calm, Step, InSettle, InPrompt,
            Settled, row, lane, sweep, ghost, budget, SetStatus
<1>1. CASE StartTurn
  BY <1>1 DEF StartTurn
<1>2. CASE QuoteDecidesNothing
  BY <1>2 DEF QuoteDecidesNothing, BoundAction
<1>3. CASE QuoteDenies
  <2>1. PICK a \in BoundAction : status' = [status EXCEPT ![a] = "denied"] \/ status' = status
    BY <1>3 DEF QuoteDenies
  <2>2. /\ pc = "quoted" /\ pc' = "model"
        /\ UNCHANGED <<routable, args, stamp, boundTo, shown, inbox, unsent, target>>
        /\ status[a] # "pending" => UNCHANGED status
    BY <1>3, <2>1 DEF QuoteDenies, BoundAction
  <2> QED
    BY <2>1, <2>2 DEF BoundAction
<1>4. CASE QuoteApproves
  <2>1. /\ pc = "quoted" /\ pc' = "settle" /\ Message.says = "yes"
        /\ UNCHANGED <<routable, status, args, stamp, boundTo, shown, inbox, unsent>>
    BY <1>4 DEF QuoteApproves
  <2>2. StampShows' /\ PromptsHeld' /\ PromptedWhenCalm'
    BY <2>1
  <2>3. Message # Item /\ Message = inbox[1] /\ 1 \in 1 .. Len(inbox)
    <3>1. Message # Item
      BY <2>1 DEF Item
    <3>2. inbox \in Seq(Messages) /\ inbox # <<>>
      BY <2>1
    <3> QED
      BY ONLY <3>1, <3>2 DEF Message
  <2>4. routable
    BY <2>3
  <2> QED
    BY <2>1, <2>2, <2>4
<1>5. CASE SettleStart
  BY <1>5 DEF SettleStart
<1>6. CASE AlreadyResolved
  BY <1>6 DEF AlreadyResolved
<1>7. CASE SettleStale
  BY <1>7 DEF SettleStale
<1>8. CASE CreateEvent
  BY <1>8 DEF CreateEvent
<1>9. CASE SettleCommit
  <2>1. /\ target \in Actions /\ status[target] = "pending"
        /\ by # 0 => stamp[target] = by
    BY <1>9 DEF SettleCommit
  <2>2. routable /\ stamp[target] # 0
    BY <1>9, <2>1, ApprovalConstants DEF SettleCommit
  <2>3. \A a \in Actions :
          /\ a # target => status'[a] = status[a] /\ boundTo'[a] = boundTo[a]
          /\ a = target => status'[a] = "executed" /\ boundTo'[a] = by
    BY <1>9 DEF SettleCommit
  <2>4. pc' = "model" /\ target' = NoAction
        /\ UNCHANGED <<routable, args, stamp, shown, unsent, inbox>>
    BY <1>9 DEF SettleCommit
  <2>5. unsent = {}
    BY <1>9 DEF SettleCommit
  <2>6. StampShows'
    <3> SUFFICES ASSUME NEW a \in Actions
                 PROVE  /\ stamp[a] # 0 => shown[stamp[a]] = <<a, args[a]>>
                        /\ status'[a] = "none" => stamp[a] = 0
                        /\ status'[a] = "executed" => stamp[a] # 0
                        /\ boundTo'[a] # 0 => status'[a] = "executed" /\ boundTo'[a] = stamp[a]
      BY <2>4
    <3>1. CASE a = target
      BY <2>1, <2>2, <2>3, <3>1
    <3>2. CASE a # target
      <4>1. /\ stamp[a] # 0 => shown[stamp[a]] = <<a, args[a]>>
            /\ status[a] = "none" => stamp[a] = 0
            /\ status[a] = "executed" => stamp[a] # 0
            /\ boundTo[a] # 0 => status[a] = "executed" /\ boundTo[a] = stamp[a]
        OBVIOUS
      <4>2. status'[a] = status[a] /\ boundTo'[a] = boundTo[a]
        BY <2>3, <3>2
      <4> QED
        BY <4>1, <4>2
    <3> QED
      BY <3>1, <3>2
  <2>7. PromptsHeld'
    BY <2>4, <2>5
  <2>8. PromptedWhenCalm'
    BY <1>9, <2>3, <2>4 DEF SettleCommit
  <2> QED
    BY <2>2, <2>4, <2>6, <2>7, <2>8
<1>10. CASE ReadDigest
  BY <1>10 DEF ReadDigest
<1>11. CASE ClassifyUnrelated
  BY <1>11 DEF ClassifyUnrelated
<1>12. CASE ClassifyApprove
  <2>1. CASE ~routable
    <3>1. Message = Item
      BY <1>12, <2>1 DEF ClassifyApprove, Message
    <3>2. Candidates = {}
      BY <2>1, <3>1 DEF Candidates
    <3> QED
      BY <1>12, <3>2 DEF ClassifyApprove
  <2>2. CASE routable
    BY <1>12, <2>2 DEF ClassifyApprove
  <2> QED
    BY <2>1, <2>2
<1>13. CASE ClassifyDeny
  BY <1>13 DEF ClassifyDeny
<1>14. CASE ClassifyRefine
  <2>1. PICK a \in Candidates, x \in Args :
          IF status[a] = "pending"
          THEN /\ args' = [args EXCEPT ![a] = x]
               /\ stamp' = [stamp EXCEPT ![a] = 0]
               /\ pc' = "prompts"
          ELSE UNCHANGED <<args, stamp>> /\ pc' = "model"
    BY <1>14 DEF ClassifyRefine
  <2>2. /\ pc = "classify" /\ target' = NoAction
        /\ UNCHANGED <<routable, status, boundTo, shown, inbox, unsent>>
    BY <1>14 DEF ClassifyRefine
  <2>3. a \in Actions /\ (routable \/ Candidates = {})
    <3>1. ~routable => Message = Item
      BY <1>14 DEF ClassifyRefine, Message
    <3> QED
      BY <3>1 DEF Candidates
  <2>4. CASE status[a] = "pending"
    <3>1. args' = [args EXCEPT ![a] = x] /\ stamp' = [stamp EXCEPT ![a] = 0] /\ pc' = "prompts"
      BY <2>1, <2>4
    <3>2. StampShows'
      BY <2>2, <2>3, <2>4, <3>1
    <3>3. PromptsHeld' /\ PromptedWhenCalm' /\ UnroutableIsSilent'
      BY <2>2, <2>3, <3>1 DEF Calm
    <3> QED
      BY <3>2, <3>3
  <2>5. CASE status[a] # "pending"
    <3>1. UNCHANGED <<args, stamp>> /\ pc' = "model"
      BY <2>1, <2>5
    <3> QED
      BY <2>2, <3>1
  <2> QED
    BY <2>4, <2>5
<1>15. CASE Answer
  BY <1>15 DEF Answer
<1>16. ASSUME NEW a \in Actions, Park(a)
      PROVE StampShows' /\ PromptsHeld' /\ PromptedWhenCalm' /\ UnroutableIsSilent'
  BY <1>16 DEF Park
<1>17. CASE CloseParked
  BY <1>17 DEF CloseParked
<1>18. CASE ReadUnstamped
  BY <1>18 DEF ReadUnstamped
<1>19. CASE SendPrompt
  <2>1. PICK p \in unsent : shown' = Append(shown, p) /\ unsent' = unsent \ {p}
    BY <1>19 DEF SendPrompt
  <2>2. /\ p \in Actions \X Args
        /\ Len(shown) \in Nat /\ Len(shown') = Len(shown) + 1
        /\ shown'[Len(shown')] = p
        /\ \A i \in 1 .. Len(shown) : shown'[i] = shown[i]
    BY <2>1
  <2>3. /\ routable' /\ routable /\ pc = "sending" /\ pc' = "stamping"
        /\ UNCHANGED <<status, args, stamp, boundTo, target, inbox>>
    BY <1>19 DEF SendPrompt
  <2>4. StampShows'
    <3>1. \A a \in Actions : stamp[a] # 0 => stamp[a] \in 1 .. Len(shown)
      BY <2>2
    <3>2. \A a \in Actions : stamp[a] # 0 => shown'[stamp[a]] = <<a, args[a]>>
      BY <2>2, <3>1
    <3> QED
      BY <2>3, <3>2
  <2>5. PromptsHeld'
    BY <2>1, <2>2, <2>3
  <2> QED
    BY <2>3, <2>4, <2>5
<1>20. CASE StampPrompt
  <2>1. PICK a \in Actions :
          shown[Len(shown)] = <<a, args[a]>> /\ status[a] # "none" /\ stamp[a] = 0
    BY <1>20 DEF StampPrompt
  <2>2. Len(shown) \in Nat /\ Len(shown) > 0 /\ stamp' = [stamp EXCEPT ![a] = Len(shown)]
    BY <1>20, <2>1 DEF StampPrompt
  <2>3. /\ pc = "stamping" /\ pc' = "sending"
        /\ UNCHANGED <<routable, status, args, shown, boundTo, target, inbox, unsent>>
    BY <1>20 DEF StampPrompt
  <2>4. \A b \in Actions : stamp'[b] = IF b = a THEN Len(shown) ELSE stamp[b]
    BY <2>2
  <2>5. StampShows'
    BY <2>1, <2>2, <2>3, <2>4
  <2>6. <<a, args[a]>> \notin unsent
    BY <2>1, <2>3
  <2>7. \A p \in unsent : Stampable(p)'
    <3> SUFFICES ASSUME NEW p \in unsent PROVE Stampable(p)'
      OBVIOUS
    <3>1. PICK b \in Actions : p = <<b, args[b]>> /\ status[b] # "none" /\ stamp[b] = 0
      OBVIOUS
    <3>2. b # a
      BY <2>6, <3>1
    <3> QED
      BY <2>3, <2>4, <3>1, <3>2
  <2>8. PromptsHeld'
    BY <2>1, <2>2, <2>3, <2>4, <2>7
  <2> QED
    BY <2>3, <2>5, <2>8
<1>21. CASE DeadLetterPrompt
  BY <1>21 DEF DeadLetterPrompt
<1>22. CASE PromptsDone
  BY <1>22 DEF PromptsDone
<1>23. CASE NextDrain
  BY <1>23 DEF NextDrain
<1>24. CASE MarkProcessed
  BY <1>24 DEF MarkProcessed
<1> QED
  BY <1>1, <1>2, <1>3, <1>4, <1>5, <1>6, <1>7, <1>8, <1>9, <1>10, <1>11, <1>12,
     <1>13, <1>14, <1>15, <1>16, <1>17, <1>18, <1>19, <1>20, <1>21, <1>22,
     <1>23, <1>24 DEF Turn

\* What leaves the rows, the chat and the prompt step alone keeps them.
LEMMA PromptsStutter ==
  ASSUME StampShows, PromptsHeld, PromptedWhenCalm,
         UNCHANGED <<status, args, stamp, shown, pc, unsent, boundTo, routable>>
  PROVE  StampShows' /\ PromptsHeld' /\ PromptedWhenCalm'
<1>1. StampShows'
  BY DEF StampShows
<1>2. PromptsHeld'
  BY DEF PromptsHeld, Stampable, PendingNow
<1>3. PromptedWhenCalm'
  BY DEF PromptedWhenCalm, PendingNow
<1> QED
  BY <1>1, <1>2, <1>3

\* A notice in the inbox is nobody's utterance.
LEMMA ItemIsSilent ==
  ASSUME TypeInv, UnroutableIsSilent, UNCHANGED <<routable, shown, target>>,
         inbox' = inbox \/ inbox' = Append(inbox, Item)
  PROVE  UnroutableIsSilent'
<1>1. ~routable => \A i \in 1 .. Len(inbox') : inbox'[i] = Item
  <2> SUFFICES ASSUME ~routable, NEW i \in 1 .. Len(inbox') PROVE inbox'[i] = Item
    OBVIOUS
  <2>1. inbox \in Seq(Messages) /\ \A k \in 1 .. Len(inbox) : inbox[k] = Item
    BY DEF TypeInv, TypeOK, UnroutableIsSilent
  <2>2. CASE inbox' = inbox
    BY <2>1, <2>2
  <2>3. CASE inbox' = Append(inbox, Item)
    <3>1. Len(inbox') = Len(inbox) + 1 /\ Len(inbox) \in Nat
      BY <2>1, <2>3
    <3>2. CASE i = Len(inbox) + 1
      BY <2>1, <2>3, <3>2
    <3>3. CASE i \in 1 .. Len(inbox)
      BY <2>1, <2>3, <3>3
    <3> QED
      BY <3>1, <3>2, <3>3
  <2> QED
    BY <2>2, <2>3
<1> QED
  BY <1>1 DEF UnroutableIsSilent

\* Nobody outside the turn unstamps a row.
LEMMA OutsidePrompts ==
  ASSUME TypeInv, ApprovalInv, Next, ~Turn
  PROVE  StampShows' /\ PromptsHeld' /\ PromptedWhenCalm' /\ UnroutableIsSilent'
<1> USE DEF TypeInv, TypeOK, ApprovalInv, InboxHeld, LockHeld, StampShows, Stampable, PromptsHeld,
            PromptedWhenCalm, UnroutableIsSilent, PendingNow, Calm, Step, InSettle, InPrompt,
            Settled, row, lane, sweep, ghost, budget, SetStatus, InTurn
<1>1. CASE Write
  <2>1. UNCHANGED <<status, args, stamp, shown, pc, target, unsent, boundTo, routable>>
    BY <1>1 DEF Write
  <2>2. StampShows' /\ PromptsHeld' /\ PromptedWhenCalm'
    BY <2>1, PromptsStutter
  <2>3. UnroutableIsSilent'
    <3>1. PICK m : (routable \/ m = Item) /\ inbox' = Append(inbox, m)
      BY <1>1 DEF Write
    <3> QED
      BY <2>1, <3>1
  <2> QED
    BY <2>2, <2>3
<1>2. ASSUME NEW a \in Actions, TtlPasses(a)
      PROVE StampShows' /\ PromptsHeld' /\ PromptedWhenCalm' /\ UnroutableIsSilent'
  BY <1>2 DEF TtlPasses
<1>3. CASE SettleFails
  BY <1>3 DEF SettleFails
<1>4. CASE TurnThrows
  BY <1>4 DEF TurnThrows
<1>5. CASE PromptThrows
  BY <1>5 DEF PromptThrows
<1>6. CASE SweepRead
  BY <1>6 DEF SweepRead
<1>7. ASSUME NEW a \in Actions, EnqueueNotice(a)
      PROVE StampShows' /\ PromptsHeld' /\ PromptedWhenCalm' /\ UnroutableIsSilent'
  BY <1>7, PromptsStutter, ItemIsSilent DEF EnqueueNotice
<1>8. ASSUME NEW a \in Actions, MarkExpired(a)
      PROVE StampShows' /\ PromptsHeld' /\ PromptedWhenCalm' /\ UnroutableIsSilent'
  <2>1. UNCHANGED <<routable, args, stamp, shown, boundTo, target, pc, unsent, inbox>>
    BY <1>8 DEF MarkExpired
  <2>2. CASE UNCHANGED status
    BY <2>1, <2>2
  <2>3. CASE status[a] = "pending" /\ status' = [status EXCEPT ![a] = "expired"]
    <3>1. \A b \in Actions : status'[b] = IF b = a THEN "expired" ELSE status[b]
      BY <2>3
    <3> QED
      BY <2>1, <2>3, <3>1
  <2> QED
    BY <1>8, <2>2, <2>3 DEF MarkExpired
<1>9. CASE Crash
  BY <1>9 DEF Crash
<1>10. CASE Launch
  BY <1>10 DEF Launch
<1>11. ASSUME NEW a \in Actions, NoticeThrows(a)
       PROVE StampShows' /\ PromptsHeld' /\ PromptedWhenCalm' /\ UnroutableIsSilent'
  BY <1>11, PromptsStutter, ItemIsSilent DEF NoticeThrows
<1>12. CASE SweepRethrows
  BY <1>12 DEF SweepRethrows
<1>13. CASE MarkThrows
  BY <1>13 DEF MarkThrows
<1> QED
  BY <1>1, <1>2, <1>3, <1>4, <1>5, <1>6, <1>7, <1>8, <1>9, <1>10, <1>11, <1>12, <1>13
     DEF Next, Sweep

\* There are no approvals at first.
LEMMA InitApproval == Init => ApprovalInv
BY DEF Init, ApprovalInv, InboxHeld, LockHeld, ExecutionCounted, StampShows, PromptsHeld,
       Stampable, PromptedWhenCalm, PendingNow, UnroutableIsSilent, InSettle, InPrompt

\* Every step keeps the approvals sound.
LEMMA NextApproval == TypeInv /\ ApprovalInv /\ [Next]_vars => ApprovalInv'
<1> SUFFICES ASSUME TypeInv, ApprovalInv, [Next]_vars PROVE ApprovalInv'
  OBVIOUS
<1>1. CASE UNCHANGED vars
  BY <1>1 DEF vars, row, lane, sweep, ghost, budget, ApprovalInv, InboxHeld, LockHeld,
     ExecutionCounted, StampShows, PromptsHeld, Stampable, PromptedWhenCalm, PendingNow,
     UnroutableIsSilent
<1>2. CASE Next
  <2>1. InboxHeld'
    BY <1>2, NextType DEF TypeInv
  <2>2. LockHeld' /\ ExecutionCounted'
    BY <1>2, TurnLock, OutsideLock
  <2>3. StampShows' /\ PromptsHeld' /\ PromptedWhenCalm' /\ UnroutableIsSilent'
    BY <1>2, TurnPrompts, OutsidePrompts
  <2> QED
    BY <2>1, <2>2, <2>3 DEF ApprovalInv
<1> QED
  BY <1>1, <1>2

\* The inductive invariant of approvals (src/hitl/, handle-turn.ts).
THEOREM ApprovalsSound == Spec => []ApprovalInv
<1> QED
  BY InitType, NextType, InitApproval, NextApproval, PTL DEF Spec

\* No double approval, crash or retry executes an action twice
\* (pending-actions.ts, claimForExecution).
THEOREM ExecutedOnceHolds == Spec => []ExecutedOnce
<1>1. ApprovalInv => ExecutedOnce
  <2> SUFFICES ASSUME ApprovalInv, NEW a \in Actions PROVE executions[a] <= 1
    BY DEF ExecutedOnce
  <2>1. executions[a] = 0 \/ executions[a] = 1
    BY DEF ApprovalInv, ExecutionCounted
  <2> QED
    BY <2>1
<1> QED
  BY <1>1, ApprovalsSound, PTL

\* What was executed was prompted for with those very arguments
\* (refine-action.ts, approval-prompt.ts).
THEOREM ExecutedWasShownHolds == Spec => []ExecutedWasShown
<1>1. TypeInv /\ ApprovalInv => ExecutedWasShown
  <2> SUFFICES ASSUME TypeInv, ApprovalInv, NEW a \in Actions, status[a] = "executed"
               PROVE  \E i \in 1 .. Len(shown) : shown[i] = <<a, args[a]>>
    BY DEF ExecutedWasShown
  <2>1. stamp[a] \in 0 .. Len(shown) /\ stamp[a] # 0 /\ Len(shown) \in Nat
    BY DEF TypeInv, TypeOK, ApprovalInv, StampShows
  <2>2. shown[stamp[a]] = <<a, args[a]>>
    BY <2>1 DEF ApprovalInv, StampShows
  <2> QED
    BY <2>1, <2>2
<1> QED
  BY <1>1, ApprovalsSound, TypeInvariant, PTL

\* A quoted approval executes what the quoted prompt said
\* (resolve-approval.ts, getActionByPromptMessageId).
THEOREM QuotedIsExecutedHolds == Spec => []QuotedIsExecuted
<1>1. ApprovalInv => QuotedIsExecuted
  BY DEF ApprovalInv, StampShows, QuotedIsExecuted
<1> QED
  BY <1>1, ApprovalsSound, PTL

\* No park or refinement leaves the lane without its prompt (approval-prompt.ts).
THEOREM PromptedWhenCalmHolds == Spec => []PromptedWhenCalm
<1>1. ApprovalInv => PromptedWhenCalm
  BY DEF ApprovalInv
<1> QED
  BY <1>1, ApprovalsSound, PTL

-----------------------------------------------------------------------------
(* Finality, notices and the calendar.  Few actions write a row's status,  *)
(* one writes the calendar.                                                *)

WritesStatus ==
  \/ QuoteDenies \/ SettleStale \/ SettleCommit \/ ClassifyDeny
  \/ \E a \in Actions : Park(a) \/ MarkExpired(a)

\* The actions that change a status.
LEMMA StatusWriters ==
  ASSUME [Next]_vars
  PROVE  WritesStatus \/ UNCHANGED status
<1> USE DEF row, lane, sweep, ghost, budget
<1>1. ASSUME Turn PROVE WritesStatus \/ UNCHANGED status
  BY <1>1 DEF Turn, WritesStatus, StartTurn, QuoteDecidesNothing, QuoteApproves, SettleStart,
     AlreadyResolved, CreateEvent, ReadDigest, ClassifyUnrelated, ClassifyApprove,
     ClassifyRefine, Answer, CloseParked, ReadUnstamped, SendPrompt, StampPrompt,
     DeadLetterPrompt, PromptsDone, NextDrain, MarkProcessed
<1>2. ASSUME Next, ~Turn PROVE WritesStatus \/ UNCHANGED status
  BY <1>2 DEF Next, Sweep, WritesStatus, Write, TtlPasses, SettleFails, TurnThrows,
     PromptThrows, SweepRead, EnqueueNotice, NoticeThrows, SweepRethrows, MarkThrows, Crash,
     Launch
<1> QED
  BY <1>1, <1>2 DEF vars

\* What a step does to the calendar.
LEMMA CalendarWriter ==
  ASSUME [Next]_vars
  PROVE  CreateEvent \/ UNCHANGED calendar
<1> USE DEF row, lane, sweep, ghost, budget
<1>1. ASSUME Turn PROVE CreateEvent \/ UNCHANGED calendar
  BY <1>1 DEF Turn, StartTurn, QuoteDecidesNothing, QuoteDenies, QuoteApproves, SettleStart,
     AlreadyResolved, SettleStale, CreateEvent, SettleCommit, ReadDigest, ClassifyUnrelated,
     ClassifyApprove, ClassifyDeny, ClassifyRefine, Answer, Park, CloseParked, ReadUnstamped,
     SendPrompt, StampPrompt, DeadLetterPrompt, PromptsDone, NextDrain, MarkProcessed
<1>2. ASSUME Next, ~Turn PROVE UNCHANGED calendar
  BY <1>2 DEF Next, Sweep, Write, TtlPasses, SettleFails, TurnThrows, PromptThrows,
     SweepRead, EnqueueNotice, NoticeThrows, SweepRethrows, MarkExpired, MarkThrows, Crash,
     Launch
<1> QED
  BY <1>1, <1>2 DEF vars

\* A settled row stays what it is (pending-actions.ts, the guarded updates).
THEOREM SettledIsFinalHolds == Spec => SettledIsFinal
<1> DEFINE Final == \A a \in Actions : status[a] \in Settled => status'[a] = status[a]
<1>1. TypeInv /\ ApprovalInv /\ [Next]_vars => [Final]_vars
  <2> SUFFICES ASSUME TypeInv, ApprovalInv, [Next]_vars, NEW a \in Actions, status[a] \in Settled
               PROVE  status'[a] = status[a]
    OBVIOUS
  <2>1. status[a] # "pending" /\ status[a] # "none"
    BY DEF Settled
  <2>2. status \in [Actions -> Statuses]
    BY DEF TypeInv, TypeOK
  <2> USE DEF SetStatus
  <2>3. CASE QuoteDenies
    BY <2>1, <2>2, <2>3 DEF QuoteDenies
  <2>4. CASE SettleStale \/ SettleCommit
    <3>1. status[target] = "pending"
      BY <2>4 DEF SettleStale, SettleCommit, Step, ApprovalInv, LockHeld, InSettle
    <3> QED
      BY <2>1, <2>2, <2>4, <3>1 DEF SettleStale, SettleCommit
  <2>5. CASE ClassifyDeny
    BY <2>1, <2>2, <2>5 DEF ClassifyDeny
  <2>6. CASE \E b \in Actions : Park(b) \/ MarkExpired(b)
    BY <2>1, <2>2, <2>6 DEF Park, MarkExpired
  <2> QED
    BY <2>3, <2>4, <2>5, <2>6, StatusWriters DEF WritesStatus
<1> QED
  BY <1>1, TypeInvariant, ApprovalsSound, PTL DEF Spec, SettledIsFinal

\* What writes the sweep's state.
WritesSweep ==
  \/ SweepRead \/ SweepRethrows \/ MarkThrows
  \/ \E a \in Actions : EnqueueNotice(a) \/ MarkExpired(a) \/ NoticeThrows(a)

\* The turn, the clock and a crash leave the sweep where it is.
LEMMA SweepWriters ==
  ASSUME [Next]_vars
  PROVE  WritesSweep \/ UNCHANGED sweep
<1> USE DEF row, lane, ghost, budget
<1>1. ASSUME Turn PROVE UNCHANGED sweep
  BY <1>1 DEF Turn, StartTurn, QuoteDecidesNothing, QuoteDenies, QuoteApproves, SettleStart,
     AlreadyResolved, SettleStale, CreateEvent, SettleCommit, ReadDigest, ClassifyUnrelated,
     ClassifyApprove, ClassifyDeny, ClassifyRefine, Answer, Park, CloseParked, ReadUnstamped,
     SendPrompt, StampPrompt, DeadLetterPrompt, PromptsDone, NextDrain, MarkProcessed
<1>2. ASSUME Next, ~Turn PROVE WritesSweep \/ UNCHANGED sweep
  BY <1>2 DEF Next, Sweep, WritesSweep, Write, TtlPasses, SettleFails, TurnThrows,
     PromptThrows, Crash, Launch
<1> QED
  BY <1>1, <1>2 DEF vars

\* A row is never unwritten, and nothing but its own park makes it pending.
LEMMA StatusMoves ==
  ASSUME TypeInv, [Next]_vars, NEW a \in Actions
  PROVE  /\ status[a] # "none" => status'[a] # "none"
         /\ status'[a] = "pending" => status[a] \in {"none", "pending"}
<1> USE DEF TypeInv, TypeOK, SetStatus
<1>1. CASE QuoteDenies
  BY <1>1 DEF QuoteDenies
<1>2. CASE SettleStale \/ SettleCommit
  BY <1>2 DEF SettleStale, SettleCommit
<1>3. CASE ClassifyDeny
  BY <1>3 DEF ClassifyDeny
<1>4. CASE \E b \in Actions : Park(b) \/ MarkExpired(b)
  BY <1>4 DEF Park, MarkExpired
<1> QED
  BY <1>1, <1>2, <1>3, <1>4, StatusWriters DEF WritesStatus

\* The sweep and its notices are about rows that are written.
SweptAreWritten == \A a \in sweeping \cup noticed : status[a] # "none"

\* What a notice has announced is settled, or in the hands of a sweep that will
\* mark it, or was in the hands of one that threw (expiry.ts, expirySweep).
THEOREM AnnouncedIsHeldHolds == Spec => []AnnouncedIsHeld
<1> DEFINE Inv == AnnouncedIsHeld /\ SweptAreWritten
<1>1. Init => Inv
  BY DEF Init, AnnouncedIsHeld, SweptAreWritten
<1>2. TypeInv /\ Inv /\ [Next]_vars => Inv'
  <2> SUFFICES ASSUME TypeInv, Inv, [Next]_vars PROVE Inv'
    OBVIOUS
  <2>1. sweeping \subseteq Actions /\ noticed \subseteq Actions /\ status \in [Actions -> Statuses]
    BY DEF TypeInv, TypeOK
  <2>2. \A a \in Actions : /\ status[a] # "none" => status'[a] # "none"
                           /\ status'[a] = "pending" => status[a] \in {"none", "pending"}
    BY StatusMoves
  <2>3. \A a \in sweeping \cup noticed :
          status'[a] # "none" /\ (status'[a] = "pending" => status[a] = "pending")
    BY <2>1, <2>2 DEF SweptAreWritten
  <2>4. \A a \in noticed : status'[a] = "pending" => a \in sweeping \cup dropped
    BY <2>3 DEF AnnouncedIsHeld
  <2>5. CASE UNCHANGED sweep
    BY <2>3, <2>4, <2>5 DEF sweep, AnnouncedIsHeld, SweptAreWritten
  <2>6. CASE SweepRead
    <3>1. /\ sweeping' \subseteq PendingNow
          /\ sweeping = {} /\ noticed' = noticed /\ dropped' = dropped \ sweeping'
          /\ UNCHANGED status
      BY <2>6 DEF SweepRead, row
    <3> QED
      BY <2>3, <2>4, <3>1 DEF AnnouncedIsHeld, SweptAreWritten, PendingNow
  <2>7. CASE SweepRethrows \/ MarkThrows
    <3>1. sweeping' = {} /\ dropped' = dropped \cup (sweeping \cap noticed) /\ noticed' = noticed
      BY <2>7 DEF SweepRethrows, MarkThrows, Abandon
    <3> QED
      BY <2>3, <2>4, <3>1 DEF AnnouncedIsHeld, SweptAreWritten
  <2>8. ASSUME NEW b \in Actions, EnqueueNotice(b) PROVE Inv'
    <3>1. b \in sweeping /\ noticed' = noticed \cup {b} /\ UNCHANGED <<sweeping, dropped>>
      BY <2>8 DEF EnqueueNotice, At
    <3> QED
      BY <2>3, <2>4, <3>1 DEF AnnouncedIsHeld, SweptAreWritten
  <2>9. ASSUME NEW b \in Actions, NoticeThrows(b) PROVE Inv'
    <3>1. /\ b \in sweeping /\ noticed \subseteq noticed' /\ noticed' \subseteq noticed \cup {b}
          /\ sweeping' = {} /\ dropped' = dropped \cup (sweeping \cap noticed')
      BY <2>9 DEF NoticeThrows, At, Abandon
    <3> QED
      BY <2>3, <2>4, <3>1 DEF AnnouncedIsHeld, SweptAreWritten
  <2>10. ASSUME NEW b \in Actions, MarkExpired(b) PROVE Inv'
    <3>1. status'[b] # "pending"
      BY <2>1, <2>10 DEF MarkExpired, SetStatus
    <3>2. sweeping' = sweeping \ {b} /\ UNCHANGED <<noticed, dropped>>
      BY <2>10 DEF MarkExpired
    <3> QED
      BY <2>3, <2>4, <3>1, <3>2 DEF AnnouncedIsHeld, SweptAreWritten
  <2> QED
    BY <2>5, <2>6, <2>7, <2>8, <2>9, <2>10, SweepWriters DEF WritesSweep
<1> QED
  BY <1>1, <1>2, TypeInvariant, PTL DEF Spec

\* The deterministic event id: one event per action and calendar, whatever is
\* replayed, retried or refined (calendar-client.ts, the 409 answer).
THEOREM EventCreatedOnceHolds == Spec => []EventCreatedOnce
<1>1. Init => EventCreatedOnce
  BY DEF Init, EventCreatedOnce, OnCalendar
<1>2. TypeInv /\ EventCreatedOnce /\ [Next]_vars => EventCreatedOnce'
  <2> SUFFICES ASSUME TypeInv, EventCreatedOnce, [Next]_vars PROVE EventCreatedOnce'
    OBVIOUS
  <2>1. CASE UNCHANGED calendar
    BY <2>1 DEF EventCreatedOnce, OnCalendar
  <2>2. CASE calendar' # calendar
    <3>1. CreateEvent
      BY <2>2, CalendarWriter
    <3> DEFINE y == args[target]
    <3>2. /\ \A x \in Args : OwnerOf[x] = OwnerOf[y] => ~OnCalendar(target, x)
          /\ calendar' = [calendar EXCEPT ![<<target, y>>] = @ + 1]
      BY <2>2, <3>1 DEF CreateEvent
    <3>3. calendar \in [Actions \X Args -> Nat]
      BY DEF TypeInv, TypeOK
    <3> SUFFICES ASSUME NEW a \in Actions, NEW x \in Args, NEW z \in Args
                 PROVE  /\ calendar'[<<a, x>>] <= 1
                        /\ OwnerOf[x] = OwnerOf[z]
                         /\ calendar'[<<a, x>>] > 0 /\ calendar'[<<a, z>>] > 0
                             => x = z
      BY DEF EventCreatedOnce, OnCalendar
    <3>4. \A e \in Actions \X Args :
            calendar'[e] = IF e = <<target, y>> THEN calendar[e] + 1 ELSE calendar[e]
      BY <3>2, <3>3
    <3>5. /\ calendar[<<a, x>>] <= 1 /\ calendar[<<a, x>>] \in Nat
          /\ calendar[<<a, z>>] <= 1 /\ calendar[<<a, z>>] \in Nat
          /\ OwnerOf[x] = OwnerOf[z] /\ calendar[<<a, x>>] > 0 /\ calendar[<<a, z>>] > 0 => x = z
      BY <3>3 DEF EventCreatedOnce, OnCalendar
    <3>6. CASE a = target
      <4>1. \A w \in Args : OwnerOf[w] = OwnerOf[y] => calendar[<<a, w>>] = 0
        BY <3>2, <3>3, <3>6 DEF OnCalendar
      <4>2. /\ calendar'[<<a, x>>] = IF x = y THEN calendar[<<a, x>>] + 1 ELSE calendar[<<a, x>>]
            /\ calendar'[<<a, z>>] = IF z = y THEN calendar[<<a, z>>] + 1 ELSE calendar[<<a, z>>]
        BY <3>4, <3>6
      <4> QED
        BY <3>5, <4>1, <4>2
    <3>7. CASE a # target
      BY <3>4, <3>5, <3>7
    <3> QED
      BY <3>6, <3>7
  <2> QED
    BY <2>1, <2>2
<1> QED
  BY <1>1, <1>2, TypeInvariant, PTL DEF Spec

\* The claim co-commits with the effect (resolve-approval.ts): an executed
\* action has its event, because a settlement reaches its commit only behind
\* the create, and no event is ever taken back.
CreatedHasEvent ==
  /\ pc = "created" => target \in Actions /\ \E x \in Args : OnCalendar(target, x)
  /\ ExecutedHasEvent

\* Only a create opens the point before the commit.
LEMMA CreatedBySelf ==
  ASSUME TypeInv, [Next]_vars, pc' = "created"
  PROVE  CreateEvent \/ (pc = "created" /\ UNCHANGED <<target, calendar>>)
<1> USE DEF row, lane, sweep, ghost, budget, Step
<1>1. CASE Turn
  BY <1>1 DEF Turn, StartTurn, QuoteDecidesNothing, QuoteDenies, QuoteApproves, SettleStart,
     AlreadyResolved, SettleStale, SettleCommit, ReadDigest, ClassifyUnrelated,
     ClassifyApprove, ClassifyDeny, ClassifyRefine, Answer, Park, CloseParked, ReadUnstamped,
     SendPrompt, StampPrompt, DeadLetterPrompt, PromptsDone, NextDrain, MarkProcessed
<1>2. CASE Next /\ ~Turn
  BY <1>2 DEF Next, Sweep, Write, TtlPasses, SettleFails, TurnThrows, PromptThrows,
     SweepRead, EnqueueNotice, NoticeThrows, SweepRethrows, MarkExpired, MarkThrows, Crash,
     Launch, InSettle, InPrompt
<1> QED
  BY <1>1, <1>2 DEF vars

\* Events are never taken off the calendar.
LEMMA EventsStay ==
  ASSUME TypeInv, [Next]_vars, NEW a \in Actions, NEW x \in Args, OnCalendar(a, x)
  PROVE  OnCalendar(a, x)'
<1>1. calendar \in [Actions \X Args -> Nat]
  BY DEF TypeInv, TypeOK
<1>2. UNCHANGED calendar \/ calendar' = [calendar EXCEPT ![<<target, args[target]>>] = @ + 1]
  BY CalendarWriter DEF CreateEvent
<1>3. calendar'[<<a, x>>] = calendar[<<a, x>>] \/ calendar'[<<a, x>>] = calendar[<<a, x>>] + 1
  BY <1>1, <1>2
<1> QED
  BY <1>1, <1>3 DEF OnCalendar

\* An executed create has its event, with the arguments it executed
\* (resolve-approval.ts, settle).
THEOREM ExecutedHasEventHolds == Spec => []ExecutedHasEvent
<1>1. Init => CreatedHasEvent
  BY DEF Init, CreatedHasEvent, ExecutedHasEvent
<1>2. TypeInv /\ ApprovalInv /\ CreatedHasEvent /\ [Next]_vars => CreatedHasEvent'
  <2> SUFFICES ASSUME TypeInv, ApprovalInv, CreatedHasEvent, [Next]_vars PROVE CreatedHasEvent'
    OBVIOUS
  <2>1. status \in [Actions -> Statuses]
    BY DEF TypeInv, TypeOK
  <2>2. ASSUME pc' = "created" PROVE target' \in Actions /\ \E x \in Args : OnCalendar(target, x)'
    <3>1. CASE CreateEvent
      <4>1. target \in Actions /\ args[target] \in Args /\ target' = target
        BY <3>1 DEF CreateEvent, Step, ApprovalInv, LockHeld, InSettle, TypeInv, TypeOK, lane
      <4>2. CASE (\E x \in Args : OnCalendar(target, x)) /\ UNCHANGED calendar
        BY <4>1, <4>2 DEF OnCalendar
      <4>3. CASE calendar' = [calendar EXCEPT ![<<target, args[target]>>] = @ + 1]
        <5>1. calendar \in [Actions \X Args -> Nat]
          BY DEF TypeInv, TypeOK
        <5>2. calendar'[<<target, args[target]>>] = calendar[<<target, args[target]>>] + 1
          BY <4>1, <4>3, <5>1
        <5>3. calendar'[<<target, args[target]>>] > 0
          BY <4>1, <5>1, <5>2
        <5> QED
          BY <4>1, <5>3 DEF OnCalendar
      <4> QED
        BY <3>1, <4>2, <4>3 DEF CreateEvent
    <3>2. CASE pc = "created" /\ UNCHANGED <<target, calendar>>
      BY <3>2 DEF CreatedHasEvent, OnCalendar
    <3> QED
      BY <2>2, <3>1, <3>2, CreatedBySelf
  <2>3. ASSUME NEW a \in Actions, status'[a] = "executed"
        PROVE  \E x \in Args : OnCalendar(a, x)'
    <3>1. \E x \in Args : OnCalendar(a, x)
      <4>1. CASE status[a] = "executed"
        BY <4>1 DEF CreatedHasEvent, ExecutedHasEvent
      <4>2. CASE status[a] # "executed"
        <5>1. SettleCommit
          BY <2>1, <2>3, <4>2, StatusWriters DEF WritesStatus, QuoteDenies, SettleStale,
             ClassifyDeny, Park, MarkExpired, SetStatus
        <5>2. a = target /\ pc = "created"
          BY <2>1, <2>3, <4>2, <5>1 DEF SettleCommit, SetStatus, Step
        <5> QED
          BY <5>2 DEF CreatedHasEvent
      <4> QED
        BY <4>1, <4>2
    <3> QED
      BY <3>1, EventsStay
  <2>4. pc' = "created" => target' \in Actions /\ \E x \in Args : OnCalendar(target, x)'
    BY <2>2
  <2>5. ExecutedHasEvent'
    BY <2>3 DEF ExecutedHasEvent, OnCalendar
  <2> QED
    BY <2>4, <2>5 DEF CreatedHasEvent, OnCalendar
<1>3. CreatedHasEvent => ExecutedHasEvent
  BY DEF CreatedHasEvent
<1> QED
  BY <1>1, <1>2, <1>3, TypeInvariant, ApprovalsSound, PTL DEF Spec

\* What an approval executes is what the household saw: a prompt of that action with
\* these arguments was in the chat, and a quote binds to the prompt it quotes
\* (bindReplies, executeApproved).
THEOREM ExecutedAsAgreedHolds == Spec => []ExecutedAsAgreed
<1>1. ExecutedWasShown /\ QuotedIsExecuted => ExecutedAsAgreed
  BY DEF ExecutedAsAgreed
<1> QED
  BY <1>1, ExecutedWasShownHolds, QuotedIsExecutedHolds, PTL

\* An executed action has its event, and never two (the deterministic id of
\* createEvent, and the step that a replay runs again).
THEOREM EffectOnceHolds == Spec => []EffectOnce
<1>1. ExecutedHasEvent /\ EventCreatedOnce => EffectOnce
  BY DEF EffectOnce
<1> QED
  BY <1>1, ExecutedHasEventHolds, EventCreatedOnceHolds, PTL
=============================================================================
