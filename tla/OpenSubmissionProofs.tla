----------------------- MODULE OpenSubmissionProofs -----------------------
(* The platform decides an open task on what was committed to the escrow,  *)
(* and the scorecard of its decision is the one kept, for any number of    *)
(* submitters, results, events and faults.  A decision, a transaction and  *)
(* an anchored scorecard are formed by earlier steps and read by later     *)
(* ones; what has to be shown is that they stay true of the escrow, which  *)
(* takes no submission once a judge has its turn, and that the judge holds *)
(* the scorecard of the one transaction it waits for.                      *)
EXTENDS OpenSubmission, FiniteSetTheorems, TLAPS

AnyCard == Scorecard \cup {NoCard}
Maybe == Result \cup {NoResult}
Submitted == {s \in Submitter : chain.of[s] # NoResult}
Phases == {"Submissions", "CreatorPick", "VerifierPick", "BackupPick", "AdminResolve", "Closed"}
Dues == {"no", "due", "backup"}
Final == {"outcome", "card", "unscheduled", "closed", "marked", "unsure"}   \* a closing's
Tx == [card : Scorecard, st : {"pool", "mined", "reverted", "evicted"}]
Ending ==
  [kind : {"open", "cancel", "void", "winner"}, winner : Submitter \cup {Nobody},
   by : Role \cup {"nobody", "creator", "verifier", "admin"}, card : AnyCard]

ChainTypes ==
  /\ task \in Tasks
  /\ chain \in [phase : Phases, late : BOOLEAN, order : Seq(Submitter),
                of : [Submitter -> Maybe], end : Ending]
  /\ chain.phase = "Closed" <=> chain.end.kind # "open"

StoreTypes ==
  /\ record \in BOOLEAN /\ outcome \in BOOLEAN /\ judgeDue \in Dues
  /\ marker \in BOOLEAN /\ credited \in BOOLEAN /\ hLeft \in BOOLEAN /\ hTorn \in BOOLEAN
  /\ pending \in [Submitter -> Maybe] /\ results \in [Submitter -> Maybe]
  /\ sending \in [Submitter -> Maybe]
  /\ heldCard \in [Role -> AnyCard] /\ keptCard \in AnyCard
  /\ listing \in {"collecting", "completed", "failed"}
  /\ events \in 0 .. MaxEvents

LoopTypes ==
  /\ indexer \in [at : {"idle", "met", "recorded"} \cup Final, pos : Nat]
  /\ judge \in [at : {"idle", "send", "wait"}, card : AnyCard, tx : Nat]
  /\ txs \in Seq(Tx) /\ judge.tx <= Len(txs)

Types == ChainTypes /\ StoreTypes /\ LoopTypes

(* Each submitter is in the order of submissions once.                     *)
OrderOK ==
  /\ \A i \in DOMAIN chain.order : chain.order[i] \in Submitted
  /\ \A s \in Submitted : \E i \in DOMAIN chain.order : chain.order[i] = s
  /\ \A i, j \in DOMAIN chain.order : chain.order[i] = chain.order[j] => i = j

(* The scan is not ahead of the chain, and its handlers are at their kind  *)
(* of event.                                                               *)
ScanOK ==
  /\ indexer.pos <= EventCount
  /\ At("met") => indexer.pos < EventCount
  /\ At("recorded") => indexer.pos \in 1 .. Count
  /\ indexer.at \in Final => indexer.pos = 1 + Count /\ chain.end.kind \in {"winner", "void"}

(* What is kept of a submission is what the escrow has of it.              *)
ResultsOK ==
  /\ recorded \subseteq Submitted
  /\ \A s \in Submitter : results[s] \in {NoResult, chain.of[s]}

Before(s, t) ==
  chain.of[s] > chain.of[t] \/ (chain.of[s] = chain.of[t] /\ Place(s) <= Place(t))

(* The escrow bears a scorecard out.                                       *)
Sound(card) ==
  /\ card \in Scorecard /\ chain.phase # "Submissions"
  /\ IF card.winner = Nobody THEN \A s \in Submitter : chain.of[s] <= 0
     ELSE chain.of[card.winner] > 0 /\ \A t \in card.judged : Before(card.winner, t)

Deciding == judge.at \in {"send", "wait"}

CardsSound ==
  /\ Deciding => Sound(judge.card)
  /\ JudgeAt("wait") => judge.tx \in DOMAIN txs /\ txs[judge.tx].card = judge.card
  /\ \A i \in DOMAIN txs : Sound(txs[i].card)
  /\ chain.end.by \in Role =>
       /\ Sound(chain.end.card) /\ chain.end.by = chain.end.card.role
       /\ chain.end.kind = IF chain.end.card.winner = Nobody THEN "void" ELSE "winner"

(* While the judge is at it, its scorecard is held; unless it gave up, the *)
(* transaction that can still be mined is the one it waits for; and from   *)
(* then on the scorecard is held or kept.                                  *)
CardsHeld ==
  /\ Deciding /\ ~Closed => heldCard[judge.card.role] = judge.card
  /\ ~hLeft => \A i \in DOMAIN txs : txs[i].st = "pool" => JudgeAt("wait") /\ judge.tx = i
  /\ keptCard # NoCard => chain.end.by \in Role /\ keptCard = chain.end.card
  /\ chain.end.by \in Role /\ ~hLeft =>
       keptCard = chain.end.card \/ heldCard[chain.end.by] = chain.end.card

IInv == Types /\ OrderOK /\ ScanOK /\ ResultsOK /\ CardsSound /\ CardsHeld /\ AnchoredIsKept

-----------------------------------------------------------------------------
(* What every step needs *)

LEMMA Counts ==
  ASSUME ChainTypes
  PROVE  /\ Count \in Nat /\ DOMAIN chain.order = 1 .. Count
         /\ EventCount = 1 + Count + (IF chain.end.kind \in {"winner", "void"} THEN 1 ELSE 0)
         /\ EventCount \in Nat
<1>1. chain.order \in Seq(Submitter)
  BY DEF ChainTypes
<1>2. Count \in Nat /\ DOMAIN chain.order = 1 .. Count
  BY <1>1 DEF Count
<1>. QED
  BY <1>2 DEF EventCount

LEMMA EventTypes ==
  ASSUME StoreTypes, Counted \/ UNCHANGED events
  PROVE  events' \in 0 .. MaxEvents
BY Parameters DEF StoreTypes, Counted

\* What a submission that came stays, and so do the order and the judges' turn.
Onward ==
  /\ chain'.of = chain.of /\ chain'.order = chain.order
  /\ chain.phase # "Submissions" => chain'.phase # "Submissions"

LEMMA SoundKept ==
  ASSUME Onward, NEW card, Sound(card)
  PROVE  Sound(card)'
BY DEF Onward, Sound, Before, Place

LEMMA OrderKept ==
  ASSUME Onward, OrderOK
  PROVE  OrderOK' /\ Submitted' = Submitted
BY DEF Onward, OrderOK, Submitted

LEMMA SameChain ==
  ASSUME UNCHANGED chain
  PROVE  Onward /\ EventCount' = EventCount /\ Count' = Count /\ Closed' = Closed
BY DEF Onward, EventCount, Count, Closed

(* The scan has handled the closing.                                       *)
Handled ==
  indexer.pos = EventCount \/ indexer.at \in {"card", "unscheduled", "closed", "marked", "unsure"}

LEMMA AnchoredStays ==
  ASSUME AnchoredIsKept, UNCHANGED <<chain, keptCard>>, hLeft => hLeft',
         chain.end.by \in Role /\ Handled' => Handled
  PROVE  AnchoredIsKept'
BY DEF AnchoredIsKept, Handled, EventCount, Count, At

-----------------------------------------------------------------------------
(* POST /submit-open *)

\* The judge, the scan and the chain stay where they are.
LEMMA SendKeepsStep ==
  ASSUME IInv, UNCHANGED sendKeeps, events' \in 0 .. MaxEvents,
         pending' \in [Submitter -> Maybe], sending' \in [Submitter -> Maybe],
         results' \in [Submitter -> Maybe], \A s \in Submitter : results'[s] \in {NoResult, chain.of[s]}
  PROVE  IInv'
<1>1. /\ UNCHANGED <<task, chain, txs, record, recorded, heldCard, keptCard, judgeDue, outcome,
                     listing, marker, credited, indexer, judge, hLeft, hTorn>>
  BY DEF sendKeeps, cards, mirror, payout
<1>2. Types'
  BY <1>1 DEF IInv, Types, ChainTypes, StoreTypes, LoopTypes
<1>3. OrderOK' /\ ScanOK' /\ ResultsOK'
  BY <1>1 DEF IInv, OrderOK, Submitted, ScanOK, EventCount, Count, At, ResultsOK
<1>4. Onward
  BY <1>1, SameChain
<1>5. CardsSound'
  BY <1>1, <1>4, SoundKept DEF IInv, CardsSound, Deciding, JudgeAt
<1>6. CardsHeld' /\ AnchoredIsKept'
  BY <1>1 DEF IInv, CardsHeld, Deciding, JudgeAt, Closed, AnchoredIsKept, EventCount, Count, At
<1>. QED
  BY <1>2, <1>3, <1>5, <1>6 DEF IInv

LEMMA SendSteps ==
  ASSUME IInv, NEW s \in Submitter,
         HoldResult(s) \/ Lapse(s) \/ Resend(s) \/ \E r \in Sends[s] : SubmitOpen(s, r)
  PROVE  IInv'
<1>1. /\ pending \in [Submitter -> Maybe] /\ sending \in [Submitter -> Maybe]
      /\ results \in [Submitter -> Maybe] /\ NoResult \in Maybe
      /\ \A t \in Submitter : results[t] \in {NoResult, chain.of[t]}
      /\ chain.of \in [Submitter -> Maybe] /\ Sends[s] \subseteq Maybe
  BY Parameters DEF IInv, Types, StoreTypes, ChainTypes, ResultsOK, Maybe, Result
<1>2. UNCHANGED sendKeeps /\ (Counted \/ UNCHANGED events)
  BY DEF HoldResult, Lapse, Resend, SubmitOpen, Fails
<1>3. events' \in 0 .. MaxEvents
  BY <1>2, EventTypes DEF IInv, Types
<1>4. pending' \in [Submitter -> Maybe] /\ sending' \in [Submitter -> Maybe]
  BY <1>1 DEF HoldResult, Lapse, Resend, SubmitOpen
<1>5. results' = results \/ results' = [results EXCEPT ![s] = chain.of[s]]
  BY DEF HoldResult, Lapse, Resend, SubmitOpen, Keep
<1>6. /\ results' \in [Submitter -> Maybe]
      /\ \A t \in Submitter : results'[t] \in {NoResult, chain.of[t]}
  BY <1>1, <1>5
<1>. QED
  BY <1>2, <1>3, <1>4, <1>6, SendKeepsStep

-----------------------------------------------------------------------------
(* The event scan *)

\* A step of the scan: the judge and the chain stay, scorecards unless stated.
LEMMA ScanKeepsStep ==
  ASSUME IInv, UNCHANGED <<task, chain, txs, judge, cards, hLeft>>,
         StoreTypes', indexer' \in [at : {"idle", "met", "recorded"} \cup Final, pos : Nat],
         ScanOK', ResultsOK', chain.end.by \in Role /\ Handled' => Handled
  PROVE  IInv'
<1>1. UNCHANGED <<task, chain, txs, judge, heldCard, keptCard, hLeft>>
  BY DEF cards
<1>2. Types'
  BY <1>1 DEF IInv, Types, ChainTypes, LoopTypes
<1>3. OrderOK'
  BY <1>1 DEF IInv, OrderOK, Submitted
<1>4. CardsSound'
  BY <1>1, SameChain, SoundKept DEF IInv, CardsSound, Deciding, JudgeAt
<1>5. CardsHeld'
  BY <1>1 DEF IInv, CardsHeld, Deciding, JudgeAt, Closed
<1>6. AnchoredIsKept'
  BY <1>1, AnchoredStays DEF IInv
<1>. QED
  BY <1>2, <1>3, <1>4, <1>5, <1>6 DEF IInv

LEMMA ScanFacts ==
  ASSUME IInv
  PROVE  /\ Count \in Nat /\ DOMAIN chain.order = 1 .. Count /\ EventCount \in Nat
         /\ EventCount = 1 + Count + (IF chain.end.kind \in {"winner", "void"} THEN 1 ELSE 0)
         /\ indexer.pos \in Nat /\ indexer.at \in {"idle", "met", "recorded"} \cup Final
         /\ chain.end.by \in Role => EventCount = 2 + Count
<1>1. /\ Count \in Nat /\ DOMAIN chain.order = 1 .. Count
      /\ EventCount = 1 + Count + (IF chain.end.kind \in {"winner", "void"} THEN 1 ELSE 0)
      /\ EventCount \in Nat
  BY Counts DEF IInv, Types
<1>2. indexer.pos \in Nat /\ indexer.at \in {"idle", "met", "recorded"} \cup Final
  BY DEF IInv, Types, LoopTypes
<1>3. chain.end.by \in Role => chain.end.kind \in {"winner", "void"}
  BY DEF IInv, CardsSound
<1>. QED
  BY <1>1, <1>2, <1>3

\* Where the scan goes.
LEMMA ToTypes ==
  ASSUME IInv, NEW at \in {"idle", "met", "recorded"} \cup Final, To(at)
  PROVE  /\ indexer' \in [at : {"idle", "met", "recorded"} \cup Final, pos : Nat]
         /\ indexer'.at = at /\ indexer'.pos = indexer.pos
BY DEF IInv, Types, LoopTypes, To

LEMMA DoneTypes ==
  ASSUME IInv, Done
  PROVE  /\ indexer' \in [at : {"idle", "met", "recorded"} \cup Final, pos : Nat]
         /\ indexer'.at = "idle" /\ indexer'.pos = indexer.pos + 1
BY ScanFacts DEF Done, Coming

LEMMA KindFacts ==
  ASSUME IInv
  PROVE  /\ Handle("created") => indexer.pos = 0
         /\ Handle("submission") => indexer.pos \in 1 .. Count
         /\ Handle("closing") => /\ indexer.pos = 1 + Count
                                 /\ chain.end.kind \in {"winner", "void"}
         /\ \A kind : Handle(kind) => At("idle")
<1>1. ASSUME Handle("closing")
      PROVE  indexer.pos = 1 + Count /\ chain.end.kind \in {"winner", "void"}
  BY <1>1, ScanFacts DEF Handle, Kind, Coming
<1>. QED
  BY <1>1, ScanFacts DEF Handle, Kind, Coming

LEMMA MeetSteps ==
  ASSUME IInv, Meet \/ SaveRecord \/ HandleCreated
  PROVE  IInv'
<1>1. UNCHANGED <<task, chain, txs, judge, cards, hLeft>>
  BY DEF Meet, SaveRecord, HandleCreated, scanKeeps, history
<1>2. EventCount' = EventCount /\ Count' = Count
  BY <1>1, SameChain
<1>3. StoreTypes'
  <2>1. /\ UNCHANGED <<pending, results, sending, heldCard, keptCard, outcome, listing, marker, credited,
                       events, hLeft, hTorn>>
        /\ record' \in {record, TRUE} /\ judgeDue' \in {judgeDue, "due"}
    <3>1. CASE Meet
      BY <3>1 DEF Meet, scanKeeps, cards, mirror, payout, history
    <3>2. CASE SaveRecord
      BY <3>2 DEF SaveRecord, scanKeeps, cards, mirror, payout, history
    <3>3. CASE HandleCreated
      BY <3>3 DEF HandleCreated, scanKeeps, cards, mirror, payout, history
    <3>. QED
      BY <3>1, <3>2, <3>3
  <2>2. StoreTypes
    BY DEF IInv, Types
  <2>. QED
    BY <2>1, <2>2 DEF StoreTypes, Dues
<1>4. ResultsOK'
  BY DEF IInv, ResultsOK, Submitted, Meet, SaveRecord, HandleCreated, scanKeeps
<1>5. CASE Meet
  <2>1. /\ indexer' \in [at : {"idle", "met", "recorded"} \cup Final, pos : Nat]
        /\ indexer'.at = "met" /\ indexer'.pos = indexer.pos
    BY <1>5, ToTypes DEF Meet
  <2>2. indexer.pos < EventCount
    BY <1>5, ScanFacts DEF Meet, Coming
  <2>3. ScanOK'
    BY <1>2, <2>1, <2>2, ScanFacts DEF ScanOK, At, Final
  <2>4. Handled' => Handled
    BY <1>2, <2>1 DEF Handled, At
  <2>. QED
    BY <1>1, <1>3, <1>4, <2>1, <2>3, <2>4, ScanKeepsStep
<1>6. CASE SaveRecord
  <2>1. /\ indexer' \in [at : {"idle", "met", "recorded"} \cup Final, pos : Nat]
        /\ indexer'.at = "idle" /\ indexer'.pos = indexer.pos
    BY <1>6, ToTypes DEF SaveRecord
  <2>2. ScanOK'
    BY <1>2, <2>1 DEF IInv, ScanOK, At, Final
  <2>3. Handled' => Handled
    BY <1>2, <2>1 DEF Handled, At
  <2>. QED
    BY <1>1, <1>3, <1>4, <2>1, <2>2, <2>3, ScanKeepsStep
<1>7. CASE HandleCreated
  <2>1. /\ indexer' \in [at : {"idle", "met", "recorded"} \cup Final, pos : Nat]
        /\ indexer'.at = "idle" /\ indexer'.pos = 1
    BY <1>7, DoneTypes, KindFacts DEF HandleCreated
  <2>2. ScanOK'
    BY <1>2, <2>1, ScanFacts DEF ScanOK, At, Final
  <2>3. chain.end.by \in Role => ~Handled'
    BY <1>2, <2>1, ScanFacts DEF Handled, At
  <2>. QED
    BY <1>1, <1>3, <1>4, <2>1, <2>2, <2>3, ScanKeepsStep
<1>. QED
  BY <1>5, <1>6, <1>7

LEMMA SubmissionSteps ==
  ASSUME IInv, RecordSubmission \/ KeepResult
  PROVE  IInv'
<1>1. UNCHANGED <<task, chain, txs, judge, cards, hLeft>>
  BY DEF RecordSubmission, KeepResult, scanKeeps, history
<1>2. EventCount' = EventCount /\ Count' = Count
  BY <1>1, SameChain
<1>3. indexer.pos \in 1 .. Count
  BY KindFacts DEF RecordSubmission, KeepResult, IInv, ScanOK
<1>4. By \in Submitted /\ By \in Submitter
  BY <1>3, ScanFacts DEF By, IInv, OrderOK, Submitted
<1>5. CASE RecordSubmission
  <2>1. /\ indexer' \in [at : {"idle", "met", "recorded"} \cup Final, pos : Nat]
        /\ indexer'.at = "recorded" /\ indexer'.pos = indexer.pos
    BY <1>5, ToTypes DEF RecordSubmission
  <2>2. StoreTypes'
    BY <1>5 DEF IInv, Types, StoreTypes, RecordSubmission, scanKeeps, cards, mirror, payout, history
  <2>3. ResultsOK'
    BY <1>4, <1>5 DEF IInv, ResultsOK, Submitted, RecordSubmission, scanKeeps
  <2>4. ScanOK'
    BY <1>2, <1>3, <2>1, ScanFacts DEF ScanOK, At, Final
  <2>5. Handled' => Handled
    BY <1>2, <2>1 DEF Handled, At
  <2>. QED
    BY <1>1, <2>1, <2>2, <2>3, <2>4, <2>5, ScanKeepsStep
<1>6. CASE KeepResult
  <2>1. /\ indexer' \in [at : {"idle", "met", "recorded"} \cup Final, pos : Nat]
        /\ indexer'.at = "idle" /\ indexer'.pos = indexer.pos + 1
    BY <1>6, DoneTypes DEF KeepResult
  <2>2. /\ pending \in [Submitter -> Maybe] /\ results \in [Submitter -> Maybe] /\ NoResult \in Maybe
        /\ \A t \in Submitter : results[t] \in {NoResult, chain.of[t]}
        /\ chain.of \in [Submitter -> Maybe] /\ recorded \subseteq Submitted
    BY DEF IInv, Types, StoreTypes, ChainTypes, ResultsOK, Maybe
  <2>3. /\ pending' \in {pending, [pending EXCEPT ![By] = NoResult]}
        /\ results' \in {results, [results EXCEPT ![By] = chain.of[By]]}
        /\ UNCHANGED recorded
    BY <1>6 DEF KeepResult, Keep
  <2>4. /\ pending' \in [Submitter -> Maybe] /\ results' \in [Submitter -> Maybe]
        /\ \A t \in Submitter : results'[t] \in {NoResult, chain.of[t]}
    BY <1>4, <2>2, <2>3
  <2>5. StoreTypes'
    BY <1>6, <2>4 DEF IInv, Types, StoreTypes, KeepResult, scanKeeps, cards, mirror, payout, history
  <2>6. ResultsOK'
    BY <1>1, <2>2, <2>3, <2>4 DEF ResultsOK, Submitted
  <2>7. ScanOK'
    BY <1>2, <1>3, <2>1, ScanFacts DEF ScanOK, At, Final
  <2>8. chain.end.by \in Role => ~Handled'
    BY <1>2, <1>3, <2>1, ScanFacts DEF Handled, At
  <2>. QED
    BY <1>1, <2>1, <2>5, <2>6, <2>7, <2>8, ScanKeepsStep
<1>. QED
  BY <1>5, <1>6

\* What a claim leaves behind, however it ends.
LEMMA ClaimTypes ==
  ASSUME StoreTypes
  PROVE  /\ PerhapsCredited => credited' \in BOOLEAN
         /\ GiveMarkerBack => marker' \in BOOLEAN
         /\ Tears /\ marker' \in BOOLEAN /\ credited' \in BOOLEAN => hTorn' \in BOOLEAN
BY DEF StoreTypes, PerhapsCredited, GiveMarkerBack, Tears

LEMMA ClosingSteps ==
  ASSUME IInv, SaveOutcome \/ Unschedule \/ CloseListing \/ TakeMarker \/ CreditWinner
  PROVE  IInv'
<1>1. /\ UNCHANGED <<task, chain, txs, judge, cards, hLeft>>
      /\ UNCHANGED <<recorded, results>>
  BY DEF SaveOutcome, Unschedule, CloseListing, TakeMarker, CreditWinner, scanKeeps, history
<1>2. EventCount' = EventCount /\ Count' = Count
  BY <1>1, SameChain
<1>3. indexer.pos = 1 + Count /\ chain.end.kind \in {"winner", "void"}
  BY KindFacts DEF SaveOutcome, Unschedule, CloseListing, TakeMarker, CreditWinner, Claiming, IInv,
                   ScanOK, At, Final
<1>4. StoreTypes'
  <2>1. CASE SaveOutcome \/ Unschedule \/ CloseListing
    <3>1. /\ UNCHANGED <<record, pending, results, sending, heldCard, keptCard, marker, credited,
                         events, hLeft, hTorn>>
          /\ outcome' \in {outcome, TRUE} /\ judgeDue' \in {judgeDue, "no"}
          /\ listing' \in {listing, "completed", "failed"}
      <4>1. CASE SaveOutcome
        BY <4>1 DEF SaveOutcome, scanKeeps, cards, payout, history
      <4>2. CASE Unschedule
        BY <4>2 DEF Unschedule, scanKeeps, cards, mirror, payout, history
      <4>3. CASE CloseListing
        BY <4>3 DEF CloseListing, scanKeeps, cards, payout, history
      <4>. QED
        BY <2>1, <4>1, <4>2, <4>3
    <3>2. StoreTypes
      BY DEF IInv, Types
    <3>3. /\ outcome' \in BOOLEAN /\ judgeDue' \in Dues
          /\ listing' \in {"collecting", "completed", "failed"}
      BY <3>1, <3>2 DEF StoreTypes, Dues
    <3>. QED
      BY <3>1, <3>2, <3>3 DEF StoreTypes
  <2>2. CASE TakeMarker \/ CreditWinner
    <3>1. events' \in 0 .. MaxEvents
      BY <2>2, EventTypes DEF IInv, Types, TakeMarker, CreditWinner, Fails, history
    <3>2. marker' \in BOOLEAN /\ credited' \in BOOLEAN /\ hTorn' \in BOOLEAN
      BY <2>2, ClaimTypes DEF IInv, Types, StoreTypes, TakeMarker, CreditWinner, history
    <3>. QED
      BY <1>1, <2>2, <3>1, <3>2 DEF IInv, Types, StoreTypes, TakeMarker, CreditWinner, cards
  <2>. QED
    BY <2>1, <2>2
<1>5. ResultsOK'
  BY <1>1 DEF IInv, ResultsOK, Submitted
<1>6. \/ To("outcome")
      \/ /\ To("unscheduled") \/ To("closed") \/ To("marked") \/ To("unsure") \/ Done
         /\ Handled
  BY DEF SaveOutcome, Unschedule, CloseListing, TakeMarker, CreditWinner, Claiming, Handled, At
<1>7. \/ indexer'.at \in {"outcome", "unscheduled", "closed", "marked", "unsure"}
         /\ indexer'.pos = indexer.pos
      \/ indexer'.at = "idle" /\ indexer'.pos = indexer.pos + 1
  BY <1>6, ToTypes, DoneTypes DEF Final
<1>8. indexer' \in [at : {"idle", "met", "recorded"} \cup Final, pos : Nat]
  BY <1>6, ToTypes, DoneTypes DEF Final
<1>9. ScanOK'
  BY <1>1, <1>2, <1>3, <1>7, ScanFacts DEF ScanOK, At, Final
<1>10. Handled' => Handled
  <2>1. CASE To("outcome")
    BY <1>2, <2>1, ToTypes DEF Handled, At, Final
  <2>. QED
    BY <1>6, <2>1
<1>. QED
  BY <1>1, <1>4, <1>5, <1>8, <1>9, <1>10, ScanKeepsStep

\* The scorecard found held is the anchored one, or it was found before.
LEMMA KeepCardStep ==
  ASSUME IInv, KeepCard
  PROVE  IInv'
<1>. DEFINE by == chain.end.by
            card == chain.end.card
<1>1. /\ UNCHANGED <<task, chain, txs, judge, hLeft, hTorn, record, recorded, pending, results, judgeDue,
                     outcome, listing, marker, credited, sending, events>>
      /\ indexer.at = "outcome" /\ To("card")
      /\ IF by \in Role /\ heldCard[by] = card
         THEN /\ keptCard' = IF keptCard = NoCard THEN card ELSE keptCard
              /\ heldCard' = [heldCard EXCEPT ![by] = NoCard]
         ELSE UNCHANGED <<heldCard, keptCard>>
  BY DEF KeepCard, scanKeeps, mirror, payout, history, cards, At
<1>2. EventCount' = EventCount /\ Count' = Count /\ Closed' = Closed /\ Onward
  BY <1>1, SameChain
<1>3. indexer.pos = 1 + Count /\ chain.end.kind \in {"winner", "void"}
  BY <1>1 DEF IInv, ScanOK, Final
<1>4. /\ indexer' \in [at : {"idle", "met", "recorded"} \cup Final, pos : Nat]
      /\ indexer'.at = "card" /\ indexer'.pos = indexer.pos
  BY <1>1, ToTypes DEF Final
<1>5. /\ heldCard \in [Role -> AnyCard] /\ keptCard \in AnyCard /\ NoCard \in AnyCard
      /\ card \in AnyCard
  BY DEF IInv, Types, StoreTypes, ChainTypes, Ending, AnyCard
<1>6. Types'
  BY <1>1, <1>4, <1>5 DEF IInv, Types, ChainTypes, StoreTypes, LoopTypes
<1>7. OrderOK' /\ ResultsOK'
  BY <1>1 DEF IInv, OrderOK, ResultsOK, Submitted
<1>8. ScanOK'
  BY <1>1, <1>2, <1>3, <1>4, ScanFacts DEF ScanOK, At, Final
<1>9. CardsSound'
  BY <1>1, <1>2, SoundKept DEF IInv, CardsSound, Deciding, JudgeAt
<1>10. by \in Role => card # NoCard
  BY DEF IInv, CardsSound, Sound, Scorecard, Role, NoCard
<1>11. keptCard # NoCard => by \in Role /\ keptCard = card
  BY DEF IInv, CardsHeld
<1>12. by \in Role /\ ~hLeft => keptCard = card \/ heldCard[by] = card
  BY DEF IInv, CardsHeld
<1>13. (keptCard' # NoCard => by \in Role /\ keptCard' = card)
       /\ (by \in Role /\ ~hLeft => keptCard' = card)
  BY <1>1, <1>10, <1>11, <1>12
<1>14. CardsHeld'
  BY <1>1, <1>2, <1>3, <1>13 DEF IInv, Types, ChainTypes, CardsHeld, Deciding, JudgeAt, Closed
<1>15. AnchoredIsKept'
  BY <1>1, <1>13 DEF AnchoredIsKept
<1>. QED
  BY <1>6, <1>7, <1>8, <1>9, <1>14, <1>15 DEF IInv

\* What came before comes again.
LEMMA RedeliverFacts ==
  ASSUME IInv, Redeliver, UNCHANGED chain
  PROVE  /\ indexer' \in [at : {"idle", "met", "recorded"} \cup Final, pos : Nat]
         /\ ScanOK' /\ (Handled' => Handled)
<1>1. PICK p \in 0 .. indexer.pos : indexer' = [at |-> "idle", pos |-> p]
  BY DEF Redeliver
<1>2. EventCount' = EventCount /\ Count' = Count
  BY SameChain
<1>3. indexer.pos \in Nat /\ EventCount \in Nat /\ indexer.pos <= EventCount /\ p \in Nat
  BY ScanFacts DEF IInv, ScanOK
<1>. QED
  BY <1>1, <1>2, <1>3 DEF ScanOK, At, Final, Handled

LEMMA ScanFaultSteps ==
  ASSUME IInv, IndexerFails \/ CloseRefunded
  PROVE  IInv'
<1>1. UNCHANGED <<task, chain, txs, judge, cards, hLeft>> /\ UNCHANGED <<recorded, results>>
  BY DEF IndexerFails, CloseRefunded, scanKeeps, history
<1>2. StoreTypes'
  <2>1. events' \in 0 .. MaxEvents
    BY EventTypes DEF IInv, Types, IndexerFails, CloseRefunded, Fails, scanKeeps, history
  <2>2. marker' \in BOOLEAN /\ credited' \in BOOLEAN /\ hTorn' \in BOOLEAN
    BY ClaimTypes DEF IInv, Types, StoreTypes, IndexerFails, CloseRefunded, scanKeeps, payout, history
  <2>. QED
    BY <1>1, <2>1, <2>2 DEF IInv, Types, StoreTypes, IndexerFails, CloseRefunded, scanKeeps, cards
<1>3. ResultsOK'
  BY <1>1 DEF IInv, ResultsOK, Submitted
<1>4. CASE IndexerFails
  BY <1>1, <1>2, <1>3, <1>4, RedeliverFacts, ScanKeepsStep DEF IndexerFails
<1>5. CASE CloseRefunded
  <2>1. UNCHANGED indexer
    BY <1>5 DEF CloseRefunded
  <2>2. ScanOK' /\ (Handled' => Handled)
    BY <1>1, <2>1, SameChain DEF IInv, ScanOK, At, Handled
  <2>3. indexer' \in [at : {"idle", "met", "recorded"} \cup Final, pos : Nat]
    BY <2>1 DEF IInv, Types, LoopTypes
  <2>. QED
    BY <1>1, <1>2, <1>3, <2>2, <2>3, ScanKeepsStep
<1>. QED
  BY <1>4, <1>5

-----------------------------------------------------------------------------
(* The escrow *)

LEMMA OpenFacts ==
  ASSUME IInv, ~Closed
  PROVE  chain.end.by \notin Role /\ keptCard = NoCard /\ indexer.at \notin Final
BY DEF IInv, Types, ChainTypes, Closed, CardsSound, CardsHeld, ScanOK, Role

LEMMA LandStep ==
  ASSUME IInv, NEW s \in Submitter, NEW r \in Sends[s], Land(s, r)
  PROVE  IInv'
<1>1. /\ ~Closed /\ chain.phase = "Submissions" /\ chain.of[s] = NoResult
      /\ chain' = [chain EXCEPT !.of[s] = r, !.order = Append(@, s)]
      /\ UNCHANGED <<task, txs, record, recorded, pending, results, heldCard, keptCard, judgeDue,
                     outcome, listing, marker, credited, indexer, judge, sending, hLeft, hTorn>>
      /\ events' \in 0 .. MaxEvents
  BY EventTypes DEF Land, stored, cards, mirror, payout, loops, IInv, Types
<1>2. r \in Maybe /\ r # NoResult
  BY Parameters DEF Maybe, Result, NoResult
<1>3. /\ chain \in [phase : Phases, late : BOOLEAN, order : Seq(Submitter),
                    of : [Submitter -> Maybe], end : Ending]
  BY DEF IInv, Types, ChainTypes
<1>4. /\ chain'.of = [chain.of EXCEPT ![s] = r] /\ chain'.order = Append(chain.order, s)
      /\ chain'.end = chain.end /\ chain'.phase = chain.phase
  BY <1>1, <1>3
<1>5. ChainTypes'
  <2>1. chain'.of \in [Submitter -> Maybe] /\ chain'.order \in Seq(Submitter)
    BY <1>2, <1>3, <1>4
  <2>2. chain' = [chain EXCEPT !.of = chain'.of, !.order = chain'.order]
    BY <1>1, <1>3, <1>4
  <2>. QED
    BY <1>1, <1>3, <2>1, <2>2 DEF ChainTypes, IInv, Types
<1>6. Types'
  BY <1>1, <1>5 DEF IInv, Types, StoreTypes, LoopTypes
<1>7. ~Deciding /\ DOMAIN txs = {} /\ chain.end.by \notin Role /\ keptCard = NoCard
      /\ indexer.at \notin Final
  BY <1>1, OpenFacts DEF IInv, CardsSound, Sound
<1>8. Submitted' = Submitted \cup {s} /\ s \notin Submitted
  BY <1>1, <1>2, <1>3, <1>4 DEF Submitted
<1>. DEFINE n == Count
<1>9. n \in Nat /\ DOMAIN chain.order = 1 .. n /\ Count' = n + 1
      /\ DOMAIN chain'.order = 1 .. (n + 1) /\ chain'.order[n + 1] = s
      /\ \A i \in 1 .. n : chain'.order[i] = chain.order[i]
  <2>1. n \in Nat /\ DOMAIN chain.order = 1 .. n
    BY ScanFacts
  <2>. QED
    BY <1>3, <1>4, <2>1 DEF Count
<1>10. OrderOK'
  <2>. HIDE DEF n
  <2>1. \A i \in 1 .. n : chain.order[i] \in Submitted
    BY <1>9 DEF IInv, OrderOK
  <2>2. \A i \in 1 .. (n + 1) : i = n + 1 \/ i \in 1 .. n
    BY <1>9
  <2>3. \A i \in 1 .. (n + 1) : chain'.order[i] \in Submitted'
    BY <1>8, <1>9, <2>1, <2>2
  <2>4. \A t \in Submitted' : \E i \in 1 .. (n + 1) : chain'.order[i] = t
    <3>1. n + 1 \in 1 .. (n + 1) /\ 1 .. n \subseteq 1 .. (n + 1)
      BY <1>9
    <3>2. \A t \in Submitted : \E i \in 1 .. n : chain.order[i] = t
      BY <1>9 DEF IInv, OrderOK
    <3>. QED
      BY <1>8, <1>9, <3>1, <3>2
  <2>5. ASSUME NEW i \in 1 .. (n + 1), NEW j \in 1 .. (n + 1), chain'.order[i] = chain'.order[j]
        PROVE  i = j
    <3>1. \A k, l \in 1 .. n : chain.order[k] = chain.order[l] => k = l
      BY <1>9 DEF IInv, OrderOK
    <3>. QED
      BY <1>8, <1>9, <2>1, <2>2, <2>5, <3>1
  <2>. QED
    BY <1>9, <2>3, <2>4, <2>5 DEF OrderOK
<1>11. ScanOK'
  <2>1. EventCount' = EventCount + 1
    BY <1>4, <1>9 DEF EventCount
  <2>. QED
    BY <1>1, <1>7, <1>9, <2>1, ScanFacts DEF IInv, ScanOK, At
<1>12. ResultsOK'
  BY <1>1, <1>3, <1>4, <1>8 DEF IInv, ResultsOK
<1>13. CardsSound' /\ CardsHeld' /\ AnchoredIsKept'
  BY <1>1, <1>4, <1>7 DEF CardsSound, CardsHeld, AnchoredIsKept, Deciding, JudgeAt
<1>. QED
  BY <1>6, <1>10, <1>11, <1>12, <1>13 DEF IInv

\* Time leaves "Submissions" behind for good.
LEMMA PhaseFacts ==
  ASSUME ChainTypes, TimePasses
  PROVE  /\ chain'.phase \in Phases \ {"Closed"}
         /\ chain.phase # "Submissions" => chain'.phase # "Submissions"
<1>1. /\ chain \in [phase : Phases, late : BOOLEAN, order : Seq(Submitter),
                    of : [Submitter -> Maybe], end : Ending]
      /\ chain.phase \notin {"AdminResolve", "Closed"}
  BY DEF ChainTypes, TimePasses
<1>2. chain' = [chain EXCEPT !.late = TRUE]
      \/ chain' = [chain EXCEPT !.phase = NextPhase, !.late = FALSE]
  BY DEF TimePasses
<1>3. DOMAIN Phase = 1 .. 5 /\ Phase[1] = "Submissions" /\ Phase[2] = "CreatorPick"
      /\ Phase[3] = "VerifierPick" /\ Phase[4] = "BackupPick" /\ Phase[5] = "AdminResolve"
  BY DEF Phase
<1>4. NextPhase \in Phases \ {"Submissions", "Closed"}
  <2>. DEFINE i == CHOOSE j \in DOMAIN Phase : Phase[j] = chain.phase
  <2>1. \E j \in DOMAIN Phase : Phase[j] = chain.phase
    BY <1>1, <1>3 DEF Phases
  <2>2. i \in DOMAIN Phase /\ Phase[i] = chain.phase
    BY <2>1
  <2>. HIDE DEF i
  <2>3. i \in {1, 2, 3, 4}
    BY <1>1, <1>3, <2>2
  <2>4. Phase[i + 1] \in Phases \ {"Submissions", "Closed"}
    BY <1>3, <2>3 DEF Phases
  <2>. QED
    BY <1>3, <2>4 DEF NextPhase, i, Phases
<1>. QED
  BY <1>1, <1>2, <1>4

LEMMA TimeStep ==
  ASSUME IInv, TimePasses
  PROVE  IInv'
<1>1. /\ chain \in [phase : Phases, late : BOOLEAN, order : Seq(Submitter),
                    of : [Submitter -> Maybe], end : Ending]
      /\ chain.phase # "Closed" /\ chain.end.kind = "open"
      /\ \/ chain' = [chain EXCEPT !.late = TRUE]
         \/ chain' = [chain EXCEPT !.phase = NextPhase, !.late = FALSE]
      /\ UNCHANGED <<task, txs, record, recorded, pending, results, heldCard, keptCard, judgeDue,
                     outcome, listing, marker, credited, indexer, judge, sending, events, hLeft,
                     hTorn>>
  BY DEF IInv, Types, ChainTypes, TimePasses, stored, cards, mirror, payout, loops, history
<1>2. chain'.of = chain.of /\ chain'.order = chain.order /\ chain'.end = chain.end
  BY <1>1
<1>3. Onward /\ chain'.phase \in Phases \ {"Closed"}
  BY <1>2, PhaseFacts DEF IInv, Types, Onward
<1>4. ChainTypes'
  BY <1>1, <1>2, <1>3 DEF ChainTypes, IInv, Types
<1>5. Types'
  BY <1>1, <1>4 DEF IInv, Types, StoreTypes, LoopTypes
<1>6. OrderOK' /\ ResultsOK'
  BY <1>1, <1>2, <1>3, OrderKept DEF IInv, ResultsOK
<1>7. EventCount' = EventCount /\ Count' = Count /\ Closed' = Closed
  BY <1>1, <1>2, <1>3 DEF EventCount, Count, Closed
<1>8. ScanOK'
  BY <1>1, <1>2, <1>7 DEF IInv, ScanOK, At
<1>9. CardsSound'
  BY <1>1, <1>2, <1>3, SoundKept DEF IInv, CardsSound, Deciding, JudgeAt
<1>10. CardsHeld' /\ AnchoredIsKept'
  BY <1>1, <1>2, <1>7 DEF IInv, CardsHeld, Deciding, JudgeAt, AnchoredIsKept, At
<1>. QED
  BY <1>5, <1>6, <1>8, <1>9, <1>10 DEF IInv

\* The same transactions, some of them no longer in the pool.
Settles ==
  /\ txs' \in Seq(Tx) /\ Len(txs') = Len(txs) /\ DOMAIN txs' = DOMAIN txs
  /\ \A i \in DOMAIN txs :
       txs'[i].card = txs[i].card /\ (txs'[i].st = "pool" => txs[i].st = "pool")

\* A closing by the platform anchors the scorecard of a transaction in the pool.
LEMMA EndStep ==
  ASSUME IInv, ~Closed, NEW ending \in Ending, ending.kind # "open",
         chain' = [chain EXCEPT !.phase = "Closed", !.late = FALSE, !.end = ending], Settles,
         UNCHANGED <<task, stored, loops, history>>,
         ending.by \in Role =>
           /\ ending.by = ending.card.role
           /\ ending.kind = IF ending.card.winner = Nobody THEN "void" ELSE "winner"
           /\ \E i \in DOMAIN txs : txs[i].st = "pool" /\ txs[i].card = ending.card
  PROVE  IInv'
<1>1. /\ chain \in [phase : Phases, late : BOOLEAN, order : Seq(Submitter),
                    of : [Submitter -> Maybe], end : Ending]
      /\ UNCHANGED <<task, record, recorded, pending, results, heldCard, keptCard, judgeDue,
                     outcome, listing, marker, credited, indexer, judge, sending, events, hLeft,
                     hTorn>>
  BY DEF IInv, Types, ChainTypes, stored, cards, mirror, payout, loops, history
<1>2. /\ chain'.of = chain.of /\ chain'.order = chain.order /\ chain'.end = ending
      /\ chain'.phase = "Closed"
  BY <1>1
<1>3. Onward
  BY <1>2 DEF Onward
<1>4. ChainTypes'
  BY <1>1, <1>2 DEF ChainTypes, IInv, Types, Phases
<1>5. Types'
  BY <1>1, <1>4 DEF IInv, Types, StoreTypes, LoopTypes, Settles
<1>6. OrderOK' /\ ResultsOK'
  BY <1>1, <1>2, <1>3, OrderKept DEF IInv, ResultsOK
<1>7. chain.end.by \notin Role /\ keptCard = NoCard /\ indexer.at \notin Final
  BY OpenFacts
<1>8. /\ Count' = Count /\ EventCount' >= EventCount /\ EventCount' \in Nat
      /\ EventCount = 1 + Count /\ (ending.by \in Role => EventCount' = 2 + Count)
  <2>1. chain.end.kind = "open" /\ Count \in Nat
    BY ScanFacts DEF Closed, IInv, Types, ChainTypes
  <2>2. ending.by \in Role => ending.kind \in {"winner", "void"}
    OBVIOUS
  <2>3. Count' = Count /\ EventCount = 1 + Count
    BY <1>2, <2>1 DEF EventCount, Count
  <2>4. EventCount' = 1 + Count' + (IF ending.kind \in {"winner", "void"} THEN 1 ELSE 0)
    BY <1>2 DEF EventCount
  <2>. QED
    BY <2>1, <2>2, <2>3, <2>4
<1>9. ScanOK'
  BY <1>1, <1>7, <1>8, ScanFacts DEF IInv, ScanOK, At, Final
<1>10. CardsSound'
  <2>1. (\A i \in DOMAIN txs : Sound(txs[i].card))'
    <3>1. \A card : Sound(card) => Sound(card)'
      BY <1>3, SoundKept
    <3>2. \A i \in DOMAIN txs : Sound(txs[i].card)
      BY DEF IInv, CardsSound
    <3>. QED
      BY <3>1, <3>2 DEF Settles
  <2>2. /\ (Deciding => Sound(judge.card))'
        /\ (JudgeAt("wait") => judge.tx \in DOMAIN txs /\ txs[judge.tx].card = judge.card)'
    BY <1>1, <1>3, SoundKept DEF IInv, CardsSound, Deciding, JudgeAt, Settles
  <2>3. ending.by \in Role => Sound(ending.card)'
    <3>1. ending.by \in Role => Sound(ending.card)
      BY DEF IInv, CardsSound
    <3>. QED
      BY <1>3, <3>1, SoundKept
  <2>. QED
    BY <1>2, <2>1, <2>2, <2>3 DEF CardsSound
<1>11. CardsHeld'
  <2>1. Closed'
    BY <1>2 DEF Closed
  <2>2. (~hLeft => \A i \in DOMAIN txs : txs[i].st = "pool" => JudgeAt("wait") /\ judge.tx = i)'
    BY <1>1 DEF IInv, CardsHeld, Settles, JudgeAt
  <2>3. ASSUME ending.by \in Role, ~hLeft
        PROVE  heldCard[ending.by] = ending.card
    <3>1. PICK i \in DOMAIN txs : txs[i].st = "pool" /\ txs[i].card = ending.card
      BY <2>3
    <3>2. JudgeAt("wait") /\ judge.tx = i
      BY <2>3, <3>1 DEF IInv, CardsHeld
    <3>3. judge.card = ending.card
      BY <3>1, <3>2 DEF IInv, CardsSound
    <3>. QED
      BY <2>3, <3>2, <3>3 DEF IInv, CardsHeld, Deciding, JudgeAt
  <2>. QED
    BY <1>1, <1>2, <1>7, <2>1, <2>2, <2>3 DEF CardsHeld, Deciding
<1>12. AnchoredIsKept'
  BY <1>1, <1>2, <1>7, <1>8, ScanFacts DEF AnchoredIsKept, At, Final, IInv, ScanOK
<1>. QED
  BY <1>5, <1>6, <1>9, <1>10, <1>11, <1>12 DEF IInv

LEMMA OthersCloseStep ==
  ASSUME IInv, OthersClose
  PROVE  IInv'
<1>1. /\ ~Closed /\ Settles /\ UNCHANGED <<task, stored, loops, history>>
  BY DEF OthersClose, Settles, IInv, Types, LoopTypes
<1>2. PICK kind \in {"cancel", "void", "winner"}, winner \in Submitter \cup {Nobody},
           by \in {"creator", "verifier", "admin"} : End(kind, winner, by, NoCard)
  BY DEF OthersClose
<1>. DEFINE ending == [kind |-> kind, winner |-> winner, by |-> by, card |-> NoCard]
<1>3. ending \in Ending /\ ending.kind # "open" /\ ending.by \notin Role
  BY DEF Ending, AnyCard, Role
<1>4. chain' = [chain EXCEPT !.phase = "Closed", !.late = FALSE, !.end = ending]
  BY <1>2 DEF End
<1>. HIDE DEF ending
<1>. QED
  BY <1>1, <1>3, <1>4, EndStep

\* A transaction leaves the pool without a word to the escrow.
LEMMA SettlesStep ==
  ASSUME IInv, Settles, UNCHANGED <<task, chain, stored, loops, hLeft, hTorn>>, events' \in 0 .. MaxEvents
  PROVE  IInv'
<1>1. UNCHANGED <<task, chain, record, recorded, pending, results, heldCard, keptCard, judgeDue,
                  outcome, listing, marker, credited, indexer, judge, sending, hLeft, hTorn>>
  BY DEF stored, cards, mirror, payout, loops
<1>2. Onward
  BY <1>1, SameChain
<1>3. Types'
  BY <1>1 DEF IInv, Types, ChainTypes, StoreTypes, LoopTypes, Settles
<1>4. OrderOK' /\ ResultsOK' /\ ScanOK'
  BY <1>1 DEF IInv, OrderOK, Submitted, ResultsOK, ScanOK, EventCount, Count, At
<1>5. CardsSound'
  BY <1>1, <1>2, SoundKept DEF IInv, CardsSound, Deciding, JudgeAt, Settles
<1>6. CardsHeld'
  BY <1>1 DEF IInv, CardsHeld, Deciding, JudgeAt, Closed, Settles
<1>7. AnchoredIsKept'
  BY <1>1, AnchoredStays, SameChain DEF IInv, Handled, At
<1>. QED
  BY <1>3, <1>4, <1>5, <1>6, <1>7 DEF IInv

LEMMA PoolSteps ==
  ASSUME IInv, NEW i \in DOMAIN txs, Mine(i) \/ Evict(i)
  PROVE  IInv'
<1>1. txs \in Seq(Tx) /\ DOMAIN txs = 1 .. Len(txs) /\ txs[i] \in Tx /\ txs[i].st = "pool"
  BY DEF IInv, Types, LoopTypes, Mine, Evict
<1>2. PICK st \in {"mined", "reverted", "evicted"} : txs' = [txs EXCEPT ![i].st = st]
  BY DEF Mine, Evict
<1>3. Settles
  <2>. DEFINE tx == [txs[i] EXCEPT !.st = st]
  <2>1. tx \in Tx /\ tx.card = txs[i].card /\ tx.st # "pool" /\ txs' = [txs EXCEPT ![i] = tx]
    BY <1>1, <1>2 DEF Tx
  <2>. HIDE DEF tx
  <2>2. txs' \in Seq(Tx) /\ Len(txs') = Len(txs) /\ DOMAIN txs' = DOMAIN txs
    BY <1>1, <2>1
  <2>3. \A j \in DOMAIN txs : txs'[j] = IF j = i THEN tx ELSE txs[j]
    BY <1>1, <2>1
  <2>. QED
    BY <2>1, <2>2, <2>3 DEF Settles
<1>4. CASE UNCHANGED chain
  <2>1. events' \in 0 .. MaxEvents
    BY EventTypes DEF IInv, Types, Mine, Evict, Fails, history
  <2>2. UNCHANGED <<task, stored, loops, hLeft, hTorn>>
    BY DEF Mine, Evict, history
  <2>. QED
    BY <1>3, <1>4, <2>1, <2>2, SettlesStep
<1>5. CASE Mine(i) /\ Accepts(txs[i].card)
  <2>. DEFINE card == txs[i].card
              ending == [kind |-> IF card.winner = Nobody THEN "void" ELSE "winner",
                         winner |-> card.winner, by |-> card.role, card |-> card]
  <2>1. card \in Scorecard /\ card.role \in Role
    BY <1>1 DEF Tx, Scorecard
  <2>2. ending \in Ending
    BY <2>1 DEF Ending, Scorecard, AnyCard
  <2>3. /\ chain' = [chain EXCEPT !.phase = "Closed", !.late = FALSE, !.end = ending] /\ ~Closed
        /\ UNCHANGED <<task, stored, loops, history>>
    BY <1>5 DEF Mine, End, Accepts
  <2>4. /\ ending.kind # "open" /\ ending.by = ending.card.role
        /\ ending.kind = IF ending.card.winner = Nobody THEN "void" ELSE "winner"
        /\ txs[i].st = "pool" /\ txs[i].card = ending.card
    BY <1>1
  <2>. HIDE DEF ending
  <2>. QED
    BY <1>3, <2>2, <2>3, <2>4, EndStep
<1>. QED
  BY <1>4, <1>5 DEF Mine, Evict

-----------------------------------------------------------------------------
(* Judging *)

LEMMA LeastNumber ==
  ASSUME NEW S \in SUBSET Nat, S # {}
  PROVE  \E m \in S : \A n \in S : m <= n
<1>. DEFINE Less == {p \in Nat \X Nat : p[1] < p[2]}
<1>1. IsWellFoundedOn(Less, Nat)
  BY NatLessThanWellFounded, Zenon DEF OpToRel
<1>2. PICK m \in S : \A n \in S : <<n, m>> \notin Less
  BY <1>1, WFMin, Zenon
<1>3. ASSUME NEW n \in S PROVE m <= n
  <2>1. m \in Nat /\ n \in Nat
    OBVIOUS
  <2>2. n < m => <<n, m>> \in Less
    BY <2>1, Zenon
  <2>3. ~(n < m)
    BY <1>2, <2>2
  <2>. QED
    BY <2>1, <2>3
<1>. QED
  BY <1>3

LEMMA PlaceFacts ==
  ASSUME IInv, NEW s \in Submitted
  PROVE  Place(s) \in 1 .. Count /\ chain.order[Place(s)] = s
<1>1. \E i \in DOMAIN chain.order : chain.order[i] = s
  BY DEF IInv, OrderOK
<1>2. Place(s) \in DOMAIN chain.order /\ chain.order[Place(s)] = s
  BY <1>1 DEF Place
<1>. QED
  BY <1>2, ScanFacts

LEMMA ResultFacts ==
  ASSUME IInv
  PROVE  /\ Judged \subseteq Submitted /\ Payable \subseteq Judged /\ Submitted \subseteq Submitter
         /\ \A s \in Judged : results[s] = chain.of[s] /\ results[s] \in 0 .. Best
         /\ \A s \in Payable : results[s] \in 1 .. Best
         /\ \A s \in Judged \ Payable : chain.of[s] <= 0
         /\ Best \in Nat
<1>1. Best \in Nat /\ results \in [Submitter -> Maybe]
  BY Parameters DEF IInv, Types, StoreTypes
<1>2. Judged \subseteq Submitted /\ Payable \subseteq Judged /\ Submitted \subseteq Submitter
  BY DEF IInv, ResultsOK, Judged, Payable, Submitted
<1>3. \A s \in Judged : results[s] = chain.of[s] /\ results[s] \in 0 .. Best
  <2>1. \A s \in Submitter : results[s] \in {NoResult, chain.of[s]}
    BY DEF IInv, ResultsOK
  <2>. QED
    BY <1>1, <1>2, <2>1 DEF Judged, Maybe, Result
<1>4. \A s \in Payable : results[s] \in 1 .. Best
  BY <1>1, <1>2, <1>3 DEF Payable
<1>5. \A s \in Judged \ Payable : chain.of[s] <= 0
  BY <1>1, <1>3 DEF Payable
<1>. QED
  BY <1>1, <1>2, <1>3, <1>4, <1>5

\* One of the payable submissions is ahead of all the others.
LEMMA WinnerIsFirst ==
  ASSUME IInv, Payable # {}
  PROVE  Winner \in Payable /\ \A t \in Payable \ {Winner} : Ahead(Winner, t)
<1>1. \A s \in Payable : /\ s \in Submitted /\ results[s] \in Int /\ Best - results[s] \in Nat
                         /\ Place(s) \in Nat /\ chain.order[Place(s)] = s
  <2>1. \A s \in Payable : s \in Submitted /\ results[s] \in 1 .. Best /\ Best \in Nat
    BY ResultFacts
  <2>2. \A s \in Payable : Place(s) \in 1 .. Count /\ Count \in Nat /\ chain.order[Place(s)] = s
    BY <2>1, PlaceFacts, ScanFacts
  <2>. QED
    BY <2>1, <2>2
<1>2. PICK m \in {Best - results[s] : s \in Payable} :
        \A n \in {Best - results[s] : s \in Payable} : m <= n
  <2>1. {Best - results[s] : s \in Payable} \in SUBSET Nat
    BY <1>1
  <2>2. {Best - results[s] : s \in Payable} # {}
    OBVIOUS
  <2>. QED
    BY <2>1, <2>2, LeastNumber
<1>. DEFINE Top == {s \in Payable : Best - results[s] = m}
<1>3. PICK k \in {Place(s) : s \in Top} : \A n \in {Place(s) : s \in Top} : k <= n
  <2>1. {Place(s) : s \in Top} \in SUBSET Nat
    BY <1>1
  <2>2. {Place(s) : s \in Top} # {}
    BY <1>2
  <2>. QED
    BY <2>1, <2>2, LeastNumber
<1>4. PICK w \in Top : Place(w) = k
  BY <1>3
<1>5. ASSUME NEW t \in Payable \ {w} PROVE Ahead(w, t)
  <2>1. Best - results[w] <= Best - results[t]
    BY <1>2, <1>4
  <2>2. results[w] \in Int /\ results[t] \in Int /\ Best \in Int
    BY <1>1, <1>4, ResultFacts
  <2>3. results[w] >= results[t]
    BY <2>1, <2>2
  <2>4. CASE results[w] = results[t]
    <3>1. t \in Top
      BY <1>4, <2>4
    <3>2. Place(w) <= Place(t)
      BY <1>3, <1>4, <3>1
    <3>3. Place(w) # Place(t) /\ Place(w) \in Int /\ Place(t) \in Int
      BY <1>1, <1>4
    <3>4. Place(w) < Place(t)
      BY <3>2, <3>3
    <3>. QED
      BY <2>4, <3>4 DEF Ahead
  <2>5. CASE results[w] # results[t]
    <3>1. results[w] > results[t]
      BY <2>2, <2>3, <2>5
    <3>. QED
      BY <3>1 DEF Ahead
  <2>. QED
    BY <2>4, <2>5
<1>6. w \in Payable /\ \A t \in Payable \ {w} : Ahead(w, t)
  BY <1>4, <1>5
<1>7. \E s \in Payable : \A t \in Payable \ {s} : Ahead(s, t)
  BY <1>6
<1>. QED
  BY <1>7, Zenon DEF Winner

\* Once as many results as submissions are judged, all are.
LEMMA AllJudged ==
  ASSUME IInv, Cardinality(Judged) = Count
  PROVE  Judged = Submitted
<1>1. Count \in Nat /\ DOMAIN chain.order = 1 .. Count /\ chain.order \in Seq(Submitter)
  BY ScanFacts DEF IInv, Types, ChainTypes
<1>2. chain.order \in Surjection(1 .. Count, Submitted)
  <2>1. chain.order \in [1 .. Count -> Submitted]
    BY <1>1 DEF IInv, OrderOK
  <2>2. \A s \in Submitted : \E i \in 1 .. Count : chain.order[i] = s
    BY <1>1 DEF IInv, OrderOK
  <2>. QED
    BY <2>1, <2>2 DEF Surjection
<1>3. IsFiniteSet(1 .. Count) /\ Cardinality(1 .. Count) = Count
  BY <1>1, FS_Interval
<1>4. IsFiniteSet(Submitted) /\ Cardinality(Submitted) <= Count
  BY <1>2, <1>3, FS_Surjection
<1>5. Cardinality(Submitted) \in Nat
  BY <1>4, FS_CardinalityType
<1>6. Judged \in SUBSET Submitted
  BY ResultFacts
<1>7. Cardinality(Judged) <= Cardinality(Submitted)
  BY <1>4, <1>6, FS_Subset
<1>8. Cardinality(Submitted) = Cardinality(Judged)
  BY <1>1, <1>4, <1>5, <1>7
<1>. QED
  BY <1>4, <1>6, <1>8, FS_Subset

LEMMA WinnerIsSound ==
  ASSUME IInv, NEW role \in Role, chain.phase # "Submissions", Payable # {}
  PROVE  Sound([role |-> role, winner |-> Winner, judged |-> Judged])
<1>. DEFINE card == [role |-> role, winner |-> Winner, judged |-> Judged]
<1>1. Winner \in Payable /\ \A t \in Payable \ {Winner} : Ahead(Winner, t)
  BY WinnerIsFirst
<1>2. card \in Scorecard /\ Winner # Nobody
  BY <1>1, ResultFacts, Parameters DEF Scorecard
<1>3. chain.of[Winner] = results[Winner] /\ results[Winner] \in Int /\ results[Winner] > 0
  BY <1>1, ResultFacts
<1>4. ASSUME NEW t \in Judged PROVE Before(Winner, t)
  <2>1. t \in Submitted /\ Winner \in Submitted /\ results[t] = chain.of[t] /\ results[t] \in Int
    BY <1>1, ResultFacts
  <2>2. Place(Winner) \in Int /\ Place(t) \in Int
    BY <2>1, PlaceFacts, ScanFacts
  <2>3. CASE t = Winner
    BY <2>2, <2>3 DEF Before
  <2>4. CASE t \in Payable /\ t # Winner
    <3>1. Ahead(Winner, t)
      BY <1>1, <2>4
    <3>. QED
      BY <1>3, <2>1, <2>2, <3>1 DEF Before, Ahead
  <2>5. CASE t \notin Payable
    <3>1. chain.of[t] <= 0
      BY <2>5, ResultFacts
    <3>2. chain.of[Winner] > chain.of[t]
      BY <1>3, <2>1, <3>1
    <3>. QED
      BY <3>2 DEF Before
  <2>. QED
    BY <2>3, <2>4, <2>5
<1>. QED
  BY <1>2, <1>3, <1>4 DEF Sound

LEMMA VoidIsSound ==
  ASSUME IInv, NEW role \in Role, chain.phase # "Submissions", Payable = {},
         Cardinality(Judged) = Count
  PROVE  Sound([role |-> role, winner |-> Nobody, judged |-> Judged])
<1>1. [role |-> role, winner |-> Nobody, judged |-> Judged] \in Scorecard
  BY ResultFacts DEF Scorecard
<1>2. ASSUME NEW s \in Submitter PROVE chain.of[s] <= 0
  <2>1. CASE s \in Submitted
    BY <2>1, AllJudged, ResultFacts
  <2>2. CASE s \notin Submitted
    BY <2>2 DEF Submitted, NoResult
  <2>. QED
    BY <2>1, <2>2
<1>. QED
  BY <1>1, <1>2 DEF Sound

-----------------------------------------------------------------------------
(* The platform's judge *)

Broadcasts == Deciding /\ txs' = Append(txs, [card |-> judge.card, st |-> "pool"])

LEMMA BroadcastFacts ==
  ASSUME IInv, Broadcasts
  PROVE  /\ txs' \in Seq(Tx) /\ Len(txs') = Len(txs) + 1 /\ DOMAIN txs = 1 .. Len(txs)
         /\ DOMAIN txs' = 1 .. (Len(txs) + 1)
         /\ \A i \in DOMAIN txs : txs'[i] = txs[i]
         /\ txs'[Len(txs) + 1] = [card |-> judge.card, st |-> "pool"]
<1>1. txs \in Seq(Tx) /\ judge.card \in Scorecard
  BY DEF IInv, Types, LoopTypes, Broadcasts, CardsSound, Sound
<1>2. [card |-> judge.card, st |-> "pool"] \in Tx
  BY <1>1 DEF Tx
<1>. QED
  BY <1>1, <1>2 DEF Broadcasts

LEMMA IdleTypes == JudgeIdle \in [at : {"idle", "send", "wait"}, card : AnyCard, tx : Nat]
BY DEF JudgeIdle, AnyCard

\* The judge goes back to idle: either nothing is left in the pool, or it
\* gave up, perhaps on a transaction that only now went out.
LEMMA StopStep ==
  ASSUME IInv, UNCHANGED <<task, chain, heldCard, keptCard, recorded, results>>,
         StoreTypes', judge' = JudgeIdle,
         indexer' \in [at : {"idle", "met", "recorded"} \cup Final, pos : Nat], ScanOK',
         Handled' => Handled, hLeft => hLeft',
         \/ txs' = txs /\ (~hLeft' => \A i \in DOMAIN txs : txs[i].st # "pool")
         \/ Broadcasts /\ hLeft'
  PROVE  IInv'
<1>1. judge'.at = "idle" /\ judge'.tx = 0 /\ ~Deciding' /\ ~JudgeAt("wait")'
  BY DEF JudgeIdle, Deciding, JudgeAt
<1>2. txs' \in Seq(Tx) /\ Len(txs') \in Nat
  BY BroadcastFacts DEF IInv, Types, LoopTypes
<1>3. Types'
  BY <1>1, <1>2, IdleTypes DEF IInv, Types, ChainTypes, LoopTypes
<1>4. OrderOK' /\ ResultsOK'
  BY DEF IInv, OrderOK, ResultsOK, Submitted
<1>5. (\A i \in DOMAIN txs : Sound(txs[i].card))'
  <2>1. \A card : Sound(card) => Sound(card)'
    BY SameChain, SoundKept
  <2>2. \A i \in DOMAIN txs : Sound(txs[i].card)
    BY DEF IInv, CardsSound
  <2>3. CASE txs' = txs
    BY <2>1, <2>2, <2>3
  <2>4. CASE Broadcasts
    <3>1. Sound(judge.card)
      BY <2>4 DEF IInv, CardsSound, Broadcasts
    <3>2. \A i \in DOMAIN txs' : i \in DOMAIN txs \/ i = Len(txs) + 1
      BY <2>4, BroadcastFacts
    <3>3. \A i \in DOMAIN txs' : txs'[i].card = judge.card \/ (i \in DOMAIN txs /\ txs'[i] = txs[i])
      BY <2>4, <3>2, BroadcastFacts
    <3>. QED
      BY <2>1, <2>2, <3>1, <3>3
  <2>. QED
    BY <2>3, <2>4
<1>6. CardsSound'
  <2>1. chain.end.by \in Role => Sound(chain.end.card)'
    BY SameChain, SoundKept DEF IInv, CardsSound
  <2>. QED
    BY <1>1, <1>5, <2>1 DEF IInv, CardsSound
<1>7. CardsHeld'
  BY <1>1 DEF IInv, CardsHeld
<1>8. AnchoredIsKept'
  BY AnchoredStays DEF IInv
<1>. QED
  BY <1>3, <1>4, <1>6, <1>7, <1>8 DEF IInv

\* The scan is not concerned.
LEMMA ScanStays ==
  ASSUME IInv, UNCHANGED <<chain, indexer>>
  PROVE  /\ indexer' \in [at : {"idle", "met", "recorded"} \cup Final, pos : Nat]
         /\ ScanOK' /\ (Handled' => Handled)
BY SameChain DEF IInv, Types, LoopTypes, ScanOK, At, Handled

\* Nothing is in the pool that the judge does not wait for.
LEMMA PoolFacts ==
  ASSUME IInv, ~hLeft, NEW i \in DOMAIN txs, txs[i].st = "pool"
  PROVE  JudgeAt("wait") /\ txs[judge.tx].st = "pool"
BY DEF IInv, CardsHeld

LEMMA DecideStep ==
  ASSUME IInv, ~Closed, JudgeAt("idle"), NEW card, Sound(card),
         heldCard' = [heldCard EXCEPT ![card.role] = card],
         judge' = [at |-> "send", card |-> card, tx |-> 0],
         UNCHANGED <<task, chain, txs, record, recorded, pending, results, keptCard, judgeDue,
                     outcome, listing, marker, credited, indexer, sending, events, hLeft, hTorn>>
  PROVE  IInv'
<1>1. card \in Scorecard /\ card.role \in Role
  BY DEF Sound, Scorecard
<1>2. judge'.at = "send" /\ judge'.card = card /\ judge'.tx = 0
  OBVIOUS
<1>3. heldCard' \in [Role -> AnyCard] /\ heldCard'[card.role] = card
  BY <1>1 DEF IInv, Types, StoreTypes, AnyCard
<1>4. StoreTypes'
  BY <1>3 DEF IInv, Types, StoreTypes
<1>5. LoopTypes'
  <2>1. judge' \in [at : {"idle", "send", "wait"}, card : AnyCard, tx : Nat]
    BY <1>1 DEF AnyCard
  <2>2. txs' \in Seq(Tx) /\ 0 <= Len(txs')
    BY DEF IInv, Types, LoopTypes
  <2>. QED
    BY <1>2, <2>1, <2>2, ScanStays DEF LoopTypes
<1>6. Types'
  BY <1>4, <1>5 DEF IInv, Types, ChainTypes
<1>7. OrderOK' /\ ResultsOK'
  BY DEF IInv, OrderOK, ResultsOK, Submitted
<1>8. CardsSound'
  <2>1. \A c : Sound(c) => Sound(c)'
    BY SameChain, SoundKept
  <2>2. (\A i \in DOMAIN txs : Sound(txs[i].card))'
    BY <2>1 DEF IInv, CardsSound
  <2>3. chain.end.by \notin Role
    BY OpenFacts
  <2>. QED
    BY <1>2, <2>1, <2>2, <2>3 DEF CardsSound, Deciding, JudgeAt
<1>9. CardsHeld'
  BY <1>2, <1>3, OpenFacts, PoolFacts DEF CardsHeld, JudgeAt, Deciding
<1>10. AnchoredIsKept'
  BY ScanStays, AnchoredStays DEF IInv
<1>. QED
  BY <1>6, <1>7, <1>8, <1>9, <1>10, ScanStays DEF IInv

LEMMA LookStep ==
  ASSUME IInv, JudgeLook
  PROVE  IInv'
<1>1. /\ JudgeAt("idle")
      /\ UNCHANGED <<task, chain, txs, record, recorded, pending, results, keptCard, outcome, listing,
                     marker, credited, indexer, sending, events, hLeft, hTorn>>
  BY DEF JudgeLook, judgeKeeps, mirror, payout, history
<1>2. ASSUME StayDue \/ LeaveToBackup \/ Forget, UNCHANGED heldCard
      PROVE  IInv'
  <2>1. judge' = JudgeIdle /\ judgeDue' \in Dues
    BY <1>2 DEF StayDue, LeaveToBackup, Forget, Dues
  <2>2. StoreTypes'
    BY <1>1, <1>2, <2>1 DEF IInv, Types, StoreTypes
  <2>3. ~hLeft' => \A i \in DOMAIN txs : txs[i].st # "pool"
    BY <1>1, PoolFacts DEF JudgeAt
  <2>. QED
    BY <1>1, <1>2, <2>1, <2>2, <2>3, ScanStays, StopStep
<1>3. ASSUME ~Closed, OurTurn, NEW winner, Decide(winner),
             \/ Payable # {} /\ winner = Winner
             \/ Payable = {} /\ Cardinality(Judged) = Count /\ winner = Nobody
      PROVE  IInv'
  <2>. DEFINE role == IF chain.phase = "BackupPick" THEN "backup" ELSE "task_verifier"
              card == [role |-> role, winner |-> winner, judged |-> Judged]
  <2>1. role \in Role /\ chain.phase # "Submissions"
    BY <1>3 DEF Role, OurTurn
  <2>2. Sound(card)
    BY <1>3, <2>1, WinnerIsSound, VoidIsSound
  <2>3. /\ heldCard' = [heldCard EXCEPT ![card.role] = card]
        /\ judge' = [at |-> "send", card |-> card, tx |-> 0] /\ UNCHANGED judgeDue
    BY <1>3 DEF Decide
  <2>. HIDE DEF card
  <2>. QED
    BY <1>1, <1>3, <2>2, <2>3, DecideStep
<1>4. \/ (StayDue \/ LeaveToBackup \/ Forget) /\ UNCHANGED heldCard
      \/ /\ ~Closed /\ OurTurn
         /\ \E late \in {FALSE, chain.late} : TakeTurn(late)
  BY DEF JudgeLook
<1>5. ASSUME ~Closed, OurTurn, NEW late, TakeTurn(late)
      PROVE  IInv'
  <2>1. \/ (StayDue \/ LeaveToBackup \/ Forget) /\ UNCHANGED heldCard
        \/ Payable # {} /\ Decide(Winner)
        \/ Payable = {} /\ Cardinality(Judged) = Count /\ Decide(Nobody)
    BY <1>5 DEF TakeTurn
  <2>. QED
    BY <1>2, <1>3, <1>5, <2>1
<1>. QED
  BY <1>2, <1>4, <1>5

LEMMA SendTxStep ==
  ASSUME IInv, SendTx
  PROVE  IInv'
<1>1. /\ JudgeAt("send") /\ Deciding
      /\ UNCHANGED <<task, chain, heldCard, record, recorded, pending, results, keptCard, outcome,
                     listing, marker, credited, indexer, sending, events, hLeft, hTorn>>
  BY DEF SendTx, judgeKeeps, mirror, payout, history, JudgeAt, Deciding
<1>2. ~hLeft => \A i \in DOMAIN txs : txs[i].st # "pool"
  BY <1>1, PoolFacts DEF JudgeAt
<1>3. CASE StayDue /\ UNCHANGED txs
  <2>1. judge' = JudgeIdle /\ judgeDue' \in Dues
    BY <1>3 DEF StayDue, Dues
  <2>2. StoreTypes'
    BY <1>1, <2>1 DEF IInv, Types, StoreTypes
  <2>. QED
    BY <1>1, <1>2, <1>3, <2>1, <2>2, ScanStays, StopStep
<1>4. CASE Broadcast /\ judge' = [judge EXCEPT !.at = "wait", !.tx = Len(txs')] /\ UNCHANGED judgeDue
  <2>. DEFINE n == Len(txs) + 1
  <2>1. /\ txs' \in Seq(Tx) /\ Len(txs') = n /\ DOMAIN txs' = 1 .. n /\ n \in Nat
        /\ DOMAIN txs = 1 .. Len(txs) /\ Len(txs) \in Nat
        /\ \A i \in DOMAIN txs : txs'[i] = txs[i]
        /\ txs'[n] = [card |-> judge.card, st |-> "pool"]
    <3>1. Broadcasts
      BY <1>1, <1>4 DEF Broadcast, Broadcasts
    <3>2. Len(txs) \in Nat
      BY DEF IInv, Types, LoopTypes
    <3>. QED
      BY <3>1, <3>2, BroadcastFacts
  <2>2. /\ judge \in [at : {"idle", "send", "wait"}, card : AnyCard, tx : Nat]
        /\ judge' = [judge EXCEPT !.at = "wait", !.tx = n]
    BY <1>4, <2>1 DEF IInv, Types, LoopTypes
  <2>. HIDE DEF n
  <2>3. /\ judge' \in [at : {"idle", "send", "wait"}, card : AnyCard, tx : Nat]
        /\ judge'.at = "wait" /\ judge'.tx = n /\ judge'.card = judge.card
    BY <2>1, <2>2
  <2>4. Types'
    <3>1. ChainTypes' /\ StoreTypes'
      BY <1>1, <1>4 DEF IInv, Types, ChainTypes, StoreTypes
    <3>2. LoopTypes'
      BY <1>1, <2>1, <2>3, ScanStays DEF LoopTypes
    <3>. QED
      BY <3>1, <3>2 DEF Types
  <2>5. OrderOK' /\ ResultsOK'
    BY <1>1 DEF IInv, OrderOK, ResultsOK, Submitted
  <2>6. \A i \in 1 .. n : i \in DOMAIN txs \/ i = n
    BY <2>1 DEF n
  <2>7. n \in 1 .. n
    BY <2>1 DEF n
  <2>8. CardsSound'
    <3>1. \A c : Sound(c) => Sound(c)'
      BY <1>1, SameChain, SoundKept
    <3>2. Sound(judge.card) /\ \A i \in DOMAIN txs : Sound(txs[i].card)
      BY <1>1 DEF IInv, CardsSound
    <3>3. (\A i \in DOMAIN txs : Sound(txs[i].card))'
      BY <2>1, <2>6, <3>1, <3>2
    <3>4. Sound(judge.card)'
      BY <2>3, <3>1, <3>2
    <3>5. (chain.end.by \in Role => Sound(chain.end.card))'
      <4>1. chain.end.by \in Role => Sound(chain.end.card)
        BY DEF IInv, CardsSound
      <4>2. chain.end.by \in Role => Sound(chain.end.card)'
        <5>1. Sound(chain.end.card) => Sound(chain.end.card)'
          BY <1>1, SameChain, SoundKept
        <5>. QED
          BY <4>1, <5>1
      <4>. QED
        BY <1>1, <4>2
    <3>. QED
      BY <1>1, <2>1, <2>3, <2>7, <3>3, <3>4, <3>5 DEF IInv, CardsSound
  <2>9. CardsHeld'
    <3>1. (~hLeft => \A i \in DOMAIN txs : txs[i].st = "pool" => JudgeAt("wait") /\ judge.tx = i)'
      BY <1>1, <1>2, <2>1, <2>3, <2>6 DEF JudgeAt
    <3>2. (Deciding /\ ~Closed => heldCard[judge.card.role] = judge.card)'
      BY <1>1, <2>3 DEF IInv, CardsHeld, Closed
    <3>. QED
      BY <1>1, <3>1, <3>2 DEF IInv, CardsHeld
  <2>10. AnchoredIsKept'
    BY <1>1, ScanStays, AnchoredStays DEF IInv
  <2>. QED
    BY <1>1, <2>4, <2>5, <2>8, <2>9, <2>10, ScanStays DEF IInv
<1>. QED
  BY <1>3, <1>4 DEF SendTx

LEMMA ReceiptStep ==
  ASSUME IInv, Receipt \/ JudgeTimeout
  PROVE  IInv'
<1>1. /\ JudgeAt("wait") /\ judge' = JudgeIdle /\ judgeDue' \in Dues
      /\ UNCHANGED <<task, chain, txs, heldCard, record, recorded, pending, results, keptCard, outcome,
                     listing, marker, credited, indexer, sending, hTorn>>
  BY DEF Receipt, JudgeTimeout, Forget, StayDue, Dues, judgeKeeps, mirror, payout, history
<1>2. events' \in 0 .. MaxEvents
  BY EventTypes DEF IInv, Types, Receipt, JudgeTimeout, Fails, history
<1>3. /\ hLeft \in BOOLEAN /\ hLeft' \in BOOLEAN /\ (hLeft => hLeft')
      /\ ~hLeft' => \A i \in DOMAIN txs : txs[i].st # "pool"
  <2>1. hLeft \in BOOLEAN
    BY DEF IInv, Types, StoreTypes
  <2>2. CASE Receipt
    <3>1. UNCHANGED hLeft /\ txs[judge.tx].st # "pool"
      BY <2>2 DEF Receipt, history
    <3>. QED
      BY <2>1, <3>1, PoolFacts
  <2>3. CASE JudgeTimeout
    <3>1. hLeft'
      BY <2>3 DEF JudgeTimeout, LeftInPool
    <3>2. hLeft' \in BOOLEAN
      BY <2>3 DEF JudgeTimeout, LeftInPool
    <3>. QED
      BY <2>1, <3>1, <3>2
  <2>. QED
    BY <2>2, <2>3
<1>4. StoreTypes'
  BY <1>1, <1>2, <1>3 DEF IInv, Types, StoreTypes
<1>. QED
  BY <1>1, <1>3, <1>4, ScanStays, StopStep

LEMMA PerhapsSentFacts ==
  ASSUME IInv, PerhapsSent
  PROVE  /\ hLeft' \in BOOLEAN /\ (hLeft => hLeft')
         /\ \/ txs' = txs /\ (~hLeft' => \A i \in DOMAIN txs : txs[i].st # "pool")
            \/ Broadcasts /\ hLeft'
<1>1. hLeft \in BOOLEAN
  BY DEF IInv, Types, StoreTypes
<1>2. CASE JudgeAt("send") /\ Broadcast /\ hLeft' = TRUE
  BY <1>2 DEF Broadcast, Broadcasts, Deciding, JudgeAt
<1>3. CASE JudgeAt("send") /\ UNCHANGED <<txs, hLeft>>
  <2>1. ~hLeft => \A i \in DOMAIN txs : txs[i].st # "pool"
    BY <1>3, PoolFacts DEF JudgeAt
  <2>. QED
    BY <1>1, <1>3, <2>1
<1>4. CASE LeftInPool /\ UNCHANGED txs
  <2>1. hLeft' \in BOOLEAN /\ (hLeft => hLeft')
    BY <1>1, <1>4 DEF LeftInPool
  <2>2. ~hLeft' => ~hLeft /\ ~(JudgeAt("wait") /\ txs[judge.tx].st = "pool")
    BY <1>4 DEF LeftInPool
  <2>3. ~hLeft' => \A i \in DOMAIN txs : txs[i].st # "pool"
    BY <2>2, PoolFacts
  <2>. QED
    BY <1>4, <2>1, <2>3
<1>. QED
  BY <1>2, <1>3, <1>4 DEF PerhapsSent

LEMMA JudgeFaultSteps ==
  ASSUME IInv, JudgeFails \/ Crash
  PROVE  IInv'
<1>1. /\ judge' = JudgeIdle /\ PerhapsSent
      /\ UNCHANGED <<task, chain, heldCard, record, recorded, pending, results, keptCard, outcome,
                     listing>>
  BY DEF JudgeFails, Crash, judgeKeeps, cards, mirror, payout
<1>2. events' \in 0 .. MaxEvents
  BY EventTypes DEF IInv, Types, JudgeFails, Crash, Fails
<1>3. sending' \in [Submitter -> Maybe] /\ judgeDue' \in Dues
  <2>1. sending' = sending \/ sending' = [s \in Submitter |-> NoResult]
    BY DEF JudgeFails, Crash, judgeKeeps
  <2>2. NoResult \in Maybe
    BY DEF Maybe
  <2>. QED
    BY <2>1, <2>2 DEF IInv, Types, StoreTypes, JudgeFails, Crash, Dues
<1>4. marker' \in BOOLEAN /\ credited' \in BOOLEAN /\ hTorn' \in BOOLEAN
  BY ClaimTypes DEF IInv, Types, StoreTypes, JudgeFails, Crash, judgeKeeps, mirror, payout
<1>5. StoreTypes'
  BY <1>1, <1>2, <1>3, <1>4, PerhapsSentFacts DEF IInv, Types, StoreTypes
<1>6. /\ indexer' \in [at : {"idle", "met", "recorded"} \cup Final, pos : Nat]
      /\ ScanOK' /\ (Handled' => Handled)
  BY <1>1, ScanStays, RedeliverFacts DEF JudgeFails, Crash, judgeKeeps
<1>. QED
  BY <1>1, <1>5, <1>6, PerhapsSentFacts, StopStep

-----------------------------------------------------------------------------
(* The invariant *)

LEMMA InitIInv == Init => IInv
<1>. SUFFICES ASSUME Init PROVE IInv
  OBVIOUS
<1>1. NoResult \in Maybe /\ NoCard \in AnyCard /\ Open \in Ending /\ 0 \in 0 .. MaxEvents
  BY Parameters DEF Maybe, AnyCard, Ending, Open
<1>2. /\ chain.phase = "Submissions" /\ chain.order = <<>> /\ chain.end = Open
      /\ \A s \in Submitter : chain.of[s] = NoResult
  BY DEF Init
<1>3. ChainTypes
  <2>1. [s \in Submitter |-> NoResult] \in [Submitter -> Maybe]
    BY <1>1
  <2>. QED
    BY <1>1, <1>2, <2>1 DEF Init, ChainTypes, Phases, Open
<1>4. StoreTypes
  BY <1>1 DEF Init, StoreTypes, Dues
<1>5. LoopTypes
  BY IdleTypes DEF Init, LoopTypes, JudgeIdle
<1>6. Submitted = {} /\ Count = 0
  BY <1>2 DEF Submitted, Count
<1>7. OrderOK /\ ResultsOK
  BY <1>2, <1>6 DEF Init, OrderOK, ResultsOK
<1>8. ScanOK
  <2>1. indexer.at = "idle" /\ indexer.pos = 0 /\ EventCount = 1
    BY <1>2, <1>6 DEF Init, EventCount, Open
  <2>. QED
    BY <2>1 DEF ScanOK, At, Final
<1>9. CardsSound /\ CardsHeld /\ AnchoredIsKept
  <2>1. judge.at = "idle" /\ DOMAIN txs = {} /\ keptCard = NoCard /\ chain.end.by = "nobody"
    BY <1>2 DEF Init, JudgeIdle, Open
  <2>. QED
    BY <2>1 DEF CardsSound, CardsHeld, AnchoredIsKept, Deciding, JudgeAt, Role
<1>. QED
  BY <1>3, <1>4, <1>5, <1>7, <1>8, <1>9 DEF IInv, Types

LEMMA StutterStep == ASSUME IInv, UNCHANGED vars PROVE IInv'
<1>1. UNCHANGED <<task, chain, stored, loops, history>> /\ Settles /\ events' \in 0 .. MaxEvents
  BY DEF vars, history, Settles, IInv, Types, LoopTypes, StoreTypes
<1>. QED
  BY <1>1, SettlesStep DEF history

LEMMA NextIInv == IInv /\ [Next]_vars => IInv'
<1>. SUFFICES ASSUME IInv, [Next]_vars PROVE IInv'
  OBVIOUS
<1>1. ASSUME NEW s \in Submitter, NEW r \in Sends[s], Land(s, r) \/ SubmitOpen(s, r)
      PROVE  IInv'
  BY <1>1, LandStep, SendSteps
<1>2. ASSUME NEW s \in Submitter, HoldResult(s) \/ Lapse(s) \/ Resend(s)
      PROVE  IInv'
  BY <1>2, SendSteps
<1>3. CASE TimePasses \/ OthersClose
  BY <1>3, TimeStep, OthersCloseStep
<1>4. ASSUME NEW i \in DOMAIN txs, Mine(i) \/ Evict(i)
      PROVE  IInv'
  BY <1>4, PoolSteps
<1>5. CASE Index
  BY <1>5, MeetSteps, SubmissionSteps, ClosingSteps, KeepCardStep DEF Index
<1>6. CASE IndexerFails \/ CloseRefunded
  BY <1>6, ScanFaultSteps
<1>7. CASE Judge
  BY <1>7, LookStep, SendTxStep, ReceiptStep DEF Judge
<1>8. CASE JudgeTimeout \/ JudgeFails \/ Crash
  BY <1>8, ReceiptStep, JudgeFaultSteps
<1>9. CASE UNCHANGED vars
  BY <1>9, StutterStep
<1>. QED
  BY <1>1, <1>2, <1>3, <1>4, <1>5, <1>6, <1>7, <1>8, <1>9 DEF Next

THEOREM Invariance == Spec => []IInv
BY InitIInv, NextIInv, PTL DEF Spec

-----------------------------------------------------------------------------
(* Theorems *)

(* What Redis, the chain and both loops hold stays in its domain, and the  *)
(* order of submissions is of those who submitted.                         *)
THEOREM OpenTypes == Spec => []TypeOK
<1>1. IInv => TypeOK
  <2>. SUFFICES ASSUME IInv PROVE TypeOK
    OBVIOUS
  <2>1. chain.phase \in {Phase[i] : i \in DOMAIN Phase} \cup {"Closed"}
    <3>1. DOMAIN Phase = 1 .. 5 /\ Phase[1] = "Submissions" /\ Phase[2] = "CreatorPick"
          /\ Phase[3] = "VerifierPick" /\ Phase[4] = "BackupPick" /\ Phase[5] = "AdminResolve"
      BY DEF Phase
    <3>2. chain.phase \in Phases
      BY DEF IInv, Types, ChainTypes
    <3>3. \A i \in {1, 2, 3, 4, 5} : Phase[i] \in {Phase[j] : j \in DOMAIN Phase}
      BY <3>1
    <3>. QED
      BY <3>1, <3>2, <3>3 DEF Phases
  <2>2. {chain.order[i] : i \in DOMAIN chain.order} = {s \in Submitter : chain.of[s] # NoResult}
    BY DEF IInv, OrderOK, Submitted
  <2>3. \A i \in DOMAIN txs : txs[i].card \in Scorecard \cup {NoCard}
    BY DEF IInv, CardsSound, Sound
  <2>4. indexer.pos \in 0 .. EventCount
    BY ScanFacts DEF IInv, ScanOK
  <2>5. judge.tx \in 0 .. Len(txs)
    BY DEF IInv, Types, LoopTypes
  <2>6. recorded \subseteq Submitter
    BY DEF IInv, ResultsOK, Submitted
  <2>7. chain.of \in [Submitter -> Maybe] /\ chain.end.card \in AnyCard /\ task \in Tasks
    BY DEF IInv, Types, ChainTypes, Ending
  <2>8. StoreTypes
    BY DEF IInv, Types
  <2>. QED
    BY <2>1, <2>2, <2>3, <2>4, <2>5, <2>6, <2>7, <2>8 DEF TypeOK, StoreTypes, Maybe, AnyCard, Dues
<1>. QED
  BY <1>1, Invariance, PTL

(* judgeOne decides on commitments: the winner the platform pays is the    *)
(* best of those it judged, and it refunds only what cannot be paid.       *)
THEOREM DecisionsAreSound == Spec => []JudgedOnCommitments
<1>1. IInv => JudgedOnCommitments
  <2>. SUFFICES ASSUME IInv, chain.end.by \in Role
                PROVE  JudgedOnCommitments
    BY DEF JudgedOnCommitments
  <2>1. /\ Sound(chain.end.card)
        /\ chain.end.kind = IF chain.end.card.winner = Nobody THEN "void" ELSE "winner"
    BY DEF IInv, CardsSound
  <2>. QED
    BY <2>1 DEF JudgedOnCommitments, Sound, Before
<1>. QED
  BY <1>1, Invariance, PTL

(* keepScorecard keeps the scorecard the escrow anchored, unless the judge *)
(* gave up on a transaction that was mined after all.                      *)
THEOREM AnchoredStaysKept == Spec => []AnchoredIsKept
<1>1. IInv => AnchoredIsKept
  BY DEF IInv
<1>. QED
  BY <1>1, Invariance, PTL

=============================================================================
