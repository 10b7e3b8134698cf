---------------------------- MODULE ReviewsProofs ----------------------------
(***************************************************************************)
(* Reviews: types, one effect per verdict, verdicts carried out, and one   *)
(* author per retraction, for any number of tickets and reviewers.         *)
(***************************************************************************)
EXTENDS Reviews, TLAPS

\* What a reviewer holds is stamped, has had no effect, and is what the ticket says
\* as far as claims are concerned.
HandsAreStamped ==
  \A w \in Reviewers : hands[w] # None =>
    LET t == hands[w].ticket
        fix == hands[w].repair IN
      /\ status[t] \in Answered
      /\ effects[t] = 0
      /\ fix.tool = "retract" <=> change[t].tool = "retract"
      /\ fix.tool = "retract" => fix.claim = change[t].claim

\* The condition of the stamping update lets one reviewer through.
OneHandler ==
  \A w, v \in Reviewers, t \in Tickets : Holds(w, t) /\ Holds(v, t) => w = v

CreditedAreRetracted ==
  \A t \in Tickets :
    effects[t] > 0 /\ change[t].tool = "retract" => change[t].claim \in retracted

IInv == /\ TypeOK
        /\ HandsAreStamped
        /\ OneHandler
        /\ OneEffectPerVerdict
        /\ VerdictsAreCarriedOut
        /\ CreditedAreRetracted
        /\ RetractionHasOneAuthor

-----------------------------------------------------------------------------
(***************************************************************************)
(* Types.                                                                  *)
(***************************************************************************)
LEMMA TypeInit == Init => TypeOK
BY DEF Init, TypeOK, WorldTyped, TicketsTyped, Statuses

\* A repair that is carried out leaves references naming entities that exist.
LEMMA WorldCarryOut ==
  ASSUME TypeOK, NEW fix \in Repair, CarryOut(fix)
  PROVE  WorldTyped'
<1> USE DEF TypeOK, WorldTyped
<1>1. CASE fix.tool = "split" /\ Split(fix)
  <2>1. PICK target \in IF fix.into = Fresh THEN Entities \ exists ELSE {fix.into} :
          /\ exists' = exists \cup {target}
          /\ bound' = [r \in References |->
                         IF r \in fix.refs /\ bound[r] = fix.from
                           THEN target ELSE bound[r]]
          /\ UNCHANGED <<away, retracted>>
    BY <1>1 DEF Split, Grown
  <2>2. target \in Entities
    <3>1. fix.into = Fresh \/ Live(fix.into)
      BY <1>1 DEF CarryOut, Possible
    <3> QED
      BY <2>1, <3>1 DEF Live
  <2> QED
    BY <2>1, <2>2
<1>2. CASE fix.tool = "retract" /\ Retract(fix)
  <2>1. fix.claim \in Claims
    BY <1>2 DEF Repair
  <2> QED
    BY <1>2, <2>1 DEF Retract
<1>3. CASE Rename
  BY <1>3 DEF Rename, world
<1> QED
  BY <1>1, <1>2, <1>3 DEF CarryOut

\* The repair an answer sets off is one the tools know.
LEMMA GuessRepaired ==
  ASSUME TypeOK, NEW t \in Tickets, Token(t), change[t].tool = "guess", NEW same \in BOOLEAN
  PROVE  (IF same THEN [tool |-> "alias"]
          ELSE [tool |-> "split", from |-> change[t].from,
                refs |-> change[t].refs, into |-> Fresh]) \in Repair
<1>1. change[t] \in [tool : {"guess"}, refs : SUBSET References, from : Entities]
  BY DEF Token, Question
<1> QED
  BY <1>1 DEF Repair

LEMMA TakeTyped ==
  ASSUME TypeOK, NEW w \in Reviewers, NEW t \in Tickets, NEW fix \in Repair, Take(w, t, fix)
  PROVE  hands' \in [Reviewers -> Work \cup {None}]
BY DEF TypeOK, TicketsTyped, Take, Work

LEMMA DroppedTyped ==
  ASSUME TypeOK, NEW w \in Reviewers
  PROVE  [hands EXCEPT ![w] = None] \in [Reviewers -> Work \cup {None}]
BY DEF TypeOK, TicketsTyped

LEMMA HandsTyped ==
  ASSUME TypeOK, NEW w \in Reviewers, hands[w] # None
  PROVE  /\ hands[w] \in Work
         /\ hands[w].ticket \in Tickets
         /\ hands[w].repair \in Repair
         /\ hands[w].refused \in BOOLEAN
BY DEF TypeOK, TicketsTyped, Work

LEMMA TypeStep == TypeOK /\ [Next]_vars => TypeOK'
<1> SUFFICES ASSUME TypeOK, [Next]_vars PROVE TypeOK'
  OBVIOUS
<1> USE DEF TypeOK, TicketsTyped, Statuses, Answered
<1>1. CASE \E t \in Tickets, ch \in Changes : File(t, ch)
  BY <1>1 DEF File, WorldTyped, world
<1>2. CASE \E t \in Tickets : RejectProposal(t)
  BY <1>2 DEF RejectProposal, Open, Stamp, WorldTyped, world
<1>3. CASE \E t \in Tickets, w \in Reviewers : ApplyProposal(w, t)
  <2>1. PICK t \in Tickets, w \in Reviewers : ApplyProposal(w, t)
    BY <1>3
  <2>2. hands' \in [Reviewers -> Work \cup {None}]
    BY <2>1, TakeTyped DEF ApplyProposal, Proposal
  <2> QED
    BY <2>1, <2>2 DEF ApplyProposal, Open, Stamp, WorldTyped, world
<1>4. CASE \E t \in Tickets, w \in Reviewers, same \in BOOLEAN : AnswerToken(w, t, same)
  <2>1. PICK t \in Tickets, w \in Reviewers, same \in BOOLEAN : AnswerToken(w, t, same)
    BY <1>4
  <2>2. hands' \in [Reviewers -> Work \cup {None}]
    BY <2>1, TakeTyped, GuessRepaired DEF AnswerToken
  <2> QED
    BY <2>1, <2>2 DEF AnswerToken, Open, Stamp, WorldTyped, world
<1>5. CASE \E w \in Reviewers : Perform(w)
  <2>1. PICK w \in Reviewers : Perform(w)
    BY <1>5
  <2>2. WorldTyped'
    BY <2>1, HandsTyped, WorldCarryOut DEF Perform
  <2>3. TicketsTyped'
    BY <2>1, HandsTyped, DroppedTyped DEF Perform
  <2> QED
    BY <2>2, <2>3
<1>6. CASE \E w \in Reviewers : Refuse(w)
  <2>1. PICK w \in Reviewers : Refuse(w)
    BY <1>6
  <2>2. hands' \in [Reviewers -> Work \cup {None}]
    BY <2>1 DEF Refuse, Work
  <2> QED
    BY <2>1, <2>2 DEF Refuse, WorldTyped, world
<1>7. CASE \E w \in Reviewers : Reopen(w)
  <2>1. PICK w \in Reviewers : Reopen(w)
    BY <1>7
  <2>2. hands[w].ticket \in Tickets /\ hands' \in [Reviewers -> Work \cup {None}]
    BY <2>1, HandsTyped, DroppedTyped DEF Reopen
  <2>3. status' \in [Tickets -> Statuses] /\ lost' \subseteq Tickets
    BY <2>1, <2>2 DEF Reopen, Stamp, Reopened
  <2>4. \A t \in Tickets : status'[t] # "absent" => change'[t] \in Changes
    BY <2>1, <2>2 DEF Reopen, Stamp, Reopened
  <2> QED
    BY <2>1, <2>2, <2>3, <2>4 DEF Reopen, WorldTyped, world
<1>8. CASE \E w \in Reviewers : Crash(w)
  BY <1>8, HandsTyped, DroppedTyped DEF Crash, WorldTyped, world
<1>9. CASE \E fix \in Changes : CallTool(fix)
  BY <1>9, WorldCarryOut DEF CallTool
<1>10. CASE \E e, f \in Entities : Merge(e, f)
  BY <1>10 DEF Merge, WorldTyped, Live
<1>11. CASE \E e \in Entities : Unmerge(e)
  BY <1>11 DEF Unmerge, WorldTyped
<1>12. CASE UNCHANGED vars
  BY <1>12 DEF vars, WorldTyped
<1> QED
  BY <1>1, <1>2, <1>3, <1>4, <1>5, <1>6, <1>7, <1>8, <1>9, <1>10, <1>11, <1>12 DEF Next

\* Every reference names an entity that exists, through splits onto minted rows and
\* merges of the source or the target.
THEOREM TypeCorrect == Spec => []TypeOK
BY TypeInit, TypeStep, PTL DEF Spec

-----------------------------------------------------------------------------
(***************************************************************************)
(* The ledger of verdicts.  A ticket is in one reviewer's hands at most,   *)
(* and what is in somebody's hands has had no effect yet, so the effect    *)
(* and the hands never meet.                                               *)
(***************************************************************************)
Ledger == /\ HandsAreStamped
          /\ OneHandler
          /\ OneEffectPerVerdict
          /\ VerdictsAreCarriedOut
          /\ CreditedAreRetracted
          /\ RetractionHasOneAuthor

LEMMA LedgerInit == Init => Ledger
BY DEF Init, Ledger, HandsAreStamped, OneHandler, Holds, Held, OneEffectPerVerdict,
       VerdictsAreCarriedOut, CreditedAreRetracted, RetractionHasOneAuthor, Answered

\* A verdict stamped on an open ticket, with or without a repair to follow.
LEMMA LedgerFile ==
  ASSUME IInv, NEW t \in Tickets, NEW ch \in Changes, File(t, ch)
  PROVE  Ledger'
<1> USE DEF IInv, TypeOK, TicketsTyped
<1>1. effects[t] = 0 /\ ~Held(t)
  BY DEF File, OneEffectPerVerdict, HandsAreStamped, Held, Holds, Answered
<1>2. HandsAreStamped' /\ OneHandler'
  BY <1>1 DEF File, HandsAreStamped, OneHandler, Held, Holds, Answered
<1>3. OneEffectPerVerdict' /\ VerdictsAreCarriedOut'
  BY <1>1 DEF File, OneEffectPerVerdict, VerdictsAreCarriedOut, Held, Holds, Answered
<1>4. CreditedAreRetracted' /\ RetractionHasOneAuthor'
  BY <1>1 DEF File, CreditedAreRetracted, RetractionHasOneAuthor, world
<1> QED
  BY <1>2, <1>3, <1>4 DEF Ledger

LEMMA LedgerReject ==
  ASSUME IInv, NEW t \in Tickets, RejectProposal(t)
  PROVE  Ledger'
<1> USE DEF IInv, TypeOK, TicketsTyped
<1>1. effects[t] = 0 /\ ~Held(t)
  BY DEF RejectProposal, Open, OneEffectPerVerdict, HandsAreStamped, Held, Holds, Answered
<1>2. HandsAreStamped' /\ OneHandler'
  BY <1>1 DEF RejectProposal, Stamp, HandsAreStamped, OneHandler, Held, Holds, Answered
<1>3. OneEffectPerVerdict' /\ VerdictsAreCarriedOut'
  BY <1>1 DEF RejectProposal, Stamp, OneEffectPerVerdict, VerdictsAreCarriedOut,
              Held, Holds, Answered
<1>4. CreditedAreRetracted' /\ RetractionHasOneAuthor'
  BY DEF RejectProposal, CreditedAreRetracted, RetractionHasOneAuthor, world
<1> QED
  BY <1>2, <1>3, <1>4 DEF Ledger

LEMMA LedgerTake ==
  ASSUME IInv, NEW t \in Tickets, NEW w \in Reviewers, NEW fix \in Repair,
         NEW verdict \in Answered,
         hands[w] = None, Open(t), Stamp(t, verdict), Take(w, t, fix),
         fix.tool = "retract" <=> change[t].tool = "retract",
         fix.tool = "retract" => fix.claim = change[t].claim,
         UNCHANGED <<world, change, effects, lost>>
  PROVE  Ledger'
<1> USE DEF IInv, TypeOK, TicketsTyped
<1>1. effects[t] = 0 /\ ~Held(t)
  BY DEF Open, OneEffectPerVerdict, HandsAreStamped, Held, Holds, Answered
<1>2. /\ hands'[w] = [ticket |-> t, repair |-> fix, refused |-> FALSE]
      /\ \A v \in Reviewers \ {w} : hands'[v] = hands[v]
      /\ hands'[w] # None
  <2>1. [ticket |-> t, repair |-> fix, refused |-> FALSE] \in Work
    BY DEF Work
  <2>2. /\ hands'[w] = [ticket |-> t, repair |-> fix, refused |-> FALSE]
        /\ \A v \in Reviewers \ {w} : hands'[v] = hands[v]
    BY DEF Take
  <2> QED
    BY ONLY <2>1, <2>2, ReviewsAssumption DEF ReviewsAssumption
<1>3. HandsAreStamped'
  <2> SUFFICES ASSUME NEW v \in Reviewers, hands'[v] # None
               PROVE  /\ status'[hands'[v].ticket] \in Answered
                      /\ effects'[hands'[v].ticket] = 0
                      /\ hands'[v].repair.tool = "retract"
                           <=> change'[hands'[v].ticket].tool = "retract"
                      /\ hands'[v].repair.tool = "retract"
                           => hands'[v].repair.claim = change'[hands'[v].ticket].claim
    BY DEF HandsAreStamped
  <2>1. CASE v = w
    BY <1>1, <1>2, <2>1 DEF Stamp
  <2>2. CASE v # w
    BY <1>2, <2>2, HandsTyped DEF HandsAreStamped, Stamp
  <2> QED
    BY <2>1, <2>2
<1>4. OneHandler'
  BY <1>1, <1>2 DEF OneHandler, Held, Holds
<1>5. \A u \in Tickets \ {t} : Held(u)' <=> Held(u)
  BY <1>2 DEF Held, Holds
<1>6. Held(t)'
  BY <1>2 DEF Held, Holds
<1>7. OneEffectPerVerdict' /\ VerdictsAreCarriedOut'
  BY <1>1, <1>5, <1>6 DEF OneEffectPerVerdict, VerdictsAreCarriedOut, Stamp
<1>8. CreditedAreRetracted' /\ RetractionHasOneAuthor'
  BY DEF CreditedAreRetracted, RetractionHasOneAuthor, world
<1> QED
  BY <1>3, <1>4, <1>7, <1>8 DEF Ledger

LEMMA LedgerAnswer ==
  ASSUME IInv, NEW t \in Tickets, NEW w \in Reviewers, NEW same \in BOOLEAN,
         AnswerToken(w, t, same)
  PROVE  Ledger'
<1> USE DEF IInv, TypeOK, TicketsTyped
<1>1. CASE change[t].tool = "choose" /\ UNCHANGED hands
  <2>1. effects[t] = 0 /\ ~Held(t)
    BY DEF AnswerToken, Open, OneEffectPerVerdict, HandsAreStamped, Held, Holds, Answered
  <2>2. HandsAreStamped' /\ OneHandler'
    BY <1>1, <2>1 DEF AnswerToken, Stamp, HandsAreStamped, OneHandler, Held, Holds, Answered
  <2>3. OneEffectPerVerdict' /\ VerdictsAreCarriedOut'
    BY <1>1, <2>1 DEF AnswerToken, Stamp, OneEffectPerVerdict, VerdictsAreCarriedOut,
                      Held, Holds, Answered
  <2>4. CreditedAreRetracted' /\ RetractionHasOneAuthor'
    BY DEF AnswerToken, CreditedAreRetracted, RetractionHasOneAuthor, world
  <2> QED
    BY <2>2, <2>3, <2>4 DEF Ledger
<1>2. ASSUME NEW fix \in Repair, fix.tool # "retract", change[t].tool = "guess", Take(w, t, fix)
      PROVE  Ledger'
  <2>1. Stamp(t, "resolved") /\ "resolved" \in Answered
    BY DEF AnswerToken, Answered
  <2> QED
    BY <1>2, <2>1, LedgerTake DEF AnswerToken
<1>3. CASE change[t].tool = "guess"
  <2>1. PICK fix : /\ fix = IF same THEN [tool |-> "alias"]
                             ELSE [tool |-> "split", from |-> change[t].from,
                                   refs |-> change[t].refs, into |-> Fresh]
                   /\ Take(w, t, fix)
    BY <1>3 DEF AnswerToken
  <2>2. fix \in Repair /\ fix.tool # "retract"
    BY <1>3, <2>1, GuessRepaired DEF AnswerToken
  <2> QED
    BY <1>2, <1>3, <2>1, <2>2
<1> QED
  BY <1>1, <1>3 DEF AnswerToken

\* A repair only adds to the retracted claims.
LEMMA RetractedGrows ==
  ASSUME NEW fix, CarryOut(fix)
  PROVE  /\ retracted \subseteq retracted'
         /\ fix.tool = "retract" => fix.claim \notin retracted /\ fix.claim \in retracted'
BY DEF CarryOut, Possible, Split, Retract, Rename, world

\* Hands that let go of a ticket hold no other.
LEMMA LettingGo ==
  ASSUME IInv, NEW w \in Reviewers, NEW t \in Tickets, Holds(w, t),
         hands' = [hands EXCEPT ![w] = None]
  PROVE  /\ \A u \in Tickets : Held(u)' <=> Held(u) /\ u # t
         /\ \A v \in Reviewers : hands'[v] # None =>
              /\ hands'[v] = hands[v]
              /\ hands[v].ticket \in Tickets
              /\ hands[v].ticket # t
         /\ OneHandler'
<1>1. \A v \in Reviewers : hands'[v] = IF v = w THEN None ELSE hands[v]
  BY DEF IInv, TypeOK, TicketsTyped
<1>2. \A v \in Reviewers : hands[v] # None => hands[v].ticket \in Tickets
  BY HandsTyped DEF IInv
<1>3. \A v \in Reviewers \ {w} : ~Holds(v, t)
  BY DEF IInv, OneHandler
<1>4. \A v \in Reviewers, u \in Tickets : Holds(v, u)' <=> Holds(v, u) /\ v # w
  BY <1>1 DEF Holds
<1>5. \A u \in Tickets : Held(u)' <=> Held(u) /\ u # t
  <2> SUFFICES ASSUME NEW u \in Tickets PROVE Held(u)' <=> Held(u) /\ u # t
    OBVIOUS
  <2>1. Held(u)' <=> \E v \in Reviewers : Holds(v, u) /\ v # w
    BY <1>4 DEF Held
  <2>2. Holds(w, u) => u = t
    BY DEF Holds
  <2> QED
    BY <1>3, <2>1, <2>2 DEF Held
<1>6. OneHandler'
  BY <1>4 DEF IInv, OneHandler
<1> QED
  BY <1>1, <1>2, <1>3, <1>5, <1>6 DEF Holds

\* The ticket a reviewer holds, and what the invariant says of it.
LEMMA Holding ==
  ASSUME IInv, NEW w \in Reviewers, hands[w] # None
  PROVE  \E t \in Tickets :
           /\ Holds(w, t)
           /\ t = hands[w].ticket
           /\ Held(t)
           /\ status[t] \in Answered
           /\ effects[t] = 0
BY HandsTyped DEF IInv, HandsAreStamped, Holds, Held

LEMMA LedgerPerform ==
  ASSUME IInv, NEW w \in Reviewers, Perform(w)
  PROVE  Ledger'
<1>1. PICK t \in Tickets : /\ Holds(w, t)
                           /\ t = hands[w].ticket
                           /\ Held(t)
                           /\ status[t] \in Answered
                           /\ effects[t] = 0
  BY Holding DEF Perform
<1>2. PICK fix \in Repair : fix = hands[w].repair
  BY HandsTyped DEF IInv, Perform
<1>3. /\ CarryOut(fix)
      /\ fix.tool = "retract" <=> change[t].tool = "retract"
      /\ fix.tool = "retract" => fix.claim = change[t].claim
  BY <1>1, <1>2 DEF IInv, HandsAreStamped, Perform
<1>4. \A u \in Tickets : effects'[u] = IF u = t THEN 1 ELSE effects[u]
  BY <1>1 DEF Perform, IInv, TypeOK, TicketsTyped
<1>5. /\ \A u \in Tickets : Held(u)' <=> Held(u) /\ u # t
      /\ \A v \in Reviewers : hands'[v] # None =>
           /\ hands'[v] = hands[v]
           /\ hands[v].ticket \in Tickets
           /\ hands[v].ticket # t
      /\ OneHandler'
  BY <1>1, LettingGo DEF Perform
<1>6. HandsAreStamped'
  BY <1>4, <1>5 DEF Perform, HandsAreStamped, IInv
<1>7. OneEffectPerVerdict' /\ VerdictsAreCarriedOut'
  BY <1>1, <1>4, <1>5 DEF Perform, OneEffectPerVerdict, VerdictsAreCarriedOut, IInv
<1>8. CreditedAreRetracted'
  BY <1>3, <1>4, RetractedGrows DEF Perform, CreditedAreRetracted, IInv
<1>9. RetractionHasOneAuthor'
  <2> SUFFICES ASSUME NEW u \in Tickets, NEW v \in Tickets, u # v,
                      effects'[u] > 0, effects'[v] > 0,
                      change'[u].tool = "retract", change'[v].tool = "retract"
               PROVE  change'[u].claim # change'[v].claim
    BY DEF RetractionHasOneAuthor
  <2>1. change' = change
    BY DEF Perform
  <2>2. \A x \in Tickets \ {t} : effects'[x] > 0 /\ change[x].tool = "retract" =>
          change[x].claim \in retracted
    BY <1>4 DEF CreditedAreRetracted, IInv
  <2>3. change[t].tool = "retract" => change[t].claim \notin retracted
    BY <1>3, RetractedGrows
  <2>4. CASE u # t /\ v # t
    BY <1>4, <2>1, <2>4 DEF RetractionHasOneAuthor, IInv
  <2> QED
    BY <2>1, <2>2, <2>3, <2>4
<1> QED
  BY <1>5, <1>6, <1>7, <1>8, <1>9 DEF Ledger

LEMMA LedgerRefuse ==
  ASSUME IInv, NEW w \in Reviewers, Refuse(w)
  PROVE  Ledger'
<1>1. hands[w] \in Work
  BY HandsTyped DEF IInv, Refuse
<1>2. /\ hands'[w] \in Work
      /\ hands'[w].ticket = hands[w].ticket
      /\ hands'[w].repair = hands[w].repair
      /\ \A v \in Reviewers \ {w} : hands'[v] = hands[v]
  BY <1>1 DEF Refuse, Work, IInv, TypeOK, TicketsTyped
<1>3. \A v \in Reviewers : /\ hands'[v] # None => hands[v] # None
                           /\ hands'[v] = None => hands[v] = None
                           /\ hands'[v].ticket = hands[v].ticket
                           /\ hands'[v].repair = hands[v].repair
  BY <1>2, ReviewsAssumption DEF ReviewsAssumption, Refuse
<1>4. HandsAreStamped' /\ OneHandler'
  BY <1>3 DEF Refuse, HandsAreStamped, OneHandler, Holds, IInv
<1>5. \A u \in Tickets : Held(u)' <=> Held(u)
  BY <1>3 DEF Held, Holds
<1>6. OneEffectPerVerdict' /\ VerdictsAreCarriedOut'
  BY <1>5 DEF Refuse, OneEffectPerVerdict, VerdictsAreCarriedOut, IInv
<1>7. CreditedAreRetracted' /\ RetractionHasOneAuthor'
  BY DEF Refuse, CreditedAreRetracted, RetractionHasOneAuthor, IInv, world
<1> QED
  BY <1>4, <1>6, <1>7 DEF Ledger

LEMMA LedgerReopen ==
  ASSUME IInv, NEW w \in Reviewers, Reopen(w)
  PROVE  Ledger'
<1>1. PICK t \in Tickets : /\ Holds(w, t)
                           /\ t = hands[w].ticket
                           /\ Held(t)
                           /\ status[t] \in Answered
                           /\ effects[t] = 0
  BY Holding DEF Reopen
<1>2. \/ /\ status' = [status EXCEPT ![t] = "pending"]
         /\ UNCHANGED lost
      \/ /\ lost' = lost \cup {t}
         /\ UNCHANGED status
  BY <1>1 DEF Reopen, Reopened, Stamp
<1>3. \A u \in Tickets \ {t} : status'[u] = status[u] /\ (u \in lost' <=> u \in lost)
  BY <1>2 DEF IInv, TypeOK, TicketsTyped
<1>4. status'[t] \in Answered => t \in lost'
  BY <1>2 DEF IInv, TypeOK, TicketsTyped, Answered
<1>5. /\ \A u \in Tickets : Held(u)' <=> Held(u) /\ u # t
      /\ \A v \in Reviewers : hands'[v] # None =>
           /\ hands'[v] = hands[v]
           /\ hands[v].ticket \in Tickets
           /\ hands[v].ticket # t
      /\ OneHandler'
  BY <1>1, LettingGo DEF Reopen
<1>6. HandsAreStamped'
  BY <1>3, <1>5 DEF Reopen, HandsAreStamped, IInv
<1>7. OneEffectPerVerdict' /\ VerdictsAreCarriedOut'
  BY <1>1, <1>3, <1>4, <1>5 DEF Reopen, OneEffectPerVerdict, VerdictsAreCarriedOut, IInv
<1>8. CreditedAreRetracted' /\ RetractionHasOneAuthor'
  BY DEF Reopen, CreditedAreRetracted, RetractionHasOneAuthor, IInv, world
<1> QED
  BY <1>5, <1>6, <1>7, <1>8 DEF Ledger

LEMMA LedgerCrash ==
  ASSUME IInv, NEW w \in Reviewers, Crash(w)
  PROVE  Ledger'
<1>1. PICK t \in Tickets : Holds(w, t) /\ t = hands[w].ticket /\ effects[t] = 0
  BY Holding DEF Crash
<1>2. /\ \A u \in Tickets : Held(u)' <=> Held(u) /\ u # t
      /\ \A v \in Reviewers : hands'[v] # None =>
           /\ hands'[v] = hands[v]
           /\ hands[v].ticket \in Tickets
           /\ hands[v].ticket # t
      /\ OneHandler'
  BY <1>1, LettingGo DEF Crash
<1>3. HandsAreStamped'
  BY <1>2 DEF Crash, HandsAreStamped, IInv
<1>4. OneEffectPerVerdict' /\ VerdictsAreCarriedOut'
  BY <1>1, <1>2 DEF Crash, OneEffectPerVerdict, VerdictsAreCarriedOut, IInv
<1>5. CreditedAreRetracted' /\ RetractionHasOneAuthor'
  BY DEF Crash, CreditedAreRetracted, RetractionHasOneAuthor, IInv, world
<1> QED
  BY <1>2, <1>3, <1>4, <1>5 DEF Ledger

\* A direct call, a merge or an unmerge leaves the tickets alone.
LEMMA LedgerElsewhere ==
  ASSUME IInv, retracted \subseteq retracted', UNCHANGED <<status, change, hands, effects, lost>>
  PROVE  Ledger'
BY DEF IInv, Ledger, HandsAreStamped, OneHandler, Holds, Held, OneEffectPerVerdict,
       VerdictsAreCarriedOut, CreditedAreRetracted, RetractionHasOneAuthor

LEMMA LedgerStep == IInv /\ [Next]_vars => IInv'
<1> SUFFICES ASSUME IInv, [Next]_vars PROVE Ledger'
  BY TypeStep DEF IInv, Ledger
<1>1. CASE \E t \in Tickets, ch \in Changes : File(t, ch)
  BY <1>1, LedgerFile
<1>2. CASE \E t \in Tickets : RejectProposal(t)
  BY <1>2, LedgerReject
<1>3. CASE \E t \in Tickets, w \in Reviewers : ApplyProposal(w, t)
  <2>1. PICK t \in Tickets, w \in Reviewers : ApplyProposal(w, t)
    BY <1>3
  <2>2. change[t] \in Repair /\ "applied" \in Answered
    BY <2>1 DEF ApplyProposal, Proposal, Answered
  <2> QED
    BY <2>1, <2>2, LedgerTake DEF ApplyProposal
<1>4. CASE \E t \in Tickets, w \in Reviewers, same \in BOOLEAN : AnswerToken(w, t, same)
  BY <1>4, LedgerAnswer
<1>5. CASE \E w \in Reviewers : Perform(w)
  BY <1>5, LedgerPerform
<1>6. CASE \E w \in Reviewers : Refuse(w)
  BY <1>6, LedgerRefuse
<1>7. CASE \E w \in Reviewers : Reopen(w)
  BY <1>7, LedgerReopen
<1>8. CASE \E w \in Reviewers : Crash(w)
  BY <1>8, LedgerCrash
<1>9. CASE \E fix \in Changes : CallTool(fix)
  BY <1>9, RetractedGrows, LedgerElsewhere DEF CallTool
<1>10. CASE \E e, f \in Entities : Merge(e, f)
  BY <1>10, LedgerElsewhere DEF Merge
<1>11. CASE \E e \in Entities : Unmerge(e)
  BY <1>11, LedgerElsewhere DEF Unmerge
<1>12. CASE UNCHANGED vars
  BY <1>12, LedgerElsewhere DEF vars
<1> QED
  BY <1>1, <1>2, <1>3, <1>4, <1>5, <1>6, <1>7, <1>8, <1>9, <1>10, <1>11, <1>12 DEF Next

LEMMA InvariantHolds == Spec => []IInv
<1>1. Init => IInv
  BY TypeInit, LedgerInit DEF IInv, Ledger
<1> QED
  BY <1>1, LedgerStep, PTL DEF Spec

\* However many reviewers race for however many tickets, a verdict's repair is
\* committed at most once, and only under a standing verdict.
THEOREM OneEffectPerVerdictHolds == Spec => []OneEffectPerVerdict
<1>1. IInv => OneEffectPerVerdict
  BY DEF IInv
<1> QED
  BY InvariantHolds, <1>1, PTL

\* A standing verdict was carried out or is being carried out, unless its reviewer
\* died or lost the database.
THEOREM VerdictsAreCarriedOutHolds == Spec => []VerdictsAreCarriedOut
<1>1. IInv => VerdictsAreCarriedOut
  BY DEF IInv
<1> QED
  BY InvariantHolds, <1>1, PTL

\* No two proposals are both credited with the retraction of one claim.
THEOREM RetractionHasOneAuthorHolds == Spec => []RetractionHasOneAuthor
<1>1. IInv => RetractionHasOneAuthor
  BY DEF IInv
<1> QED
  BY InvariantHolds, <1>1, PTL
=============================================================================
