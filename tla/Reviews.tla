------------------------------- MODULE Reviews -------------------------------
(***************************************************************************)
(* The human in the loop (web/openbrain/brain/services/reviews.py): the    *)
(* proposed_corrections queue and the disambiguation tokens, and the       *)
(* repairs their answers set off (split, rename, retract, alias in         *)
(* services/entities.py).                                                  *)
(*                                                                         *)
(* A verdict is stamped on the row in one transaction and carried out in   *)
(* another, so that no lock is held across the repair.  A repair that is   *)
(* refused puts the row back in the queue, in a third transaction.  The    *)
(* reviewer's process may die between any two of them.                     *)
(*                                                                         *)
(* A reference is a mention or one side of a claim: it names an entity.    *)
(* Names, aliases, reasons and audit events are left out.                  *)
(***************************************************************************)
EXTENDS Naturals

CONSTANTS
  Entities,   \* ids brain.entities rows may take
  References, \* mentions and claim sides
  Claims,     \* ids of brain.claims rows
  Tickets,    \* ids of proposals and tokens
  Changes,    \* what proposals suggest and tokens ask, in this instance
  Reviewers,  \* concurrent resolve_correction and resolve_disambiguation calls
  Faults,     \* which failures this instance admits
  Fresh,      \* a split's target is to be minted
  None        \* SQL null

\* suggested_change.action: repoint_participant, rename, retract; "unknown" is any
\* other, or one with a part missing.
Repair ==
  [tool : {"split"}, from : Entities, refs : SUBSET References, into : Entities \cup {Fresh}]
  \cup [tool : {"rename"}, entity : Entities]
  \cup [tool : {"retract"}, claim : Claims]
  \cup [tool : {"alias", "unknown"}]
\* A token asks the caller's own question, or whether a guessed binding is right.
Question ==
  [tool : {"choose"}]
  \cup [tool : {"guess"}, refs : SUBSET References, from : Entities]

\* A verdict whose repair is under way.
Work == [ticket : Tickets, repair : Repair, refused : BOOLEAN]

ASSUME ReviewsAssumption ==
  /\ Changes \subseteq Repair \cup Question
  /\ Faults \subseteq {"db", "crash"}
  /\ Fresh \notin Entities
  /\ None \notin Work

VARIABLES
  exists,    \* entities created so far
  away,      \* entities whose merged_into is set
  bound,     \* the entity each reference names
  retracted, \* claims of polarity 'retracted'
  status,    \* of the ticket's row, "absent" before it is filed
  change,    \* what the ticket proposes or asks
  hands,     \* the repair each reviewer has stamped and not yet finished
  effects,   \* history: repairs committed on a ticket's verdict
  lost       \* history: tickets whose reviewer died or could not reopen them

world == <<exists, away, bound, retracted>>
vars == <<exists, away, bound, retracted, status, change, hands, effects, lost>>

Answered == {"applied", "resolved"}
Statuses == Answered \cup {"absent", "pending", "rejected"}

WorldTyped ==
  /\ exists \subseteq Entities
  /\ away \subseteq exists
  /\ bound \in [References -> exists]
  /\ retracted \subseteq Claims

TicketsTyped ==
  /\ status \in [Tickets -> Statuses]
  /\ change \in [Tickets -> Changes \cup {None}]
  /\ \A t \in Tickets : status[t] # "absent" => change[t] \in Changes
  /\ hands \in [Reviewers -> Work \cup {None}]
  /\ effects \in [Tickets -> Nat]
  /\ lost \subseteq Tickets

\* The types of the schema: every reference names an entity that exists, also after
\* the splits; every filed ticket has its change.
TypeOK == WorldTyped /\ TicketsTyped

Live(e) == e \in exists \ away
Holds(w, t) == hands[w] # None /\ hands[w].ticket = t
Held(t) == \E w \in Reviewers : Holds(w, t)
Proposal(t) == change[t] \in Repair
Token(t) == change[t] \in Question

Init ==
  /\ exists \in SUBSET Entities
  /\ bound \in [References -> exists]
  /\ away = {}
  /\ retracted = {}
  /\ status = [t \in Tickets |-> "absent"]
  /\ change = [t \in Tickets |-> None]
  /\ hands = [w \in Reviewers |-> None]
  /\ effects = [t \in Tickets |-> 0]
  /\ lost = {}

(***************************************************************************)
(* propose_correction and request_disambiguation take what they are given; *)
(* a provisional binding is asked about by the capture or claim pass that  *)
(* made it, in the same transaction.                                       *)
(***************************************************************************)
File(t, ch) ==
  /\ status[t] = "absent"
  /\ ch.tool = "guess" => Live(ch.from) /\ \A r \in ch.refs : bound[r] = ch.from
  /\ status' = [status EXCEPT ![t] = "pending"]
  /\ change' = [change EXCEPT ![t] = ch]
  /\ UNCHANGED <<world, hands, effects, lost>>

-----------------------------------------------------------------------------
(***************************************************************************)
(* The verdict: a conditional update, or a check under the row's lock.     *)
(***************************************************************************)
\* Mutant: the update's condition is forgotten.
OpenOnceFiled(t) == status[t] # "absent"
Open(t) == status[t] = "pending"

Stamp(t, verdict) == status' = [status EXCEPT ![t] = verdict]
Take(w, t, repair) ==
  hands' = [hands EXCEPT ![w] = [ticket |-> t, repair |-> repair, refused |-> FALSE]]

RejectProposal(t) ==
  /\ Proposal(t) /\ Open(t)
  /\ Stamp(t, "rejected")
  /\ UNCHANGED <<world, change, hands, effects, lost>>

ApplyProposal(w, t) ==
  /\ hands[w] = None
  /\ Proposal(t) /\ Open(t)
  /\ Stamp(t, "applied")
  /\ Take(w, t, change[t])
  /\ UNCHANGED <<world, change, effects, lost>>

\* A choice that matches no option is an error before the stamp.  "Same" sets off
\* an alias, "different" a split of what was guessed (the one mention, or the claims of
\* the experience); a plain answer sets off nothing.
AnswerToken(w, t, same) ==
  /\ hands[w] = None
  /\ Token(t) /\ Open(t)
  /\ Stamp(t, "resolved")
  /\ \/ change[t].tool = "choose" /\ UNCHANGED hands
     \/ /\ change[t].tool = "guess"
        /\ Take(w, t, IF same THEN [tool |-> "alias"]
                      ELSE [tool |-> "split", from |-> change[t].from,
                            refs |-> change[t].refs, into |-> Fresh])
  /\ UNCHANGED <<world, change, effects, lost>>

-----------------------------------------------------------------------------
(***************************************************************************)
(* The repair, in a transaction of its own that locks what it judges.      *)
(***************************************************************************)
\* Mutant: a claim already retracted is retracted again.
PossibleAgain(fix) == fix.tool # "unknown" /\ (fix.tool = "split" => Live(fix.from))

\* append_alias skips an entity merged away, without an error.
Possible(fix) ==
  \/ fix.tool = "split" /\ Live(fix.from)
     /\ (fix.into = Fresh \/ (Live(fix.into) /\ fix.into # fix.from))
  \/ fix.tool = "rename" /\ fix.entity \in exists
  \/ fix.tool = "retract" /\ fix.claim \notin retracted
  \/ fix.tool = "alias"

\* Mutant: the target is not inserted.
GrownNot(target) == exists
Grown(target) == exists \cup {target}

\* A fresh target is minted also when no reference is left to move.
Split(fix) ==
  \E target \in IF fix.into = Fresh THEN Entities \ exists ELSE {fix.into} :
    /\ exists' = Grown(target)
    /\ bound' = [r \in References |->
                   IF r \in fix.refs /\ bound[r] = fix.from THEN target ELSE bound[r]]
    /\ UNCHANGED <<away, retracted>>

Retract(fix) ==
  /\ retracted' = retracted \cup {fix.claim}
  /\ UNCHANGED <<exists, away, bound>>

\* Names and aliases are not in the model.
Rename == UNCHANGED world

CarryOut(fix) ==
  /\ Possible(fix)
  /\ \/ fix.tool = "split" /\ Split(fix)
     \/ fix.tool = "retract" /\ Retract(fix)
     \/ fix.tool \in {"rename", "alias"} /\ Rename

Perform(w) ==
  /\ hands[w] # None /\ ~hands[w].refused
  /\ CarryOut(hands[w].repair)
  /\ effects' = [effects EXCEPT ![hands[w].ticket] = @ + 1]
  /\ hands' = [hands EXCEPT ![w] = None]
  /\ UNCHANGED <<status, change, lost>>

\* The repair raises, and its transaction rolls back.
Refuse(w) ==
  /\ hands[w] # None /\ ~hands[w].refused
  /\ ~Possible(hands[w].repair) \/ "db" \in Faults
  /\ hands' = [hands EXCEPT ![w].refused = TRUE]
  /\ UNCHANGED <<world, status, change, effects, lost>>

\* Mutant: the stamp of a refused repair stays.
ReopenedNot(verdict) == verdict
Reopened(verdict) == IF verdict \in Answered THEN "pending" ELSE verdict

\* The stamp is taken back, best effort.
Reopen(w) ==
  /\ hands[w] # None /\ hands[w].refused
  /\ LET t == hands[w].ticket IN
       \/ Stamp(t, Reopened(status[t])) /\ UNCHANGED lost
       \/ "db" \in Faults /\ lost' = lost \cup {t} /\ UNCHANGED status
  /\ hands' = [hands EXCEPT ![w] = None]
  /\ UNCHANGED <<world, change, effects>>

\* The process dies with a verdict stamped and its repair undone.
Crash(w) ==
  /\ "crash" \in Faults
  /\ hands[w] # None
  /\ lost' = lost \cup {hands[w].ticket}
  /\ hands' = [hands EXCEPT ![w] = None]
  /\ UNCHANGED <<world, status, change, effects>>

-----------------------------------------------------------------------------
(***************************************************************************)
(* The same tools called directly, and merges, change the world in between.*)
(***************************************************************************)
CallTool(fix) ==
  /\ fix \in Repair
  /\ CarryOut(fix)
  /\ UNCHANGED <<status, change, hands, effects, lost>>

Merge(loser, winner) ==
  /\ loser # winner /\ Live(loser) /\ Live(winner)
  /\ away' = away \cup {loser}
  /\ UNCHANGED <<exists, bound, retracted, status, change, hands, effects, lost>>

Unmerge(e) ==
  /\ e \in away
  /\ away' = away \ {e}
  /\ UNCHANGED <<exists, bound, retracted, status, change, hands, effects, lost>>

Next ==
  \/ \E t \in Tickets :
       \/ \E ch \in Changes : File(t, ch)
       \/ RejectProposal(t)
       \/ \E w \in Reviewers :
            ApplyProposal(w, t) \/ \E same \in BOOLEAN : AnswerToken(w, t, same)
  \/ \E w \in Reviewers : Perform(w) \/ Refuse(w) \/ Reopen(w) \/ Crash(w)
  \/ \E fix \in Changes : CallTool(fix)
  \/ \E e, f \in Entities : Merge(e, f)
  \/ \E e \in Entities : Unmerge(e)

Spec == Init /\ [][Next]_vars

-----------------------------------------------------------------------------
(***************************************************************************)
(* Properties.                                                             *)
(***************************************************************************)
\* However many reviewers race for a ticket, and however often it comes back, its
\* repair is committed at most once, on a standing verdict and with nobody still
\* working on it (resolve_correction: a concurrent resolve "can't double-apply").
OneEffectPerVerdict ==
  \A t \in Tickets : effects[t] > 0 =>
    effects[t] = 1 /\ status[t] \in Answered /\ ~Held(t)

\* A standing verdict has been carried out or is in somebody's hands, unless its
\* reviewer died or could not reach the database to reopen it: no refusal, merge or
\* direct call in between leaves an answer that changed nothing.
VerdictsAreCarriedOut ==
  \A t \in Tickets \ lost :
    status[t] \in Answered /\ change[t].tool # "choose" => Held(t) \/ effects[t] = 1

\* Of the proposals to retract one claim, only one is credited with it: the others
\* come back to the queue (retract_claim's check under the claim's lock).
RetractionHasOneAuthor ==
  \A t, u \in Tickets :
    /\ t # u /\ effects[t] > 0 /\ effects[u] > 0
    /\ change[t].tool = "retract" /\ change[u].tool = "retract"
    => change[t].claim # change[u].claim
=============================================================================
