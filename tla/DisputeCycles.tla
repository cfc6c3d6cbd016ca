--------------------------- MODULE DisputeCycles ---------------------------
(***************************************************************************)
(* The decision tools over the life of one ticket: cycle after cycle reads *)
(* the same billing evidence and the actions executed so far, and a human  *)
(* approves or rejects what was proposed.  The module asks whether the     *)
(* tools, which see only type and target of what was executed, can ever    *)
(* propose money that is not owed.                                         *)
(***************************************************************************)
EXTENDS Decisions

CONSTANT EvidenceSet    \* the billing evidence a ticket may have

\* Charges are rows: finitely many, each with an id of its own.
ASSUME EvidenceAssumption ==
  \A known \in EvidenceSet :
    /\ IsFiniteSet(known.charges)
    /\ \A charge \in known.charges : charge.at \in Nat /\ charge.id # Absent
    /\ \A one, other \in known.charges : one.id = other.id => one = other

VARIABLES
  evidence,   \* of the ticket; nothing in the system changes it
  executed,   \* the actions executed for the ticket
  decision,   \* what the current cycle's investigation concluded
  pending     \* the action waiting for approval, or NoAction

vars == <<evidence, executed, decision, pending>>

Undecided == Conclude("not_started", {})

Init ==
  /\ evidence \in EvidenceSet
  /\ executed = {} /\ decision = Undecided /\ pending = NoAction

\* One agent run that gets past the kernel's check of the evidence it read.
\* finalize_run refuses (409) an action that was executed.
Investigate ==
  /\ pending = NoAction
  /\ ~Raises(EvidenceTrace(evidence))
  /\ \E reading \in Readings(evidence.charges) :
       LET concluded == Evaluate(evidence, reading, executed) IN
       /\ decision' = concluded
       /\ pending' = IF concluded.action \in executed THEN NoAction
                                                      ELSE concluded.action
  /\ UNCHANGED <<evidence, executed>>

Approve ==
  /\ pending # NoAction
  /\ executed' = executed \cup {pending}
  /\ pending' = NoAction
  /\ decision' = Undecided
  /\ UNCHANGED evidence

Reject ==
  /\ pending # NoAction
  /\ pending' = NoAction
  /\ decision' = Undecided
  /\ UNCHANGED <<evidence, executed>>

Next == Investigate \/ Approve \/ Reject
Spec == Init /\ [][Next]_vars
-----------------------------------------------------------------------------
Captured == {charge \in evidence.charges : charge.status = "captured"}
Refunded == {charge \in Captured :
               \E done \in executed : /\ done.type = "original_refund"
                                      /\ done.target = charge.id}

\* What the next property needs of the evidence: of two charges captured for the
\* invoice total at one instant, ORDER BY captured_at may put either last.
DistinctInstants ==
  \A known \in EvidenceSet : known.scenario = "duplicate_charge" =>
    \A one, other \in known.charges :
      /\ one.status = "captured" /\ one.money = known.total
      /\ other.status = "captured" /\ other.money = known.total
      /\ one.at = other.at
      => one = other

\* Whatever is refunded over the cycles of a duplicate-charge ticket, the
\* invoice stays paid: one captured charge for its total is never refunded,
\* also when the pending refund is approved.
InvoiceStaysPaid ==
  evidence.scenario = "duplicate_charge" /\ (executed # {} \/ pending # NoAction) =>
    \E charge \in Captured \ Refunded :
      charge.money = evidence.total /\ charge.id # pending.target

\* A refund that waits for approval gives back exactly what a captured,
\* unrefunded charge took, and a credit exactly what was disputed; a dispute
\* that was granted a credit is granted nothing more.
ProposalsAreOwed ==
  pending # NoAction =>
    /\ \/ /\ pending.type = "original_refund"
          /\ \E charge \in Captured \ Refunded :
               charge.id = pending.target /\ charge.money = pending.money
       \/ /\ pending.type = "goodwill_credit"
          /\ evidence.credits # << >>
          /\ evidence.credits[1].id = pending.target
          /\ evidence.credits[1].disputed = pending.money
    /\ \A done \in executed : done.type # "goodwill_credit"
=============================================================================
