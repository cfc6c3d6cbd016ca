------------------------- MODULE DisputeCyclesProofs -------------------------
(***************************************************************************)
(* DisputeCycles, proved for any billing evidence: however many charges an *)
(* invoice has and however many cycles a ticket goes through, the decision *)
(* tools propose only money that is owed.                                  *)
(***************************************************************************)
EXTENDS DisputeCycles, FiniteSetTheorems, WellFoundedInduction, TLAPS

-----------------------------------------------------------------------------
(* The order in which charges are read.                                    *)

\* Positions in a list have a first and a last.
LEMMA FirstAndLast ==
  ASSUME NEW n \in Nat, NEW positions, positions \subseteq 1..n, positions # {}
  PROVE  /\ Min(positions) \in positions
         /\ \A j \in positions : Min(positions) <= j
         /\ Max(positions) \in positions
         /\ \A j \in positions : j <= Max(positions)
<1> DEFINE R == OpToRel(<, Nat)
<1>1. IsWellFoundedOn(R, Nat) /\ \A i, j \in Nat : j < i => <<j, i>> \in R
  BY NatLessThanWellFounded DEF OpToRel
<1> HIDE DEF R
<1>2. \A i \in positions : i \in Nat /\ n - i \in Nat
  OBVIOUS
<1>3. \E i \in positions : \A j \in positions : i <= j
  <2>1. PICK i \in positions : \A j \in positions : <<j, i>> \notin R
    <3>1. positions \subseteq Nat
      BY <1>2
    <3> QED BY <3>1, <1>1, WFMin
  <2>2. ASSUME NEW j \in positions PROVE i <= j
    <3>1. ~(j < i)
      BY <2>1, <1>1, <1>2
    <3> QED BY <3>1, <1>2
  <2> QED BY <2>2
<1>4. \E i \in positions : \A j \in positions : i >= j
  <2> DEFINE fromEnd == {n - j : j \in positions}
  <2>1. /\ \A j \in positions : n - j \in fromEnd
        /\ \A k \in fromEnd : \E j \in positions : k = n - j
    OBVIOUS
  <2> HIDE DEF fromEnd
  <2>2. fromEnd \subseteq Nat /\ fromEnd # {}
    BY <2>1, <1>2
  <2>3. PICK m \in fromEnd : \A k \in fromEnd : <<k, m>> \notin R
    BY <2>2, <1>1, WFMin
  <2>4. PICK i \in positions : m = n - i
    BY <2>1
  <2>5. ASSUME NEW j \in positions PROVE i >= j
    <3>1. ~(n - j < n - i)
      BY <2>1, <2>3, <2>4, <1>1, <1>2
    <3> QED BY <3>1, <1>2
  <2> QED BY <2>5
<1>5. Min(positions) \in positions /\ \A j \in positions : Min(positions) <= j
  BY <1>3 DEF Min
<1>6. Max(positions) \in positions /\ \A j \in positions : Max(positions) >= j
  BY <1>4 DEF Max
<1>7. \A j \in positions : j <= Max(positions)
  BY <1>2, <1>6
<1> QED BY <1>5, <1>6, <1>7

\* Every charge is read, once, and a later one was captured no earlier.
LEMMA EveryChargeIsRead ==
  ASSUME NEW charges, IsFiniteSet(charges), NEW reading \in Readings(charges),
         \A charge \in charges : charge.at \in Nat
  PROVE  LET n == Cardinality(charges) IN
         /\ n \in Nat /\ DOMAIN reading = 1..n
         /\ \A i \in 1..n : reading[i] \in charges
         /\ \A charge \in charges : \E i \in 1..n : reading[i] = charge
         /\ \A i, j \in 1..n : i <= j => reading[i].at <= reading[j].at
         /\ \A i, j \in 1..n : reading[i] = reading[j] => i = j
<1> DEFINE n == Cardinality(charges)
<1>1. n \in Nat
  BY FS_CardinalityType
<1>2. /\ reading \in [1..n -> charges]
      /\ \A i, j \in 1..n : i < j => reading[i] # reading[j] /\ reading[i].at <= reading[j].at
  BY DEF Readings
<1> HIDE DEF n
<1>3. \A i, j \in 1..n : reading[i] = reading[j] => i = j
  BY <1>1, <1>2
<1>4. \A i, j \in 1..n : i <= j => reading[i].at <= reading[j].at
  <2> SUFFICES ASSUME NEW i \in 1..n, NEW j \in 1..n, i <= j
               PROVE  reading[i].at <= reading[j].at
    OBVIOUS
  <2>1. CASE i = j
    <3>1. reading[i] \in charges
      BY <1>2
    <3> QED BY <2>1, <3>1
  <2>2. CASE i # j
    BY <2>2, <1>1, <1>2
  <2> QED BY <2>1, <2>2
<1>5. reading \in Injection(1..n, charges)
  BY <1>2, <1>3 DEF Injection, IsInjective
<1>6. Cardinality(1..n) = n
  BY <1>1, FS_Interval
<1>7. reading \in Surjection(1..n, charges)
  BY <1>5, <1>6, FS_Injection DEF n
<1>8. \A charge \in charges : \E i \in 1..n : reading[i] = charge
  BY <1>7 DEF Surjection
<1> QED BY <1>1, <1>2, <1>3, <1>4, <1>8 DEF n

-----------------------------------------------------------------------------
(* What the two tools can propose.                                         *)

RefundOf(charge) ==
  [type |-> "original_refund", target |-> charge.id, money |-> charge.money]
CreditOf(credit) ==
  [type |-> "goodwill_credit", target |-> credit.id, money |-> credit.disputed]

\* The captured charges for the invoice total.
Matches(known) ==
  {charge \in known.charges : charge.status = "captured" /\ charge.money = known.total}

\* The duplicate among them: one captured last.
IsDuplicate(charge, known) ==
  /\ charge \in Matches(known)
  /\ \A other \in Matches(known) : other.at <= charge.at
  /\ \E other \in Matches(known) : other # charge

\* What may be owed on the evidence.
OwedOn(known, action) ==
  \/ /\ known.scenario = "duplicate_charge"
     /\ \E charge \in known.charges :
          IsDuplicate(charge, known) /\ action = RefundOf(charge)
  \/ /\ known.scenario # "duplicate_charge"
     /\ \E charge \in known.charges :
          charge.status = "captured" /\ action = RefundOf(charge)
  \/ /\ known.scenario # "duplicate_charge" /\ known.credits # << >>
     /\ action = CreditOf(known.credits[1])

\* DuplicateChargeDecisionTool proposes nothing, or to refund a duplicate nothing
\* was executed for.
LEMMA DuplicateToolProposes ==
  ASSUME NEW known \in EvidenceSet, NEW reading \in Readings(known.charges), NEW executed_
  PROVE  LET action == EvaluateDuplicateCharge(known, reading, executed_).action IN
         \/ action = NoAction
         \/ \E charge \in known.charges :
              IsDuplicate(charge, known) /\ action = RefundOf(charge)
<1> DEFINE captured == PaymentFacts(known, reading, "captured")
           authorized == PaymentFacts(known, reading, "authorized")
           concluded == EvaluateDuplicateCharge(known, reading, executed_)
           n == Cardinality(known.charges)
           last == Max(captured)
<1>1. /\ n \in Nat /\ DOMAIN reading = 1..n
      /\ \A i \in 1..n : reading[i] \in known.charges
      /\ \A charge \in known.charges : \E i \in 1..n : reading[i] = charge
      /\ \A i, j \in 1..n : i <= j => reading[i].at <= reading[j].at
      /\ \A i, j \in 1..n : reading[i] = reading[j] => i = j
  BY EvidenceAssumption, EveryChargeIsRead
<1> HIDE DEF n
<1>2. captured = {i \in 1..n : reading[i].money = known.total
                                 /\ reading[i].status = "captured"}
  BY <1>1 DEF PaymentFacts
<1>3. IsFiniteSet(captured) /\ Cardinality(captured) \in Nat
  <2>1. IsFiniteSet(1..n)
    BY <1>1, FS_Interval
  <2>2. captured \subseteq 1..n
    BY <1>2
  <2> HIDE DEF captured
  <2>3. IsFiniteSet(captured)
    BY <2>1, <2>2, FS_Subset
  <2> QED BY <2>3, FS_CardinalityType
<1>4. \/ concluded.action = NoAction
      \/ /\ Cardinality(captured) >= 2
         /\ concluded.action = [type |-> "original_refund", target |-> reading[last].id,
                                money |-> known.total]
  <2> HIDE DEF captured, authorized, last
  <2>1. CASE Cardinality(captured) < 2 /\ authorized # {}
    BY <2>1, <1>3 DEF EvaluateDuplicateCharge, Conclude, captured, authorized
  <2>2. CASE Cardinality(captured) < 2 /\ authorized = {}
    BY <2>2, <1>3 DEF EvaluateDuplicateCharge, Conclude, captured, authorized
  <2>3. CASE Cardinality(captured) >= 2
    BY <2>3, <1>3 DEF EvaluateDuplicateCharge, Conclude, Propose, captured, authorized, last
  <2> QED BY <2>1, <2>2, <2>3, <1>3
<1>5. ASSUME Cardinality(captured) >= 2
      PROVE  reading[last] \in known.charges /\ IsDuplicate(reading[last], known)
               /\ reading[last].money = known.total
  <2> HIDE DEF captured, last
  <2>1. captured # {} /\ captured \subseteq 1..n
    BY <1>2, <1>5, FS_EmptySet
  <2>2. last \in captured /\ \A j \in captured : j <= last
    BY <1>1, <2>1, FirstAndLast DEF last
  <2>3. \E j \in captured : j # last
    <3>1. captured # {last}
      BY <1>3, <1>5, FS_Singleton
    <3> QED BY <2>2, <3>1
  <2>4. reading[last] \in Matches(known)
    BY <1>1, <1>2, <2>1, <2>2 DEF Matches
  <2>5. ASSUME NEW other \in Matches(known) PROVE other.at <= reading[last].at
    <3>1. PICK i \in 1..n : reading[i] = other
      BY <1>1, <2>5 DEF Matches
    <3>2. i \in captured
      BY <3>1, <1>2, <2>5 DEF Matches
    <3> QED BY <3>1, <3>2, <1>1, <2>1, <2>2
  <2>6. \E other \in Matches(known) : other # reading[last]
    <3>1. PICK j \in captured : j # last
      BY <2>3
    <3> QED BY <3>1, <1>1, <1>2, <2>1, <2>2 DEF Matches
  <2> QED BY <2>4, <2>5, <2>6 DEF IsDuplicate, Matches
<1> QED BY <1>4, <1>5 DEF RefundOf

\* CreditRefundDecisionTool proposes nothing, to refund a captured charge, or to
\* grant the disputed credit; and nothing at all once that was granted.
LEMMA CreditToolProposes ==
  ASSUME NEW known \in EvidenceSet, NEW reading \in Readings(known.charges), NEW executed_
  PROVE  LET action == EvaluateCreditRefund(known, reading, executed_).action IN
         \/ action = NoAction
         \/ /\ known.credits # << >> =>
                 ~MetadataMatches("goodwill_credit", known.credits[1].id, executed_)
            /\ \/ \E charge \in known.charges :
                    charge.status = "captured" /\ action = RefundOf(charge)
               \/ known.credits # << >> /\ action = CreditOf(known.credits[1])
<1> DEFINE captured == {i \in DOMAIN reading : reading[i].status = "captured"}
           first == reading[Min(captured)]
           credited == known.credits # << >>
           credit == known.credits[1]
           prior == credited /\ MetadataMatches("goodwill_credit", credit.id, executed_)
           refundable == known.subscription = "early" /\ captured # {}
           concluded == EvaluateCreditRefund(known, reading, executed_)
           n == Cardinality(known.charges)
<1>1. /\ n \in Nat /\ DOMAIN reading = 1..n
      /\ \A i \in 1..n : reading[i] \in known.charges
  BY EvidenceAssumption, EveryChargeIsRead
<1> HIDE DEF n
<1>2. CASE prior
  <2>1. concluded.action = NoAction
    BY <1>2 DEF EvaluateCreditRefund, Conclude
  <2> QED BY <2>1
<1>3. CASE ~prior /\ refundable
  <2>1. first \in known.charges /\ first.status = "captured"
    <3>1. Min(captured) \in captured
      BY <1>1, <1>3, FirstAndLast
    <3> QED BY <3>1, <1>1
  <2>2. concluded.action = RefundOf(first)
    BY <1>3 DEF EvaluateCreditRefund, Propose, RefundOf
  <2> QED BY <1>3, <2>1, <2>2
<1>4. CASE ~prior /\ ~refundable
  <2>1. CASE credited /\ known.subscription # "none" /\ credit.disputed # Absent
    <3>1. concluded.action = CreditOf(credit)
      BY <1>4, <2>1 DEF EvaluateCreditRefund, Propose, CreditOf
    <3> QED BY <3>1, <1>4, <2>1
  <2>2. CASE ~(credited /\ known.subscription # "none" /\ credit.disputed # Absent)
    <3>1. concluded.action = NoAction
      BY <1>4, <2>2 DEF EvaluateCreditRefund, Conclude
    <3> QED BY <3>1
  <2> QED BY <2>1, <2>2
<1> QED BY <1>2, <1>3, <1>4
-----------------------------------------------------------------------------
(* The invariant: what was executed and what waits was owed on the same    *)
(* evidence; what waits was not executed; and it waits only where no       *)
(* credit was granted.                                                     *)

ExecutedWasOwed == \A done \in executed : OwedOn(evidence, done)

PendingIsOwed ==
  pending # NoAction =>
    /\ OwedOn(evidence, pending)
    /\ pending \notin executed
    /\ \A done \in executed : done.type # "goodwill_credit"

DisputeInv == evidence \in EvidenceSet /\ ExecutedWasOwed /\ PendingIsOwed

\* What any reading of the evidence makes the tools propose is owed on it, and
\* nothing is proposed once a credit was granted.
LEMMA ToolsProposeWhatIsOwed ==
  ASSUME DisputeInv, NEW reading \in Readings(evidence.charges),
         NEW action, action = Evaluate(evidence, reading, executed).action,
         action # NoAction
  PROVE  /\ OwedOn(evidence, action)
         /\ \A done \in executed : done.type # "goodwill_credit"
<1>1. evidence \in EvidenceSet
  BY DEF DisputeInv
<1>2. CASE evidence.scenario = "duplicate_charge"
  <2>1. action = EvaluateDuplicateCharge(evidence, reading, executed).action
    BY <1>2 DEF Evaluate
  <2>2. OwedOn(evidence, action)
    BY <1>1, <1>2, <2>1, DuplicateToolProposes DEF OwedOn
  <2>3. \A done \in executed : done.type # "goodwill_credit"
    BY <1>2 DEF DisputeInv, ExecutedWasOwed, OwedOn, RefundOf
  <2> QED BY <2>2, <2>3
<1>3. CASE evidence.scenario # "duplicate_charge"
  <2>1. action = EvaluateCreditRefund(evidence, reading, executed).action
    BY <1>3 DEF Evaluate
  <2>2. /\ evidence.credits # << >> =>
             ~MetadataMatches("goodwill_credit", evidence.credits[1].id, executed)
        /\ \/ \E charge \in evidence.charges :
                charge.status = "captured" /\ action = RefundOf(charge)
           \/ evidence.credits # << >> /\ action = CreditOf(evidence.credits[1])
    BY <1>1, <2>1, CreditToolProposes
  <2>3. OwedOn(evidence, action)
    BY <1>3, <2>2 DEF OwedOn
  <2>4. ASSUME NEW done \in executed, done.type = "goodwill_credit" PROVE FALSE
    <3>1. evidence.credits # << >> /\ done = CreditOf(evidence.credits[1])
      BY <1>3, <2>4 DEF DisputeInv, ExecutedWasOwed, OwedOn, RefundOf
    <3> QED BY <2>2, <2>4, <3>1 DEF MetadataMatches, CreditOf
  <2> QED BY <2>3, <2>4
<1> QED BY <1>2, <1>3

\* The invariant holds at the start and every cycle, approval and rejection keeps it.
THEOREM Invariance == Spec => []DisputeInv
<1>1. Init => DisputeInv
  BY DEF Init, DisputeInv, ExecutedWasOwed, PendingIsOwed
<1>2. DisputeInv /\ [Next]_vars => DisputeInv'
  <2> SUFFICES ASSUME DisputeInv, [Next]_vars PROVE DisputeInv'
    OBVIOUS
  <2>1. CASE Investigate
    <3>1. evidence' = evidence /\ executed' = executed
      BY <2>1 DEF Investigate
    <3>2. PICK reading \in Readings(evidence.charges) :
            LET concluded == Evaluate(evidence, reading, executed) IN
            pending' = IF concluded.action \in executed THEN NoAction
                                                        ELSE concluded.action
      BY <2>1 DEF Investigate
    <3> DEFINE action == Evaluate(evidence, reading, executed).action
    <3>3. pending' = NoAction \/ (pending' = action /\ action \notin executed)
      BY <3>2
    <3> HIDE DEF action
    <3>4. ASSUME action # NoAction
          PROVE  /\ OwedOn(evidence, action)
                 /\ \A done \in executed : done.type # "goodwill_credit"
      BY <3>4, ToolsProposeWhatIsOwed DEF action
    <3>5. PendingIsOwed'
      BY <3>1, <3>3, <3>4 DEF PendingIsOwed
    <3> QED BY <3>1, <3>5 DEF DisputeInv, ExecutedWasOwed
  <2>2. CASE Approve
    BY <2>2 DEF Approve, DisputeInv, ExecutedWasOwed, PendingIsOwed
  <2>3. CASE Reject
    BY <2>3 DEF Reject, DisputeInv, ExecutedWasOwed, PendingIsOwed
  <2>4. CASE UNCHANGED vars
    BY <2>4 DEF vars, DisputeInv, ExecutedWasOwed, PendingIsOwed
  <2> QED BY <2>1, <2>2, <2>3, <2>4 DEF Next
<1> QED BY <1>1, <1>2, PTL DEF Spec

-----------------------------------------------------------------------------
(* What the runs check of DisputeCycles.                                   *)

\* A refund that waits gives back what a captured charge took that was not
\* refunded yet, a credit what was disputed, and nothing waits on a dispute that
\* was granted a credit: approval_service executes what waits as it stands.
THEOREM OnlyOwedMoneyIsProposed == Spec => []ProposalsAreOwed
<1>1. DisputeInv => ProposalsAreOwed
  <2> SUFFICES ASSUME DisputeInv, pending # NoAction PROVE ProposalsAreOwed
    BY DEF ProposalsAreOwed
  <2>1. /\ evidence \in EvidenceSet /\ OwedOn(evidence, pending)
        /\ pending \notin executed
        /\ \A done \in executed : done.type # "goodwill_credit"
    BY DEF DisputeInv, PendingIsOwed
  <2>2. ASSUME NEW charge \in evidence.charges,
               charge.status = "captured", pending = RefundOf(charge)
        PROVE  charge \in Captured \ Refunded
    <3>1. ASSUME NEW done \in executed, done.type = "original_refund",
                 done.target = charge.id
          PROVE  FALSE
      <4>1. PICK other \in evidence.charges : done = RefundOf(other)
        BY <2>1, <3>1 DEF DisputeInv, ExecutedWasOwed, OwedOn, CreditOf, IsDuplicate, Matches
      <4>2. other = charge
        BY <2>1, <3>1, <4>1, EvidenceAssumption DEF RefundOf
      <4> QED BY <2>1, <2>2, <4>1, <4>2
    <3> QED BY <2>2, <3>1 DEF Captured, Refunded
  <2>3. CASE \E charge \in evidence.charges :
               charge.status = "captured" /\ pending = RefundOf(charge)
    BY <2>1, <2>2, <2>3 DEF ProposalsAreOwed, RefundOf
  <2>4. CASE evidence.credits # << >> /\ pending = CreditOf(evidence.credits[1])
    BY <2>1, <2>4 DEF ProposalsAreOwed, CreditOf
  <2> QED BY <2>1, <2>3, <2>4 DEF OwedOn, IsDuplicate, Matches
<1> QED BY <1>1, Invariance, PTL

\* Of charges captured at different instants every reading finds the same
\* duplicate: whatever is refunded, over all cycles, is that one, and another
\* charge for the invoice total stays.  The database does not keep two charges
\* of one invoice from having one captured_at, hence the hypothesis.
THEOREM InvoicesStayPaid == DistinctInstants => (Spec => []InvoiceStaysPaid)
<1> SUFFICES ASSUME DistinctInstants PROVE Spec => []InvoiceStaysPaid
  OBVIOUS
<1>1. DisputeInv => InvoiceStaysPaid
  <2> SUFFICES ASSUME DisputeInv, evidence.scenario = "duplicate_charge",
                      executed # {} \/ pending # NoAction
               PROVE  \E charge \in Captured \ Refunded :
                        charge.money = evidence.total /\ charge.id # pending.target
    BY DEF InvoiceStaysPaid
  <2>1. /\ evidence \in EvidenceSet
        /\ \A done \in executed : OwedOn(evidence, done)
        /\ pending # NoAction => OwedOn(evidence, pending)
    BY DEF DisputeInv, ExecutedWasOwed, PendingIsOwed
  <2>2. ASSUME NEW action, OwedOn(evidence, action)
        PROVE  \E charge \in evidence.charges :
                 IsDuplicate(charge, evidence) /\ action = RefundOf(charge)
    BY <2>2 DEF OwedOn
  <2>3. PICK duplicate \in evidence.charges : IsDuplicate(duplicate, evidence)
    BY <2>1, <2>2
  <2>4. ASSUME NEW other \in evidence.charges, IsDuplicate(other, evidence)
        PROVE  other = duplicate
    <3>1. other.at <= duplicate.at /\ duplicate.at <= other.at
      BY <2>3, <2>4 DEF IsDuplicate
    <3>2. other.at = duplicate.at
      BY <2>1, <3>1, EvidenceAssumption
    <3> QED BY <2>1, <2>3, <2>4, <3>2 DEF IsDuplicate, Matches, DistinctInstants
  <2>5. PICK kept \in Matches(evidence) : kept # duplicate
    BY <2>3 DEF IsDuplicate
  <2>6. kept \in evidence.charges /\ kept.id # duplicate.id /\ kept.id # Absent
    BY <2>1, <2>3, <2>5, EvidenceAssumption DEF Matches
  <2>7. kept \in Captured \ Refunded
    <3>1. ASSUME NEW done \in executed PROVE done.target # kept.id
      <4>1. done = RefundOf(duplicate)
        BY <2>1, <2>2, <2>4
      <4> QED BY <2>6, <4>1 DEF RefundOf
    <3> QED BY <2>5, <2>6, <3>1 DEF Captured, Refunded, Matches
  <2>8. kept.id # pending.target
    <3>1. CASE pending = NoAction
      BY <2>6, <3>1 DEF NoAction
    <3>2. CASE pending # NoAction
      <4>1. pending = RefundOf(duplicate)
        BY <2>1, <2>2, <2>4, <3>2
      <4> QED BY <2>6, <4>1 DEF RefundOf
    <3> QED BY <3>1, <3>2
  <2> QED BY <2>5, <2>7, <2>8 DEF Matches
<1> QED BY <1>1, Invariance, PTL
=============================================================================
