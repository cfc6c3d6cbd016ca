-------------------------- MODULE MCDisputeCycles --------------------------
(* All evidence of up to three charges, and of one credit, for TLC.        *)
EXTENDS DisputeCycles

\* The charges of an invoice: charge n is absent or was captured, authorized
\* or declined at instant n, for the invoice total or for another amount.
ChargeSets ==
  LET Row(n) == {{}} \cup {{[id |-> <<"charge", n>>, at |-> n, money |-> m, status |-> s]} :
                             m \in {"total", "other"},
                             s \in {"captured", "authorized", "declined"}}
  IN {a \cup b \cup c : a \in Row(1), b \in Row(2), c \in Row(3)}

Credit(disputed) == <<[id |-> <<"credit", 1>>, disputed |-> disputed]>>

DuplicateEvidence ==
  {[found |-> TRUE, scenario |-> "duplicate_charge", total |-> "total", charges |-> cs,
    credits |-> Credit("part"), usage |-> TRUE, subscription |-> "none"] : cs \in ChargeSets}

CreditEvidence ==
  {[found |-> TRUE, scenario |-> "credit_refund_dispute", total |-> "total", charges |-> cs,
    credits |-> credits, usage |-> FALSE, subscription |-> s] :
      cs \in {c \in ChargeSets : Cardinality(c) <= 2},
      credits \in {<< >>} \cup {Credit(d) : d \in {Absent, "part"}},
      s \in {"none", "early", "late"}}

AllEvidence == DuplicateEvidence \cup CreditEvidence
=============================================================================
