----------------------------- MODULE MCRuleList -----------------------------
(* A small instance of RuleList for TLC. *)
EXTENDS RuleList

\* A rule for this flow's process, and one without any filter.  Two of the second
\* kind differ once one of them is full-cone.
MCContents ==
  { [name |-> "hit", filter |-> "hit", action |-> "DIRECT"],
    [name |-> "star", filter |-> "star", action |-> "PROXY"] }
=============================================================================
