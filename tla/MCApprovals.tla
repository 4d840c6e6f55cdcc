---------------------------- MODULE MCApprovals ----------------------------
(* A shell call and a fetch, or a question, of the person.                  *)
EXTENDS Approvals, TLC

CONSTANTS build, fetch, question, make, host

TwoCalls == {build, fetch}
ThreeCalls == {build, fetch, question}
MCGrants == {make, host}
MCKey == (build :> {make}) @@ (fetch :> {host}) @@ (question :> {})
TwoKeys == (build :> {make}) @@ (fetch :> {host})
=============================================================================
