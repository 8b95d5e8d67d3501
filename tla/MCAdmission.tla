---------------------------- MODULE MCAdmission ----------------------------
EXTENDS Admission, TLC

CONSTANTS p1, p2

(* A principal that may write, and one that only reads.                    *)
MCTokens == {[principal |-> p1, scopes |-> {"read", "intent_write"}],
             [principal |-> p2, scopes |-> {"read"}]}

Symmetry == Permutations(Requests)
=============================================================================
