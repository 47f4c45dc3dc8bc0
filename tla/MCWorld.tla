------------------------------ MODULE MCWorld ------------------------------
(* Small instances of World for TLC.                                       *)
EXTENDS WorldInvariant

CONSTANTS r1, r2, r3, k1, b1, b2, c1, c2

\* r1 and its retry r2 share key and fingerprint; r3 reuses the key with
\* another body.
RetryKey == [r \in Requests |-> k1]
RetryBody == [r \in Requests |-> IF r = r3 THEN b2 ELSE b1]

\* r1 and its retry r2, and r3 without a key: two writes in one generation.
MixedKey == [r \in Requests |-> IF r = r3 THEN NoKey ELSE k1]

\* r1 carries a key, the others none.
OneKeyed == [r \in Requests |-> IF r = r1 THEN k1 ELSE NoKey]
OneBody == [r \in Requests |-> b1]

ResetPayload(g) == [route |-> "reset", expect |-> g]
AdvancePayload(g) == [route |-> "advance", expect |-> g]
NoPayloads == {}
TwoResets == {ResetPayload(1), ResetPayload(2), AdvancePayload(1)}
OneReset == {ResetPayload(1)}
=============================================================================
