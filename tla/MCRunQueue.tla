----------------------------- MODULE MCRunQueue -----------------------------
(* Small instances of RunQueue for TLC.                                    *)
EXTENDS RunQueue, TLC

CONSTANTS r1, r2, s1, k1, k2, w1, w2, p1, p2

\* Two runs of one conversation, submitted under two keys.
OneConversation == (r1 :> s1) @@ (r2 :> s1)
TwoKeys == (r1 :> k1) @@ (r2 :> k2)

\* The same message delivered twice.
OneKey == (r1 :> k1) @@ (r2 :> k1)

OneRunOneConversation == r1 :> s1
OneRunOneKey == r1 :> k1

WorkerSymmetry == Permutations(Workers)
=============================================================================
