--------------------------- MODULE MCMessageCache ---------------------------
(***************************************************************************)
(* Instances of MessageCache.  The channel one has two messages and room   *)
(* for a single row after pruning, so that the younger message can bury    *)
(* the evidence about the older, and a load and a pin refresh, which does  *)
(* what a page does and more; the private one has two messages whose       *)
(* deletions are remembered apart, two cloud searches that abort each      *)
(* other, a load, and a send whose answer is applied as live.              *)
(***************************************************************************)
EXTENDS MessageCache, TLC

CONSTANTS k1, k2, chan, priv, r1, r2, r3, r4

ASSUME Cardinality({k1, k2, chan, priv, r1, r2, r3, r4}) = 8

AnyIdOf == [k \in {k1, k2} |-> IF k = k1 THEN 1 ELSE 2]

ChannelChatOf == [k \in {k1, k2} |-> chan]
ChannelKindOf == [r \in {r1, r2} |-> IF r = r1 THEN "load" ELSE "pins"]
ChannelTargetOf == [r \in {r1, r2} |-> chan]

PrivateChatOf == [k \in {k1, k2} |-> priv]
PrivateKindOf ==
    [r \in {r1, r2, r3, r4} |->
        CASE r = r3 -> "load" [] r = r4 -> "direct" [] OTHER -> "search"]
PrivateTargetOf == [r \in {r1, r2, r3, r4} |-> priv]

\* The two searches are alike.
SearchSymmetry == Permutations({r1, r2})
====
