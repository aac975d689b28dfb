------------------------------ MODULE Authority ------------------------------
(***************************************************************************)
(* What minting and delegating promise about authority, in terms of the    *)
(* calls a scope admits: a token holds what was minted, and a delegate     *)
(* exactly the overlap of what its parent holds with what it asked for.    *)
(***************************************************************************)
EXTENDS Scopes

CONSTANTS Mintable, Askable   \* lists of scopes that may be minted, asked for

VARIABLE held    \* the scopes of the last token of the lineage

\* A scope, unless it admits no call.
Some(s) == IF s.calls = {} THEN <<>> ELSE <<s>>

\* The scopes of a list that admit a call.
Admits(scopes) ==
    LET kept[i \in 0 .. Len(scopes)] ==
            IF i = 0 THEN <<>> ELSE kept[i - 1] \o Some(scopes[i])
    IN  kept[Len(scopes)]

Init == held = <<>>

Mint == held = <<>> /\ \E scopes \in Mintable : held' = Admits(scopes)

Delegate == \E scopes \in Askable : held' = Admits(Attenuate(held, scopes))

Next == Mint \/ Delegate

Spec == Init /\ [][Next]_held

=============================================================================
