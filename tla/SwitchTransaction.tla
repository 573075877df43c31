------------------------- MODULE SwitchTransaction -------------------------
(***************************************************************************)
(* What a change of provider promises: it happens completely or not at     *)
(* all, and between changes the files are those of the active provider.    *)
(***************************************************************************)
CONSTANT Ids

VARIABLES active,    \* the provider in use
          matched,   \* do the live files belong to it?
          sound      \* has nothing broken in from outside?

tvars == <<active, matched, sound>>

Init == active \in Ids /\ matched = TRUE /\ sound = TRUE

\* The user changes to provider p.
Switch(p) == sound /\ active' = p /\ matched' = TRUE /\ UNCHANGED sound

\* Something breaks in; from then on nothing is promised.
Trouble == sound' = FALSE /\ active' \in Ids /\ matched' \in BOOLEAN

Next == (\E p \in Ids : Switch(p)) \/ Trouble

Spec == Init /\ [][Next]_tvars
=============================================================================
