-------------------------- MODULE MCWeixinConnect --------------------------
EXTENDS WeixinConnect

CONSTANTS p1, p2

From(p, kind) == [from |-> p, kind |-> kind]
MCInbox == <<From(p1, "text"), From(p2, "silent"), From(p2, "mute"), From(p1, "text"),
             From(p2, "skip")>>

\* For AnsweredOnce with Overlap = History = 3 (README, Disagreements).
MCLongInbox == [k \in 1 .. 5 |-> From(p1, "text")]
=============================================================================
