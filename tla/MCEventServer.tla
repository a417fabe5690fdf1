--------------------------- MODULE MCEventServer ---------------------------
\* Instances of EventServer for TLC: which frames the connections send.
EXTENDS EventServer, TLC

CONSTANTS c1, c2

MCConns2 == {c1, c2}
MCHidden == {2}

Subscribe   == Frame("subscribe", 0)
Unsubscribe == Frame("unsubscribe", 0)

\* One connection subscribes and leaves; the other subscribes, or is present.
MCScripts == {c1 :> s @@ c2 :> <<Subscribe, Unsubscribe>> :
                s \in {<<Subscribe>>, <<Frame("presence.on", 0), Frame("presence.off", 0)>>}}
=============================================================================
