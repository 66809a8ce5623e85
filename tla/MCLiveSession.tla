--------------------------- MODULE MCLiveSession ----------------------------
EXTENDS LiveSession

MCForms == {<<>>, <<"LongText", "Checkboxes">>}

Bound(logs, requests, replies) == [logs |-> logs, requests |-> requests, replies |-> replies]
MCBounds == {Bound(1, 1, 1), Bound(0, 1, 2)}
=============================================================================
