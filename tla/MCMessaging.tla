---------------------------- MODULE MCMessaging ----------------------------
EXTENDS Messaging

CONSTANTS n1, n2
MCNodes == {n1, n2}
MCInputs == [local |-> 4, network |-> 3]
=============================================================================
