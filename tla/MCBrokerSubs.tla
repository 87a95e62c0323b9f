---------------------------- MODULE MCBrokerSubs ----------------------------
EXTENDS BrokerSubs
CONSTANTS peer1, peer2, r1, r2
MCRelevant == {<<peer1, r1>>, <<peer1, r2>>, <<peer2, r1>>}
=============================================================================
