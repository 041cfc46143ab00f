-------------------------- MODULE MCPeerHandshake --------------------------
EXTENDS PeerHandshake
Both == [n \in Node |-> Node \ {n}]
=============================================================================
