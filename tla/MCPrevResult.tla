---------------------------- MODULE MCPrevResult ----------------------------
EXTENDS PrevResult

CONSTANTS n1, n2, a1, a2, b1, g1, g2, m1, m2

TheConf == {[bridge |-> b1, mtu |-> m1, gateway |-> g1],
            [bridge |-> b1, mtu |-> m2, gateway |-> g2]}
=============================================================================
