----------------------------- MODULE MCConnection -----------------------------
EXTENDS Connection
CONSTANTS k1, k2, d1, d2, r1, r2, i1
MCConns2 == {k1, k2}
MCFirst == {k1}
MCDiscs  == {d1, d2}
MCDisc1  == {d1}
MCRMs1   == {r1}
MCRMs    == {r1, r2}
MCIncs1  == {i1}
CallsConnect == {"connect"}
CallsAll == CallKinds
CallsConnectDisconnect == {"connect", "disconnect", "disconnect_e"}
=============================================================================
