---------------------------- MODULE MCTradeClient ----------------------------
EXTENDS TradeClient
AllGestures == GestureKinds
NoBack == GestureKinds \ {"back"}
=============================================================================
