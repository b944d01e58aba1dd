---------------------------- MODULE MCOrderBook ----------------------------
(* An instance of OrderBook for TLC. *)
EXTENDS OrderBook

TwoPrices == {1, 2}
=============================================================================
