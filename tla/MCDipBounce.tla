---------------------------- MODULE MCDipBounce ----------------------------
(* A falling and bouncing market in six looks. The lines of the first      *)
(* buy and DCA 1 are at 8000, 25% over the low and 6000 of a reference of  *)
(* 10000; DCA 2 asks 30%, 30% and 50%. From 10000 to 10005 is no move      *)
(* worth a write.                                                          *)
EXTENDS DipBounce

MCPrices == {4500, 6000, 7500, 8000, 10000, 10005}

(* At the live price, or a spread and an impact over it.                   *)
MCPaid(p) == {p, p + p \div 10}
=============================================================================
