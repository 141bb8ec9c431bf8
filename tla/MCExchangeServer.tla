--------------------------- MODULE MCExchangeServer ---------------------------
(***************************************************************************)
(* TLC's run of ExchangeServer: a configuration of three lots, one with a   *)
(* name that is refused, and one without lots.                              *)
(***************************************************************************)
EXTENDS ExchangeServer

MCConfigs == {<<"A", "B", "C">>, <<"A", "B,C">>, <<>>}
=============================================================================
