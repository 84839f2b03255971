------------------------- MODULE MCTradingPipeline -------------------------
(* Instances of TradingPipeline for TLC. *)
EXTENDS TradingPipeline, TLC

CONSTANTS kis, yahoo,   \* publisher tasks
          krx, us       \* symbols

MCDrivers == {kis, yahoo}

\* KIS_SUBSCRIBE_SYMBOLS feeds both KisPublisher and the KRX Yahoo publisher.
SharedFeeds == [d \in MCDrivers |-> {krx}]

\* KIS for the Korean symbols, UsPublisher for the others.
SoleFeeds == (kis :> {krx}) @@ (yahoo :> {us})

\* A restart found two shares of krx in the account.
RestartOpening == [s \in Symbols |-> IF s = krx THEN 2 ELSE 0]
=============================================================================
