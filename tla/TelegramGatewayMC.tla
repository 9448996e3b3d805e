------------------------- MODULE TelegramGatewayMC -------------------------
(* Small instances of TelegramGateway for TLC.                               *)
EXTENDS TelegramGateway

CONSTANTS c1, c2, p1, f1, a1, a2, m1, m2, m3

(* Two certified jobs of one message, a plain send and a fetch.              *)
Account == [j \in Jobs |-> IF j \in {c1, c2} THEN a1 ELSE a2]
Message == [j \in Jobs |-> IF j \in {c1, c2} THEN m1 ELSE IF j = p1 THEN m2 ELSE m3]
Kind == [j \in Jobs |-> IF j \in {c1, c2} THEN "certified" ELSE IF j = p1 THEN "send" ELSE "fetch"]
=============================================================================
