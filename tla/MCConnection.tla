----------------------------- MODULE MCConnection -----------------------------
(* Two lives of an instance, with and without its MqttModule: the first is shut *)
(* down in a quiet moment, the second in the middle of anything.                *)
EXTENDS Connection

MCConfigurations == {{"mqtt", "handler"}, {"handler"}}
MCSends    == {"state"}
MCArrivals == {"order", "instantActions", "malformed", "other"}

===============================================================================
