--------------------------- MODULE MCRelaySwitch ---------------------------
EXTENDS RelaySwitch

MCIds == {"c", "m", "o", "r", "x"}
MCImports == {"x"}
MCKind == [p \in MCIds |-> CASE p = "x" -> "api" [] p = "c" -> "chat" [] p = "r" -> "routes"
                             [] p = "m" -> "mix" [] OTHER -> "official"]

MCNoAuthIds == {"n", "o"}
MCNoAuthKind == [p \in MCNoAuthIds |-> IF p = "n" THEN "noauth" ELSE "official"]
=============================================================================
