---------------------------- MODULE MCReadChunks ----------------------------
(* Long blocks of narrow and wide characters, and several short ones. *)
EXTENDS ReadChunks, TLC

Blocks(n) == UNION {[1..k -> {1, 4}] : k \in 1..n}
MCDocuments == {<<b>> : b \in [1..7 -> {1, 4}]} \cup
               {<<b, c>> : b, c \in Blocks(3)} \cup
               {<<b, <<1>>, c>> : b, c \in Blocks(2)}
=============================================================================
