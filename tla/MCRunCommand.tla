----------------------------- MODULE MCRunCommand -----------------------------
(* Up to three files of up to two entries each, no file and an empty one    *)
(* among them; fixtures with two valid blocks, with one, and with none.     *)
EXTENDS RunCommand

MCFiles == {<<>>} \cup {<<a>> : a \in Entries} \cup {<<"engine", b>> : b \in Entries}
MCBatches == {<<>>} \cup {<<a>> : a \in MCFiles} \cup (MCFiles \X MCFiles)
             \cup (MCFiles \X MCFiles \X {<<"engine">>})
MCBlocksOf(n, m) == IF m = 2 THEN {1} ELSE IF n = 3 THEN {} ELSE {1, 2}
===============================================================================
