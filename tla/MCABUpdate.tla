----------------------------- MODULE MCABUpdate -----------------------------
(* Small instances of ABUpdate: the values the .cfg files give its constants. *)
EXTENDS ABUpdateTrial

(* Release 2 is bad, 3 flaky, 4 never reaches plexosd. *)
MCQuality     == [r \in Releases |-> CASE r = 2 -> "bad" [] r = 3 -> "flaky"
                                        [] r = 4 -> "dead" [] OTHER -> "good"]
MCMinSequence == [r \in Releases |-> IF r = 4 THEN 2 ELSE 0]
=============================================================================
