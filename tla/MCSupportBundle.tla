----------------------------- MODULE MCSupportBundle -----------------------------
(* A small instance of SupportBundle for TLC: one log that redaction makes *)
(* longer, beside a binary file.                                           *)
EXTENDS SupportBundle

ThreeFiles == <<"app_info.json", "health_summary.json", "capability_matrix.json">>
OneGrows == {[n \in {"a.log", "b.log"} |-> IF n = "a.log" THEN "grows" ELSE "binary"]}
=============================================================================
