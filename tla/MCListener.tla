----------------------------- MODULE MCListener -----------------------------
(* Two slots per listener. Half-open peers alone can fill the UI's, and a     *)
(* stream and a kept connection can. The health listener has the check.       *)
EXTENDS Listener

CONSTANTS ui, health, slow1, slow2, page, scraper, check

MCServes == [p \in Peers |-> IF p = check THEN health ELSE ui]
MCWants == [p \in Peers |->
              CASE p \in {slow1, slow2} -> "nothing"
                [] p = page -> "stream"
                [] p = scraper -> "answers"
                [] p = check -> "answer"]
=============================================================================
