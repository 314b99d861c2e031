----------------------------- MODULE MCIncidents -----------------------------
(* Instances of Incidents for TLC: a public access point and a private one
   that can have a token, and an issue where both links were posted, the
   second one with its token. *)
EXTENDS Incidents

CONSTANTS Pub, Priv, Tok, Issue

MCHits ==
    {[point |-> Pub,  token |-> None, url |-> Issue],
     [point |-> Priv, token |-> Tok,  url |-> Issue]}
=============================================================================
