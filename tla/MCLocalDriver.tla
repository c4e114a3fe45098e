--------------------------- MODULE MCLocalDriver ---------------------------
(* Values for LocalDriver's constants. *)
EXTENDS LocalDriver

\* Some share for each site and prefix, different at different levels.
MCMask(site, p) ==
    (3 * site + 2 * Len(p) + (IF p # << >> /\ p[Len(p)] THEN 1 ELSE 0)) % Modulus
=============================================================================
