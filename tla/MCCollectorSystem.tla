-------------------------- MODULE MCCollectorSystem --------------------------
(* Values for CollectorSystem's constants. *)
EXTENDS CollectorSystem

\* Some share for each site and prefix, different at different levels.
MCMask(site, p) ==
    (3 * site + 2 * Len(p) + (IF p # << >> /\ p[Len(p)] THEN 1 ELSE 0)) % Modulus
=============================================================================
