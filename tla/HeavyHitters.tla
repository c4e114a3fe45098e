---------------------------- MODULE HeavyHitters ----------------------------
(***************************************************************************)
(* What the whole system promises, before servers, shares or trees: the    *)
(* strings of a collection are gathered, and what is published is exactly  *)
(* the set of strings that at least Threshold of the gathered ones equal.  *)
(***************************************************************************)
EXTENDS Votes

CONSTANTS NClients,     \* requests the leader sends (its -n argument)
          Threshold     \* the count a string needs to be published

VARIABLES votes,        \* the strings gathered so far, one per client
          output        \* << >>, or << A >> once the answer A is published

hvars == <<votes, output>>

NotYet == << >>

HeavyStrings(vs) == {s \in BitString : Count(vs, s) >= Threshold}

-----------------------------------------------------------------------------

HInit == /\ votes = << >>
         /\ output = NotYet

\* A batch of clients' strings joins the collection.
Gather == /\ output = NotYet
          /\ \E n \in 1..(NClients - Len(votes)) :
                \E b \in [1..n -> BitString] : votes' = votes \o b
          /\ UNCHANGED output

Publish == /\ output = NotYet
           /\ output' = << HeavyStrings(votes) >>
           /\ UNCHANGED votes

\* A new collection starts from nothing.
Restart == /\ votes' = << >>
           /\ output' = NotYet

HNext == Gather \/ Publish \/ Restart

HSpec == HInit /\ [][HNext]_hvars
=============================================================================
