---- MODULE MCSelfHealing ----
\* Two runs for one job.  Recovery discovers the fallback as well as a challenger,
\* which is offered twice.
EXTENDS SelfHealing

MCJobOf == [e \in Engines |-> "job"]
MCOffers == {<<"x", "fallback", "x">>}
====
