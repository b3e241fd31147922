-------------------------- MODULE MCNotificationFeed --------------------------
(***************************************************************************)
(* An instance of NotificationFeed for TLC.                                *)
(***************************************************************************)
EXTENDS NotificationFeed, TLC

\* Two users log in on the tab; the notifications are one's
CONSTANT u1
MCFor == [n \in Note |-> u1]

\* Bound: a tab that missed something is followed while it makes one call or has
\* events to come, not both
OneCallAtATime == \A f, g \in Flow : f # g => NoCall \in {call[f], call[g]}
Followed == exact \/ Quiet \/ (OneCallAtATime /\ Awaited = {})

Symmetry == Permutations(Note) \cup Permutations(Flow)
=============================================================================
