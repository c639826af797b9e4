------------------------------ MODULE MCNetif ------------------------------
(***************************************************************************)
(* Instances of NetifLan8742a for TLC.  A request is one flag, as the      *)
(* network stack passes them, or a pair that takes the handler through two *)
(* of its branches.                                                        *)
(***************************************************************************)
EXTENDS NetifLan8742a, TLC

CONSTANTS c1, c2, a1

OneClient == {c1}
TwoClients == {c1, c2}
OneAddress == {a1}
OnlyConfigured == {TRUE}
ConfiguredOrNot == BOOLEAN
Symmetric == Permutations(TwoClients)

AllRequests ==
  {{f} : f \in Flags} \cup
  {{}, {"SET_LINK_UP", "IS_LINK_UP"}, {"SET_LINK_UP", "SET_LINK_DOWN"}}

\* Every way a request handed on to the MAC driver may touch the hardware.
AllForwards == {"start", "stop", "register"}
NoForwards == {}

\* What a poller and an administrator send.
LinkRequests == {{"SET_LINK_UP"}, {"IS_LINK_UP"}, {"SET_LINK_DOWN"}}

\* The poller's request, and one that goes through both others: enough for
\* every call of the MAC driver to be interleaved with every other.
RaceRequests == {{"IS_LINK_UP"}, {"SET_LINK_UP", "SET_LINK_DOWN"}}

=============================================================================
