-------------------------- MODULE MCDeviceRegistry -------------------------
(* Instances of DeviceRegistry for TLC. *)
EXTENDS DeviceRegistry, TLC

CONSTANT i1

\* One iPhone, which may have a row for any of the providers.
OnePhone == [i \in {i1} |-> "ios"]

\* No action tells two users apart.
UserSymmetry == Permutations(Users)

\* Calls are for users here, as all the server's own are; other messages are for
\* users and installations.  One of the tokens is rotated.
MCNext ==
    /\ Next
    /\ rung'.rows # {} => rung'.whom # NoUser
    /\ Cardinality({p \in Providers : gen'[i1][p] > 0}) <= 1

MCSpec == Init /\ [][MCNext]_vars

=============================================================================
