------------------------- MODULE MCRedisCallStore -------------------------
(* Instances of RedisCallStore for TLC. *)
EXTENDS RedisCallStore, TLC

\* Clients and users are interchangeable.
StoreSymmetry == Permutations(Clients) \cup Permutations(Users)

=============================================================================
