--------------------------- MODULE MCProviderSend --------------------------
(* Instances of ProviderSend for TLC. *)
EXTENDS ProviderSend

\* Huawei may say nothing of the life of a credential, or that it is short.
SomeTtls == {0, 2, 4}

=============================================================================
