------------------------- MODULE MC_ManagedClusters -------------------------
(* Small instance of ManagedClusters for TLC.                              *)
EXTENDS ManagedClusters

MC_Versions == {"v1", "v2"}
\* The spec always names a SKU and a load-balancer profile; the tier
\* string is free-form ("Standard" is neither of the two the code knows).
MC_SkuTiers == {"Paid", "Standard"}
MC_LBProfiles == {"lb1"}
\* The spec may leave the SKU unset.
MC_SkuTiersUnset == {"Paid", NilPtr}
\* The spec sets DisableLocalAccounts and an AAD profile, so AKS stores a
\* tenant the normaliser has to drop.
MC_DLAs == {"true"}
MC_AADs == {"aad1"}
\* A public API server with authorized IP ranges.
MC_Public == {[ranges |-> "r1", private |-> FALSE, publicFqdn |-> FALSE]}
\* A private API server that asks for a public FQDN.
MC_PrivatePublicFqdn == {[ranges |-> "r1", private |-> TRUE, publicFqdn |-> TRUE]}
=============================================================================
