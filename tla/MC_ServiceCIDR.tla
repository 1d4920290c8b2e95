--------------------------- MODULE MC_ServiceCIDR ---------------------------
(* The service CIDRs 10.0.x.y/p with y over a spread of host octets and p  *)
(* from /16 to /30, or from /0 to /24.                                     *)
EXTENDS ServiceCIDR

MC_Octets == {0, 10, 16, 128, 200}
MC_Prefixes == 16..30
\* Blocks no longer than /24, where the last octet is all host bits.
MC_ShortPrefixes == 0..24
=============================================================================
