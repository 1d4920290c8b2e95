-------------------------- MODULE ServiceCIDRProofs --------------------------
(***************************************************************************)
(* Proof that the DNS service IP of managedclusters.go lines 139-149 lies  *)
(* in the service CIDR whenever the prefix is at most /24: the first       *)
(* prefix bits sit in the first three octets, which the code leaves alone. *)
(***************************************************************************)
EXTENDS ServiceCIDR, TLAPS

\* The octet that holds bit i of an address.
OctetOf(i) == (i - 1) \div 8 + 1

\* Bit i of a network prefix of at most 24 bits lies in octets 1 to 3.
LEMMA PrefixBitInFirstOctets ==
    ASSUME NEW p \in 0..24, NEW i \in 1..p
    PROVE  OctetOf(i) \in 1..3
BY DEF OctetOf

\* Overwriting the last octet leaves every bit of a /24 (or shorter)
\* prefix as it was, so the derived address is in the block.
LEMMA LastOctetIsHostPart ==
    ASSUME CIDRAssumption, NEW c \in CIDRs, c.prefix \in 0..24
    PROVE  InCIDR(DNSServiceIP(c), c.ip, c.prefix)
<1> SUFFICES ASSUME NEW i \in 1..c.prefix
             PROVE  Bit(DNSServiceIP(c), i) = Bit(c.ip, i)
  BY DEF InCIDR
<1>1. OctetOf(i) \in 1..3
  BY PrefixBitInFirstOctets
<1>2. DNSServiceIP(c)[OctetOf(i)] = c.ip[OctetOf(i)]
  BY <1>1 DEF DNSServiceIP, CIDRs
<1>3. QED
  BY <1>2 DEF Bit, OctetOf

\* The comment's claim at lines 143-145 (DNSIPInServiceCIDR) holds for
\* every service CIDR with a prefix of at most 24 bits.
THEOREM ShortPrefixDNSIPInCIDR ==
    ASSUME Prefixes \subseteq 0..24
    PROVE  Spec => []DNSIPInServiceCIDR
<1> USE CIDRAssumption
<1>1. Init => DNSIPInServiceCIDR
  BY LastOctetIsHostPart DEF Init, DNSIPInServiceCIDR, CIDRs
<1>2. DNSIPInServiceCIDR /\ [Next]_cidr => DNSIPInServiceCIDR'
  BY DEF Next, DNSIPInServiceCIDR
<1>3. QED
  BY <1>1, <1>2, PTL DEF Spec
=============================================================================
