----------------------------- MODULE ServiceCIDR -----------------------------
(***************************************************************************)
(* The DNS service IP that managedclusters.go (lines 136-153) derives when *)
(* the spec gives a service CIDR and no DNS service IP: net.ParseCIDR      *)
(* returns the address as written (not the network address), and the      *)
(* code overwrites its last byte (ip[15], the last IPv4 octet of the       *)
(* 16-byte form) with 10.  The comment above it says this "ensures the     *)
(* dns IP is valid in the service cidr".                                   *)
(*                                                                         *)
(* An IPv4 address is a 4-tuple of octets; membership in a CIDR is defined *)
(* bit by bit on the first prefix-length bits, as the reference.           *)
(***************************************************************************)
EXTENDS Naturals

CONSTANTS
    Octets,     \* the octet values the enumerated inputs range over
    Prefixes    \* the prefix lengths they range over

ASSUME CIDRAssumption ==
    /\ Octets \subseteq 0..255 /\ Octets # {}
    /\ Prefixes \subseteq 0..32 /\ Prefixes # {}

VARIABLE cidr   \* the spec's ServiceCIDR, as ParseCIDR reads it

\* The service CIDRs ParseCIDR accepts, over the enumerated octets.
CIDRs == [ip : [1..4 -> Octets], prefix : Prefixes]

\* Bit i (1 = most significant) of a 32-bit address.
Bit(a, i) ==
    LET o == (i - 1) \div 8 + 1
        k == 7 - ((i - 1) % 8)
    IN (a[o] \div (2 ^ k)) % 2

\* Reference: address x lies in the block net/p.
InCIDR(x, net, p) == \A i \in 1..p : Bit(x, i) = Bit(net, i)

\* Mutant: the byte before the last one overwritten (ip[14]).
DNSServiceIPThirdOctet(c) == [c.ip EXCEPT ![3] = 10]

\* Lines 139-149: ip, _, err := net.ParseCIDR(cidr); ip[15] = byte(10).
DNSServiceIP(c) == [c.ip EXCEPT ![4] = 10]

Init == cidr \in CIDRs

\* Each state is one input; nothing changes it.
Next == UNCHANGED cidr

Spec == Init /\ [][Next]_cidr

\* The comment at lines 143-145: the derived DNS IP is inside the service
\* CIDR, so the user need not give it.
DNSIPInServiceCIDR == InCIDR(DNSServiceIP(cidr), cidr.ip, cidr.prefix)

=============================================================================
