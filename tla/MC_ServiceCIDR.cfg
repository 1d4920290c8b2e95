CONSTANTS
    Octets <- MC_Octets
    Prefixes <- MC_Prefixes
SPECIFICATION Spec
INVARIANTS DNSIPInServiceCIDR
