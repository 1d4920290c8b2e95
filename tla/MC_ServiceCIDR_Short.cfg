CONSTANTS
    Octets <- MC_Octets
    Prefixes <- MC_ShortPrefixes
SPECIFICATION Spec
INVARIANTS DNSIPInServiceCIDR
