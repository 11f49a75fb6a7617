------------------------------ MODULE MC_Iface ------------------------------
EXTENDS Iface

\* Every configuration of at most two ports: LACP or not, IPv6 or not, and a
\* build whose GATEKEEPER_MAX_PKT_BURST is 2 or 32.
MCConfigs ==
    [nports : 1..2, lacp : BOOLEAN, ipv6 : BOOLEAN, burst : {2, 32}]

====
