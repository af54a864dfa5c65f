------------------------------- MODULE MCSetup -------------------------------
EXTENDS Setup

CONSTANTS d1, d2, d3, m1, m2, root, nginx, tailscale, qbittorrent, cifs, nas

\* No disk, none that is usable, and two that are, with and without a third.
MCSightings == {{}, {d3}, {d1, d2}, {d1, d2, d3}}

MCPresets ==
  [p \in {"custom", "minimal"} |-> IF p = "custom" THEN {} ELSE {nginx, tailscale}]
=============================================================================
