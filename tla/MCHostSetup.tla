----------------------------- MODULE MCHostSetup -----------------------------
(* Three command lines: any two of them compete for something, the first    *)
(* two for the control socket, the first and the third for the TUN and the  *)
(* NAT, the last two for the listen address.                                *)
EXTENDS HostSetup

CONSTANTS p1, p2, p3

MCPathOf == [p \in Proc |-> IF p = p3 THEN "other" ELSE "home"]
MCUses == [p \in Proc |->
    CASE p = p1 -> {"control", "tun", "exit"}
      [] p = p2 -> {"udp", "control", "stack", "socks", "http"}
      [] OTHER  -> {"udp", "tun", "exit"}]
=============================================================================
