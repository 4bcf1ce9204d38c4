---------------------------- MODULE MCRateLimiter ----------------------------
(* RateLimiter on the sets TLC runs it on.                                   *)
EXTENDS RateLimiter

CONSTANTS ip1, ip2

MCIPs == {ip1, ip2}

=============================================================================
