---------------------------- MODULE MCRateLimiter ----------------------------
(***************************************************************************)
(* Instance of RateLimiter for TLC: one client that sends any headers, two *)
(* requests at a time, half a token a tick.                                *)
(***************************************************************************)
EXTENDS RateLimiter

(* What GetClientIP promises, for every header: a peer that is no proxy is *)
(* its own address; behind a proxy the left-most address of the chain that *)
(* is no proxy counts, then X-Real-IP.                                     *)
ASSUME ClientAddress ==
  \A remote \in Ips, xff \in Chains, xri \in Values :
    LET a == GetClientIP(remote, xff, xri)
        FirstHop(i) == xff[i] \in Sources /\ \A j \in 1..(i - 1) : xff[j] \notin Sources
    IN  /\ remote \in Sources => a = remote
        /\ remote \in Trusted =>
             /\ \A i \in DOMAIN xff : FirstHop(i) => a = xff[i]
             /\ (\A i \in DOMAIN xff : xff[i] \notin Sources) =>
                  a = IF xri = Garbage THEN remote ELSE xri
=============================================================================
