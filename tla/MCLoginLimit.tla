---------------------------- MODULE MCLoginLimit ----------------------------
(* Two worker processes (HTTPS and HTTP) with a thread each. *)
EXTENDS LoginLimit, TLC

CONSTANTS t1, t2, https, http, ip1, ip2

MCProcessOf == (t1 :> https) @@ (t2 :> http)

MCSymmetry == Permutations(Addresses)

=============================================================================
