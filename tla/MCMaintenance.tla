---------------------------- MODULE MCMaintenance ----------------------------
(* Two workers, one of them with two threads; contents are pairs of the key  *)
(* they carry or verify under and a version.                                *)
EXTENDS Maintenance

CONSTANTS http, https, h1, h2, s1, k1, k2

OneVersion == {k1, k2} \X {1}
TwoVersions == {k1, k2} \X {1, 2}
KeyOfOneVersion == [c \in OneVersion |-> c[1]]
KeyOfTwoVersions == [c \in TwoVersions |-> c[1]]
TwoAndOne == [t \in {h1, h2, s1} |-> IF t = s1 THEN https ELSE http]
OneThreadEach == [t \in {h1, s1} |-> IF t = s1 THEN https ELSE http]
=============================================================================
