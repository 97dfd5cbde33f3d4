------------------------------- MODULE Versions -------------------------------
(***************************************************************************)
(* Release numbers <<major, minor, patch>> as the web interface and the    *)
(* updater turn them into one number, to decide which release is newer.    *)
(* Each compares its own numbers only.                                     *)
(***************************************************************************)
EXTENDS Integers

(* The order of releases that both mean. *)
Older(u, v) ==
    \/ u[1] < v[1]
    \/ u[1] = v[1] /\ u[2] < v[2]
    \/ u[1] = v[1] /\ u[2] = v[2] /\ u[3] < v[3]

(* _version_number; "v" and three digits is the compact form of old names,  *)
(* which a package name with a major number of three digits looks like.     *)
VersionNumber(v)        == 10000 * v[1] + 100 * v[2] + v[3]
PackageVersionNumber(v) == IF v[1] >= 100 THEN v[1] ELSE VersionNumber(v)

(* extract_version_number: the decimal numbers written behind each other,   *)
(* the patch number with at least two digits; package names as above.       *)
Shift(n)        == IF n < 10 THEN 10 ELSE IF n < 100 THEN 100 ELSE 1000
TwoDigits(n)    == IF n < 100 THEN 100 ELSE 1000
ScriptNumber(v) == (v[1] * Shift(v[2]) + v[2]) * TwoDigits(v[3]) + v[3]
PackageScriptNumber(v) == IF v[1] >= 100 THEN v[1] ELSE ScriptNumber(v)

(* _check_online_update_available; perform_update, which also wants the     *)
(* name of the package and its config.py to have one number.                *)
UpdateOffered(current, package)   == VersionNumber(current) < PackageVersionNumber(package)
UpdateInstalled(current, package) ==
    /\ PackageScriptNumber(package) = ScriptNumber(package)
    /\ ScriptNumber(current) < PackageScriptNumber(package)

=============================================================================
