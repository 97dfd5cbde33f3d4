------------------------------- MODULE MCUpdater -------------------------------
(* Two invocations of the updater over one installation.                    *)
EXTENDS Updater, Versions, TLC

CONSTANTS p, q

Symmetry == Permutations({p, q})

\* Every newer release is offered and installed and no other is, as long as
\* the minor number has one digit and the patch number two (_version_number,
\* extract_version_number).
ASSUME ReleasesAreOrdered ==
    \A u, v \in (0..3) \X (0..3) \X {0, 1, 9, 10, 99} :
        /\ UpdateOffered(u, v)   <=> Older(u, v)
        /\ UpdateInstalled(u, v) <=> Older(u, v)

\* Where the two stop being right, and to agree: 0.10.0 and 1.0.0 have the
\* number 1000 in the updater, which then does not install what the web
\* interface offers; the number of 1.0.100 is that of 1.1.0 in the web
\* interface; a package v100.0.0 is read in the compact form.
ASSUME ReleasesAreConfused ==
    /\ Older(<<0, 10, 0>>, <<1, 0, 0>>)
    /\ UpdateOffered(<<0, 10, 0>>, <<1, 0, 0>>) /\ ~UpdateInstalled(<<0, 10, 0>>, <<1, 0, 0>>)
    /\ Older(<<1, 0, 100>>, <<1, 1, 0>>) /\ ~UpdateOffered(<<1, 0, 100>>, <<1, 1, 0>>)
    /\ ~UpdateOffered(<<99, 0, 0>>, <<100, 0, 0>>) /\ ~UpdateInstalled(<<99, 0, 0>>, <<100, 0, 0>>)
=============================================================================
