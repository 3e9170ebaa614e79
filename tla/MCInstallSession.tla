------------------------- MODULE MCInstallSession -------------------------
(* Advisories for TLC: a vulnerability the block tier lets through, and a  *)
(* malware record that scores below it.                                    *)
EXTENDS InstallSession

MCAdvisories == {[hits |-> {1, 2}, malware |-> FALSE, cvss |-> 8],
                 [hits |-> {2, 3} \cap Versions, malware |-> TRUE, cvss |-> 1]}
=============================================================================
