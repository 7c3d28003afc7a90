---------------------------- MODULE MCMigrations ----------------------------
(* Two pushers with an older and a newer checkout, two gateways.           *)
EXTENDS Migrations, TLC

CONSTANTS p1, p2, g1, g2

(* Timestamps, shortened to their last digits.                             *)
MCFiles == {<<0, 9>>, <<1, 0>>, <<1, 1>>}
MCDirectories == {{<<0, 9>>, <<1, 0>>}, MCFiles}

Symmetric == Permutations({p1, p2}) \cup Permutations({g1, g2})
=============================================================================
