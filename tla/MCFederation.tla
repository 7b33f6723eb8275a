---------------------------- MODULE MCFederation ----------------------------
(* Two honest clients and a poisoned one; six devices, one of which is the  *)
(* only one of its stratum.                                                 *)
EXTENDS Federation

MCMask(c, d) == 1000 * c + 100 * d

MCRaw    == {-9, 1}
MCPoison == {-50, 50}
MCNoise  == {0, 1}

MCStratumOf == <<"young", "young", "young", "young", "young", "old">>

=============================================================================
