------------------------------- MODULE MCStartup -------------------------------
(***************************************************************************)
(* Constants for checking Startup: every path set, all but the key's, and  *)
(* none.                                                                   *)
(***************************************************************************)
EXTENDS Startup, TLC

MCConfigurations ==
    {{"p256", "ed25519", "bundle", "anchor"}, {"bundle", "anchor"}, {}}

\* Generated keys are interchangeable, and so are minted roots.
MCSymmetry == Permutations(Keys) \cup Permutations(Roots)

===============================================================================
