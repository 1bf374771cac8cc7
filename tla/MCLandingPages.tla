--------------------------- MODULE MCLandingPages ---------------------------
(* Model values for the instances of LandingPages.                         *)
EXTENDS LandingPages
CONSTANTS r1, r2, en, fr, good, bad, alice, bob
=============================================================================
