---------------------------- MODULE MCConnection ----------------------------
(* Small instances of Connection for TLC. *)
EXTENDS Connection

MCLongBodies == {<<1, 2, 3>>}
MCRedirectLimits == {-1, 1}
MCNoRedirectLimit == {-1}
=============================================================================
