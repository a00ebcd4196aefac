----------------------------- MODULE MCSigning -----------------------------
(* Small instances of Signing for TLC: an RSA key signs in a fixed length,
   an elliptic curve key in a varying one. *)
EXTENDS Signing, TLC

CONSTANTS rsa, ec

MCMaxLength == (rsa :> 2) @@ (ec :> 3)
MCMinLength == (rsa :> 2) @@ (ec :> 1)
=============================================================================
