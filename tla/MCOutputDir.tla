---------------------------- MODULE MCOutputDir ----------------------------
(* Instances of OutputDir for TLC. *)
EXTENDS OutputDir, TLC

CONSTANTS user, mail, old, text, newer

Both == (user :> text) @@ (mail :> text)
UserChanged == (user :> newer) @@ (mail :> text)
WithoutMail == (user :> newer) @@ (mail :> Absent)

Evolving == <<Both, UserChanged, WithoutMail>>
Dropping == <<Both, WithoutMail>>
=============================================================================
