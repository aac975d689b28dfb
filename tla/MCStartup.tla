----------------------------- MODULE MCStartup -----------------------------
(* A small instance of Startup for TLC. *)
EXTENDS Startup

S(cmd, env, file, filter) == [cmd |-> cmd, envKey |-> env, keyFile |-> file, filter |-> filter]

MixedSetups ==
    {S("broker", "bad", TRUE, TRUE), S("broker", "unset", FALSE, FALSE),
     S("gateway", "unset", TRUE, TRUE), S("gateway", "good", TRUE, FALSE),
     S("keys", "unset", TRUE, FALSE)}

L(product, expires) ==
    [parses |-> TRUE, vendor |-> TRUE, product |-> product, edition |-> "enterprise",
     features |-> {}, expires |-> expires]

\* One that lapses, one for ever, one for another product.
MixedLicenses == {L("warrant", 0), L("warrant", None), L("gate", None)}

=============================================================================
