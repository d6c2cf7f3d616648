---------------------------- MODULE MCBlockCache ----------------------------
(* Instances of BlockCache for TLC: three requests and their prompts.      *)
EXTENDS BlockCache

CONSTANTS r1, r2, r3

MCRequests == {r1, r2, r3}

\* One prefix within the other, a prompt matched in full, and a block that differs from
\* another after its first token.
MCPrompts == r1 :> <<1, 1, 2, 2, 3>> @@ r2 :> <<1, 1>> @@ r3 :> <<1, 2>>

\* A prompt of more blocks than the prefix cache may hold.
MCLong == r1 :> <<1, 2, 3>> @@ r2 :> <<1, 2>> @@ r3 :> <<4>>
=============================================================================
