------------------------- MODULE MCCryptopunksVote --------------------------
(* Small instances of CryptopunksVote for TLC.                             *)
EXTENDS CryptopunksVote

CONSTANTS alice, bob, p1, p2

Sig(signer, delegatee, punks, nonce, expiry, batch) ==
  [signer |-> signer, delegatee |-> delegatee, punks |-> punks,
   nonce |-> nonce, expiry |-> expiry, batch |-> batch]

\* bob acts for alice.
MCOperators == {<<alice, bob>>}

\* Two signatures for the same nonce, one of them a batch, and the next one.
MCSignatures ==
  {Sig(alice, bob, <<p1>>, 0, 1, FALSE),
   Sig(alice, bob, <<p1, p2>>, 0, 2, TRUE),
   Sig(alice, alice, <<p1>>, 1, 1, FALSE)}
=============================================================================
