----------------------- MODULE MCERC721Checkpointable -----------------------
(* Small instances of ERC721Checkpointable for TLC.                        *)
EXTENDS ERC721Checkpointable, TLC

CONSTANTS alice, bob, p1, p2

Sig(signer, delegatee, nonce, expiry) ==
  [signer |-> signer, delegatee |-> delegatee, nonce |-> nonce,
   expiry |-> expiry]

\* Signatures that name a delegate; the second can only follow the first.
MCSignatures == {Sig(alice, bob, 0, 1), Sig(alice, alice, 1, 2)}

\* A signature that names the zero address.
ZeroSignatures == {Sig(alice, Zero, 0, 1)}

PunkSymmetry == Permutations(Punks)
=============================================================================
