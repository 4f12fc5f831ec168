------------------------ MODULE MCEscrowTransactions ------------------------
(* The treasury token account is set right, or to the account of another. *)
EXTENDS EscrowTransactions

CONSTANT Elsewhere

MCTreasuryTokenAccounts ==
  {AssociatedTokenPda(Treasury, UsdcMint), AssociatedTokenPda(Elsewhere, UsdcMint)}
==============================================================================
