----------------------------- MODULE LendingVault -----------------------------
(***************************************************************************)
(* Lending implements Vault: its reserves are the vaults, the collateral   *)
(* tokens minted are the claims.  Obligations, token accounts, stakes and  *)
(* the clock are hidden; instructions that only touch these are stuttering *)
(* steps, and so is a flash loan.                                          *)
(***************************************************************************)
EXTENDS Lending

V == INSTANCE Vault WITH
        WriteOffLimit <- FromU64(LIQUIDATION_CLOSE_AMOUNT),
        cash   <- [r \in Reserves |-> reserve[r].available_amount],
        debt   <- [r \in Reserves |-> reserve[r].borrowed_amount_wads],
        claims <- [r \in Reserves |-> reserve[r].mint_total_supply]

(* Every instruction, whatever it rounds, clamps or charges, is one of the *)
(* vault's moves on a single reserve: no loan goes unrecorded, no          *)
(* repayment settles more than it pays for except that a debt below        *)
(* LIQUIDATION_CLOSE_AMOUNT may be closed, no refresh lowers a debt, and   *)
(* collateral tokens are issued and redeemed at their price.               *)
ImplementsVault == V!VaultSpec
==============================================================================
