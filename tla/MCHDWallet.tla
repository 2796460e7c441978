---------------------------- MODULE MCHDWallet ----------------------------
(***************************************************************************)
(* The wallet on the instance of MCWalletApi.                              *)
(***************************************************************************)
EXTENDS HDWallet, MCWalletApi
=============================================================================
