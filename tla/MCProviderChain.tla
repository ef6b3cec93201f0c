-------------------------- MODULE MCProviderChain --------------------------
(***************************************************************************)
(* A small instance of ProviderChain for TLC.                              *)
(***************************************************************************)
EXTENDS ProviderChain

CONSTANTS c1, c2, primary, fallback

PrimaryFirst == <<primary, fallback>>
=============================================================================
