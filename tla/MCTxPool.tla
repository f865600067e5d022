------------------------------ MODULE MCTxPool ------------------------------
(***************************************************************************)
(* One pool, two senders, all balances sufficient and no scripts.          *)
(***************************************************************************)
EXTENDS TxPool

\* Payments by sender and nonce; nobody has sent <<"a", 1>>.
MCPayments == {<<"a", 2>>, <<"a", 3>>, <<"b", 1>>, <<"b", 2>>}
MCSenderOf == [t \in Payments |-> t[1]]
MCNonceOf  == [t \in Payments |-> t[2]]
=============================================================================
