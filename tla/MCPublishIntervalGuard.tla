---------------------- MODULE MCPublishIntervalGuard ------------------------
(* An instance of the guard for TLC: an account and the account-less bucket  *)
(* on one platform, an account interval of two ticks, a platform interval of *)
(* one, a quota of one attempt a day, over two days.                         *)
EXTENDS PublishIntervalGuard, TLC

One  == [x \in Platform |-> 1]
Two  == [x \in Platform |-> 2]

(* Accounts and attempts are interchangeable. *)
Interchangeable == Permutations(Account) \union Permutations(Attempt)
=============================================================================
