--------------------------- MODULE MCProviderPools ---------------------------
(* Two workspaces and two accounts, with quotas, rules and files around the  *)
(* boundaries of the routing rules, for TLC.  One byte stands for a unit of  *)
(* which Telegram takes three.                                               *)
EXTENDS ProviderPools, TLC

CONSTANTS w1, w2, a1, a2, l1, l2, pdf

Symmetries == Permutations({w1, w2}) \cup Permutations({a1, a2}) \cup Permutations({l1, l2})

MCQuotas == {<<Nil, 7>>, <<16, 12>>, <<100, 40>>}

NoRules == [max |-> Nil, min |-> Nil, oneOf |-> {}, allOf |-> {}]
MCMemberships ==
  [account : Accounts, priority : {1}, threshold : {Nil},
   rules : {NoRules, [NoRules EXCEPT !.min = 3, !.max = 4, !.oneOf = {{pdf}}]}]
  \cup [account : Accounts, priority : {2}, threshold : {75}, rules : {NoRules}]
  \cup [account : Accounts, priority : {5}, threshold : {80}, rules : {NoRules}]

MCFiles == {[size |-> n, traits |-> {pdf}] : n \in {0, 4, 5}} \cup {[size |-> 4, traits |-> {}]}
=============================================================================
