--------------------------- MODULE MCWillAmounts ---------------------------
EXTENDS WillAmounts
CONSTANTS ann, bob, cora
MCShares == [kind : {"fixed"}, amount : {1, 5, 12}] \cup [kind : {"percent"}, amount : {1, 3}]
MCWallets == {<<>>, <<30>>, <<17, 9>>, <<4, 8>>, <<2>>, <<25, 1>>} \cup {<<n>> : n \in 3..24}
MCChoices == {<<>>, <<0>>, <<0, 3>>, <<6, 3>>}
Same == Permutations(Names)
=============================================================================
