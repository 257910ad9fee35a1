--------------------------- MODULE MCWillCustody ---------------------------
EXTENDS WillCustody

\* Two keys of two wallets, two transactions, the second of which spends the
\* first
=============================================================================
