---- MODULE MCAccounts ----
EXTENDS Accounts
====
