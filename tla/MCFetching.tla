------------------------------ MODULE MCFetching ------------------------------
(* A small instance of Fetching for TLC. *)
EXTENDS Fetching

CONSTANTS k1, p1, idl, x, y, hb

FlatRent(n) == 1
LivePrograms == [Program -> {[kind |-> "live", upgrade |-> k1]}]
OneByte == {<<x>>, <<y>>}

Canonical == <<p1, idl>>
ThirdParty == <<p1, k1, idl>>

Queries == {<<ThirdParty, Canonical, ThirdParty>>}

\* One reference skips the header, the other names the whole account.
Records(bytes) ==
  IF bytes[1] = x THEN [address |-> Canonical, offset |-> HeaderLen, length |-> 2]
                  ELSE [address |-> ThirdParty, offset |-> 0, length |-> 0]
\* The last signer is history, and what was returned is looked at when it is.
Looked == <<acct, prog, read.status, read.accounts>>
===============================================================================
