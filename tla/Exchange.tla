------------------------------ MODULE Exchange ------------------------------
(***************************************************************************)
(* What request() promises one caller of the wire tests, whatever invoke   *)
(* ids, retries, threads and late answers do underneath: a call returns,   *)
(* with the answer to that call or with none, and nothing changes between  *)
(* calls.  Client and Workstation implement it.                            *)
(***************************************************************************)
EXTENDS Naturals

VARIABLES
    called,    \* the number of the caller's last call, 0 before the first
    waiting,   \* inside request()
    outcome    \* the call whose answer was returned, 0 for none

exchangeVars == <<called, waiting, outcome>>

ExchangeInit == called = 0 /\ waiting = FALSE /\ outcome = 0

Call ==
    /\ ~waiting
    /\ called' \in Nat /\ called' > called
    /\ waiting' = TRUE
    /\ outcome' = 0

Return ==
    /\ waiting
    /\ waiting' = FALSE
    /\ outcome' \in {0, called}
    /\ UNCHANGED called

ExchangeNext == Call \/ Return

ExchangeSafety == ExchangeInit /\ [][ExchangeNext]_exchangeVars
ExchangeSpec == ExchangeSafety /\ WF_exchangeVars(Return)
=============================================================================
