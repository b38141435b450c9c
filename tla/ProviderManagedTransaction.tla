---------------------- MODULE ProviderManagedTransaction ----------------------
(***************************************************************************)
(* runProviderManagedTransaction (src/src/drivers/shared/transactions.ts): *)
(* a transaction the provider runs itself (postgres.js begin, PGlite       *)
(* transaction, Bun SQL begin), and what runTransaction in                 *)
(* driver-transaction-base.ts makes of its outcome.                        *)
(*                                                                         *)
(* The provider is not trusted: it may call the callback any number of     *)
(* times, settle before the callback does, and resolve although the        *)
(* callback failed.  The settling of its promise and the code that awaits  *)
(* it are one step, no I/O comes between them.  A provider does not call   *)
(* the callback once it has settled.                                       *)
(*                                                                         *)
(* Init, Next and the like carry the mode's name, so that one module can   *)
(* reason about this mode and that of PoolTransaction.                     *)
(***************************************************************************)
EXTENDS Naturals

CONSTANT MaxInvocations   \* bound on the calls of the callback by the provider

ASSUME InvocationAssumption == MaxInvocations \in Nat \ {0}

VARIABLES
  main,      \* where runProviderManagedTransaction stands
  provider,  \* the promise of lifecycle.run
  error,     \* what it was rejected with: the callback's failure or another
  invoked,   \* callbackCallCount
  callback,  \* callbackOutcome; "none" before the first call
  failure,   \* whether the callback failed in the isolation statement or in the
             \* body: only the latter is the callbackFailure of _transaction
  early,     \* providerSettledBeforeCallback
  close,     \* lifecycle.close: not attempted, succeeded or failed
  thrown,    \* the failures of the error the caller gets, the primary one first
  driverPoisoned   \* transactionPoisonError of the driver

providerVars == <<main, provider, error, invoked, callback, failure, early, close,
                  thrown, driverPoisoned>>

\* main: "running", then "closing" and "draining" or "judging", "cleaning", and at
\* last "ok" or "failed".  "draining": awaiting the callback after the close;
\* "judging": the outcome of provider and callback is known; "cleaning": the
\* cleanup steps run.
ProviderInit ==
  /\ main = "running"
  /\ provider = "running"
  /\ error = "none"
  /\ invoked = 0
  /\ callback = "none"
  /\ failure = "none"
  /\ early = FALSE
  /\ close = "none"
  /\ thrown = [primary |-> "none", others |-> {}]
  /\ driverPoisoned = FALSE

-----------------------------------------------------------------------------
(* The provider and the user's callback.                                   *)

\* The provider calls the callback; all but the first call throw into it.
Invoke ==
  /\ provider = "running"
  /\ invoked < MaxInvocations
  /\ invoked' = invoked + 1
  /\ callback' = IF invoked = 0 THEN "pending" ELSE callback
  /\ UNCHANGED <<main, provider, error, failure, early, close, thrown, driverPoisoned>>

\* The isolation statement fails, or the body returns or throws.
CallbackSettles ==
  /\ callback = "pending"
  /\ \/ callback' = "fulfilled" /\ UNCHANGED failure
     \/ callback' = "rejected" /\ failure' \in {"isolation", "body"}
  /\ UNCHANGED <<main, provider, error, invoked, early, close, thrown, driverPoisoned>>

\* Goes on to the verdict although the callback is still running.
ProviderSettlesUnnoticed ==
  /\ provider = "running"
  /\ \/ provider' = "resolved" /\ UNCHANGED error
     \/ /\ provider' = "rejected"
        /\ error' \in {"other"} \cup (IF callback = "rejected" THEN {"callback"} ELSE {})
  /\ early' = (callback = "pending")
  /\ main' = "judging"
  /\ UNCHANGED <<invoked, callback, failure, close, thrown, driverPoisoned>>

\* The provider settles; if the callback has not, closeBeforeCallbackDrain.
ProviderSettles ==
  /\ provider = "running"
  /\ \/ provider' = "resolved" /\ UNCHANGED error
     \/ /\ provider' = "rejected"
        /\ error' \in {"other"} \cup (IF callback = "rejected" THEN {"callback"} ELSE {})
  /\ early' = (callback = "pending")
  /\ main' = IF callback = "pending" THEN "closing" ELSE "judging"
  /\ UNCHANGED <<invoked, callback, failure, close, thrown, driverPoisoned>>

-----------------------------------------------------------------------------
(* The wrapper.                                                            *)

\* closeBeforeCallbackDrain: a failure is kept for later.
CloseFirst ==
  /\ main = "closing"
  /\ close' \in {"closed", "failed"}
  /\ main' = "draining"
  /\ UNCHANGED <<provider, error, invoked, callback, failure, early, thrown, driverPoisoned>>

\* Waits for a result only, and not for a failure.
DrainedOnResult ==
  /\ main = "draining"
  /\ callback = "fulfilled"
  /\ main' = "judging"
  /\ UNCHANGED <<provider, error, invoked, callback, failure, early, close, thrown, driverPoisoned>>

\* The callback's promise is awaited, its rejection caught.
CallbackDrained ==
  /\ main = "draining"
  /\ callback # "pending"
  /\ main' = "judging"
  /\ UNCHANGED <<provider, error, invoked, callback, failure, early, close, thrown, driverPoisoned>>

\* The failures to report: what the provider did, and the early close.
Contract == {f \in {"early", "count", "resolvedAnyway"} :
               CASE f = "early" -> early
                 [] f = "count" -> provider = "resolved" /\ invoked # 1
                 [] OTHER -> provider = "resolved" /\ callback = "rejected"}
Reported == Contract \cup (IF provider = "rejected" THEN {"provider"} ELSE {})
                     \cup (IF close = "failed" THEN {"close"} ELSE {})

\* The callback's failure comes first, then the provider's, then the contract's.
Primary(fs) == IF callback = "rejected" THEN "callback"
               ELSE IF "provider" \in fs THEN "provider"
               ELSE IF "count" \in fs THEN "count" ELSE "early"

Success == provider = "resolved" /\ Contract = {}

\* The provider passed the callback's own failure on: it rolled back itself.
Rethrown == provider = "rejected" /\ callback = "rejected" /\ ~early /\ error = "callback"

\* Any resolved provider is taken at its word.
JudgeTrusting ==
  /\ main = "judging"
  /\ IF provider = "resolved"
     THEN main' = "ok" /\ UNCHANGED thrown
     ELSE IF Rethrown
          THEN /\ main' = "failed"
               /\ thrown' = [primary |-> "callback", others |-> {}]
          ELSE /\ main' = "cleaning"
               /\ thrown' = [primary |-> Primary(Reported),
                             others |-> Reported \ {Primary(Reported)}]
  /\ driverPoisoned' = (main' = "failed" /\ failure # "body")
  /\ UNCHANGED <<provider, error, invoked, callback, failure, early, close>>

\* Any failure of the callback is passed on as if the provider had rolled back.
JudgeLenient ==
  /\ main = "judging"
  /\ IF Success
     THEN main' = "ok" /\ UNCHANGED thrown
     ELSE IF callback = "rejected" /\ ~early
          THEN /\ main' = "failed"
               /\ thrown' = [primary |-> "callback", others |-> {}]
          ELSE /\ main' = "cleaning"
               /\ thrown' = [primary |-> Primary(Reported),
                             others |-> Reported \ {Primary(Reported)}]
  /\ driverPoisoned' = (main' = "failed" /\ failure # "body")
  /\ UNCHANGED <<provider, error, invoked, callback, failure, early, close>>

\* The verdict.  A rethrown failure is passed on as it is, and runTransaction
\* poisons the driver unless it is the body's own.
Judge ==
  /\ main = "judging"
  /\ IF Success
     THEN main' = "ok" /\ UNCHANGED thrown
     ELSE IF Rethrown
          THEN /\ main' = "failed"
               /\ thrown' = [primary |-> "callback", others |-> {}]
          ELSE /\ main' = "cleaning"
               /\ thrown' = [primary |-> Primary(Reported),
                             others |-> Reported \ {Primary(Reported)}]
  /\ driverPoisoned' = (main' = "failed" /\ failure # "body")
  /\ UNCHANGED <<provider, error, invoked, callback, failure, early, close>>

\* throwAfterCleanup: the failures collected and the close, if there was none.
\* transactionCleanupFailed, unless what is thrown is the body's failure itself.
Clean ==
  /\ main = "cleaning"
  /\ IF close = "none" THEN close' \in {"closed", "failed"} ELSE UNCHANGED close
  /\ thrown' = [thrown EXCEPT !.others = @ \cup (IF close' = "failed" THEN {"close"} ELSE {})]
  /\ driverPoisoned' = (failure # "body" \/ thrown'.primary # "callback" \/ thrown'.others # {})
  /\ main' = "failed"
  /\ UNCHANGED <<provider, error, invoked, callback, failure, early>>

Wrapper == CloseFirst \/ CallbackDrained \/ Judge \/ Clean

ProviderNext == Invoke \/ CallbackSettles \/ ProviderSettles \/ Wrapper

ProviderSpec == ProviderInit /\ [][ProviderNext]_providerVars

\* The provider settles and so does the callback.
ProviderFairSpec == /\ ProviderSpec
                    /\ WF_providerVars(ProviderSettles)
                    /\ WF_providerVars(CallbackSettles)
                    /\ WF_providerVars(Wrapper)

-----------------------------------------------------------------------------
(* Properties.                                                             *)

Finished == main \in {"ok", "failed"}

\* Success is reported for one run of the callback that succeeded before the
\* provider committed, and for nothing else the provider may call a success.
SuccessIsCommitted ==
  main = "ok" => /\ invoked = 1 /\ callback = "fulfilled"
                 /\ provider = "resolved" /\ ~early
                 /\ close = "none" /\ ~driverPoisoned

\* A client whose transaction may have been left open is closed, and a driver
\* whose client was closed refuses further work: getClient would still find the
\* closed client behind initPromise.  Nobody's client is closed for a failure the
\* provider itself rolled back.
UncertainClientIsGone ==
  main = "failed" => /\ close # "none" <=> ~Rethrown
                     /\ close # "none" => driverPoisoned

\* No failure is swallowed: the caller is not answered while its callback still
\* runs and may yet fail, the callback's own failure is the one reported first,
\* and behind it are the provider's and that of the close.
NoFailureLost ==
  main = "failed" =>
    LET all == {thrown.primary} \cup thrown.others
    IN  /\ callback # "pending"
        /\ callback = "rejected" => thrown.primary = "callback"
        /\ error = "other" => "provider" \in all
        /\ close = "failed" => "close" \in all
        /\ early => "early" \in all

\* The caller is answered if provider and callback settle, in whatever order.
CallerIsAnswered == <>Finished

-----------------------------------------------------------------------------
(* An inductive invariant (proved in TransactionModesProofs).              *)

Failures == {"none", "callback", "provider", "count", "early", "resolvedAnyway", "close"}

ProviderTypeOK ==
  /\ main \in {"running", "closing", "draining", "judging", "cleaning", "ok", "failed"}
  /\ provider \in {"running", "resolved", "rejected"}
  /\ error \in {"none", "callback", "other"}
  /\ invoked \in Nat
  /\ callback \in {"none", "pending", "fulfilled", "rejected"}
  /\ failure \in {"none", "isolation", "body"}
  /\ early \in BOOLEAN
  /\ close \in {"none", "closed", "failed"}
  /\ thrown \in [primary : Failures, others : SUBSET Failures]
  /\ driverPoisoned \in BOOLEAN

\* What the provider and the callback have done fits together.
OutcomesAgree ==
  /\ provider = "running" <=> main = "running"
  /\ error # "none" <=> provider = "rejected"
  /\ error = "callback" => callback = "rejected"
  /\ invoked = 0 <=> callback = "none"
  /\ failure = "none" <=> callback # "rejected"
  /\ early => callback # "none"

\* An early client is closed before the callback is awaited, and only such a one
\* before the verdict.
ClosedEarly ==
  /\ main = "running" => ~early
  /\ main \in {"closing", "draining"} => early
  /\ main \in {"running", "closing"} => close = "none"
  /\ main \in {"draining", "judging", "cleaning"} => (close # "none" <=> early)
  /\ main \in {"judging", "cleaning", "ok", "failed"} => callback # "pending"
  /\ main \notin {"cleaning", "failed"} => ~driverPoisoned

\* What is about to be thrown is all that is to report.
AllCollected ==
  main = "cleaning" => /\ ~Success /\ ~Rethrown
                       /\ thrown.primary = Primary(Reported)
                       /\ thrown.others = Reported \ {Primary(Reported)}

ProviderInv == /\ ProviderTypeOK /\ OutcomesAgree /\ ClosedEarly /\ AllCollected
        /\ SuccessIsCommitted /\ UncertainClientIsGone /\ NoFailureLost
=============================================================================
