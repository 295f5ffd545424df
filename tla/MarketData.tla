----------------------------- MODULE MarketData -----------------------------
(***************************************************************************)
(* Market data as one system: the quotes with their pushes (QuoteFeed,     *)
(* QuotePush), the K-lines of the display and backfill paths (KlineStore), *)
(* and the certified store (CertifiedStore).  They share the database and  *)
(* the caches but no row and no key, so a behaviour exercises one of them; *)
(* within the quotes, runs of the worker meet either callers of the        *)
(* backend, who read the caches, or clients, who are pushed messages.      *)
(***************************************************************************)
EXTENDS QuotePush, KlineStore, CertifiedStore

VARIABLE part   \* what a behaviour exercises

vars == <<part, quoteVars, pushVars, klineVars, certifiedVars>>

\* While another part is exercised the certified store is an empty one.
CertifiedRests == store = [d \in Days |-> NoRow] /\ calendar = CHOOSE c \in Calendars : TRUE

Init ==
    /\ part \in {"callers", "clients", "klines", "certified"}
    /\ QuoteInit /\ PushInit /\ KlineInit /\ CertifiedInit
    /\ part = "certified" \/ CertifiedRests

\* Nobody has subscribed: every message is lost.
Readers == QuoteNext /\ feed' = <<>> /\ UNCHANGED pushVars

\* Redis stores no value, nobody asks, and no message has an age.
Subscribers ==
    \/ QuoteNext /\ ~ QuoteTick /\ UNCHANGED <<redis, l1, asked, pushVars>>
    \/ PushNext

Next ==
    /\ \/ part = "callers" /\ Readers /\ UNCHANGED <<klineVars, certifiedVars>>
       \/ part = "clients" /\ Subscribers /\ UNCHANGED <<klineVars, certifiedVars>>
       \/ part = "klines" /\ KlineNext /\ UNCHANGED <<quoteVars, pushVars, certifiedVars>>
       \/ part = "certified" /\ CertifiedNext /\ UNCHANGED <<quoteVars, pushVars, klineVars>>
    /\ UNCHANGED part

Spec == Init /\ [][Next]_vars
=============================================================================
